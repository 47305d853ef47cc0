------------------------- MODULE DepResolverProofs -------------------------
(***************************************************************************)
(* Theorems about DepResolver, for every set of nodes, every number of     *)
(* tags, every dependency graph and every order of the requests.           *)
(***************************************************************************)
EXTENDS DepResolver, TLAPS, SequenceTheorems, WellFoundedInduction

(* The callback is running a task of the list, and it never gets past the  *)
(* highest tag it was asked for.                                           *)
Running ==
  pc = "callback" => cb \in Callback /\ tasks # <<>>

TypeInv == TypeOK /\ Running

(* The keys of an entry are keys of the schema.                            *)
LEMMA KeysOfType ==
  ASSUME NEW n \in Node, NEW T \in SUBSET Tag
  PROVE  KeysOf(n, T) \in SUBSET Key
<1>1. \A t \in T : <<n, t>> \in Key
  BY DEF Key
<1>2. QED
  BY <1>1, Zenon DEF KeysOf

(* A request becomes an entry of the lists.                                *)
LEMMA NewEntryType ==
  ASSUME TypeOK, NEW n \in Node, NEW T \in SUBSET Tag, T # {}, NEW keep \in BOOLEAN
  PROVE  NewEntry(n, T, keep) \in Entry
<1>1. FreshArg \in Nat
  BY LenProperties DEF TypeOK, FreshArg
<1>2. QED
  BY <1>1 DEF NewEntry, Entry

(* Lists with one more entry at their front or at their end.               *)
LEMMA Pushed ==
  ASSUME NEW S, NEW s \in Seq(S), NEW e \in S
  PROVE  /\ <<e>> \o s \in Seq(S)
         /\ <<e>> \o s # <<>>
         /\ Len(<<e>> \o s) = Len(s) + 1
         /\ (<<e>> \o s)[1] = e
         /\ \A i \in 1 .. Len(s) : (<<e>> \o s)[i + 1] = s[i]
<1> DEFINE one == <<e>>
<1>1. one \in Seq(S) /\ Len(one) = 1 /\ one[1] = e
  OBVIOUS
<1> HIDE DEF one
<1>2. Len(s) \in Nat
  BY LenProperties
<1>3. /\ one \o s \in Seq(S)
      /\ Len(one \o s) = 1 + Len(s)
      /\ \A i \in 1 .. 1 + Len(s) :
           (one \o s)[i] = IF i <= 1 THEN one[i] ELSE s[i - 1]
  <2>1. /\ one \o s \in Seq(S)
        /\ Len(one \o s) = Len(one) + Len(s)
        /\ \A i \in 1 .. Len(one) + Len(s) :
             (one \o s)[i] = IF i <= Len(one) THEN one[i] ELSE s[i - Len(one)]
    BY <1>1, ConcatProperties, Zenon
  <2>2. QED
    BY <2>1, <1>1, Zenon
<1>4. one \o s # <<>>
  BY <1>2, <1>3, EmptySeq
<1>5. \A i \in 1 .. Len(s) : (one \o s)[i + 1] = s[i]
  <2> TAKE i \in 1 .. Len(s)
  <2>1. i + 1 \in 1 .. 1 + Len(s) /\ ~(i + 1 <= 1) /\ (i + 1) - 1 = i
    BY <1>2
  <2>2. QED
    BY <2>1, <1>3
<1>6. (one \o s)[1] = e
  BY <1>1, <1>2, <1>3
<1>7. Len(one \o s) = Len(s) + 1
  BY <1>2, <1>3
<1>8. QED
  BY <1>3, <1>4, <1>5, <1>6, <1>7 DEF one

(* The list of tasks after dep_resolver_schedule_tags(): the entry for     *)
(* tags_pre in front, the one for tags_post at the end, or only one.       *)
PreEntry(n, T, U) == NewEntry(n, Unresolved(n, T), Unresolved(n, U) # {})
PostEntry(n, U) == NewEntry(n, Unresolved(n, U), FALSE)
Appended(n, U) == WithPost(n, Unresolved(n, U))

(* The three outcomes of scheduling the tags of a node.                    *)
LEMMA ScheduleTagsCases ==
  ASSUME NEW n, NEW T, NEW U, ScheduleTags(n, T, U)
  PROVE  /\ wanted' = wanted \cup KeysOf(n, T \cup U)
         /\ \/ /\ Unresolved(n, T) = {}
               /\ tasks' = Appended(n, U)
               /\ args' = Append(args, IF Unresolved(n, U) = {} THEN 1 ELSE 0)
               /\ UNCHANGED <<dep_chain, flags>>
            \/ /\ Unresolved(n, T) # {}
               /\ tasks' = <<PreEntry(n, T, U)>> \o Appended(n, U)
               /\ args' = Append(args, 0)
               /\ \/ /\ AnyIsProcessing(n, Unresolved(n, T))
                     /\ flags' = flags \cup {"NEW_DEPS", "CIRCULAR_DEP"}
                     /\ dep_chain' = <<PreEntry(n, T, U)>> \o dep_chain
                  \/ /\ ~AnyIsProcessing(n, Unresolved(n, T))
                     /\ flags' = flags \cup {"NEW_DEPS"}
                     /\ UNCHANGED dep_chain
BY DEF ScheduleTags, PreEntry, Appended

(* Whatever the outcome, what was asked for is remembered.                 *)
LEMMA ScheduleTagsWanted ==
  ASSUME NEW n, NEW T, NEW U, ScheduleTags(n, T, U)
  PROVE  wanted' = wanted \cup KeysOf(n, T \cup U)
BY DEF ScheduleTags

(* What is scheduled before and after the running task are entries.        *)
LEMMA EntryTypes ==
  ASSUME TypeOK, NEW n \in Node, NEW T \in SUBSET Tag, NEW U \in SUBSET Tag
  PROVE  /\ Unresolved(n, T) # {} => PreEntry(n, T, U) \in Entry
         /\ Unresolved(n, U) # {} => PostEntry(n, U) \in Entry
<1>1. Unresolved(n, T) \in SUBSET Tag /\ Unresolved(n, U) \in SUBSET Tag
  BY DEF Unresolved
<1>2. Unresolved(n, T) # {} => PreEntry(n, T, U) \in Entry
  <2>1. (Unresolved(n, U) # {}) \in BOOLEAN
    OBVIOUS
  <2>2. QED
    BY <1>1, <2>1, NewEntryType, Zenon DEF PreEntry
<1>3. Unresolved(n, U) # {} => PostEntry(n, U) \in Entry
  BY <1>1, NewEntryType, Zenon DEF PostEntry
<1>4. QED
  BY <1>2, <1>3

(* The lists stay lists of entries when a request is appended.             *)
LEMMA AppendedType ==
  ASSUME TypeOK, NEW n \in Node, NEW U \in SUBSET Tag
  PROVE  /\ Appended(n, U) \in Seq(Entry)
         /\ tasks # <<>> => Appended(n, U) # <<>>
<1>1. tasks \in Seq(Entry)
  BY DEF TypeOK
<1>2. CASE Unresolved(n, U) = {}
  BY <1>1, <1>2 DEF Appended, WithPost
<1>3. CASE Unresolved(n, U) # {}
  <2>1. PostEntry(n, U) \in Entry
    BY <1>3, EntryTypes, Zenon
  <2>2. Appended(n, U) = Append(tasks, PostEntry(n, U))
    BY <1>3, Zenon DEF Appended, WithPost, PostEntry
  <2> HIDE DEF Entry
  <2>3. /\ Append(tasks, PostEntry(n, U)) \in Seq(Entry)
        /\ Append(tasks, PostEntry(n, U)) # <<>>
    <3> DEFINE e == PostEntry(n, U)
    <3>1. e \in Entry
      BY <2>1
    <3> HIDE DEF e
    <3>2. Append(tasks, e) \in Seq(Entry) /\ Append(tasks, e) # <<>>
      BY <1>1, <3>1
    <3>3. QED
      BY <3>2 DEF e
  <2>4. QED
    BY <2>2, <2>3, Zenon
<1>4. QED
  BY <1>2, <1>3

(* Scheduling keeps the type of the lists.                                 *)
LEMMA ScheduleTagsType ==
  ASSUME TypeOK, NEW n \in Node, NEW T \in SUBSET Tag, NEW U \in SUBSET Tag,
         ScheduleTags(n, T, U)
  PROVE  /\ tasks' \in Seq(Entry)
         /\ dep_chain' \in Seq(Entry)
         /\ flags' \subseteq Flag
         /\ args' \in Seq(Nat)
         /\ wanted' \subseteq Key
         /\ tasks # <<>> => tasks' # <<>>
<1>1. tasks \in Seq(Entry) /\ dep_chain \in Seq(Entry) /\ flags \subseteq Flag
      /\ args \in Seq(Nat) /\ wanted \subseteq Key
  BY DEF TypeOK
<1>2. Append(args, 0) \in Seq(Nat) /\ Append(args, 1) \in Seq(Nat)
  BY <1>1, AppendProperties
<1>3. KeysOf(n, T \cup U) \subseteq Key
  BY KeysOfType
<1>4. CASE Unresolved(n, T) = {}
  <2>1. /\ tasks' = Appended(n, U)
        /\ args' \in {Append(args, 0), Append(args, 1)}
        /\ UNCHANGED <<dep_chain, flags>>
        /\ wanted' = wanted \cup KeysOf(n, T \cup U)
    BY <1>4, ScheduleTagsCases
  <2>2. tasks' \in Seq(Entry) /\ (tasks # <<>> => tasks' # <<>>)
    BY <2>1, AppendedType, Zenon
  <2>3. QED
    BY <1>1, <1>2, <1>3, <2>1, <2>2
<1>5. CASE Unresolved(n, T) # {}
  <2>1. PreEntry(n, T, U) \in Entry
    BY <1>5, EntryTypes
  <2>2. /\ <<PreEntry(n, T, U)>> \o Appended(n, U) \in Seq(Entry)
        /\ <<PreEntry(n, T, U)>> \o Appended(n, U) # <<>>
        /\ <<PreEntry(n, T, U)>> \o dep_chain \in Seq(Entry)
    BY <1>1, <2>1, AppendedType, Pushed, Zenon
  <2>3. QED
    <3>1. tasks' \in Seq(Entry) /\ tasks' # <<>>
      BY <1>5, <2>2, ScheduleTagsCases, Zenon
    <3>2. dep_chain' \in Seq(Entry)
      BY <1>1, <1>5, <2>2, ScheduleTagsCases, Zenon
    <3>3. flags' \subseteq Flag
      <4>1. \/ flags' = flags \cup {"NEW_DEPS", "CIRCULAR_DEP"}
            \/ flags' = flags \cup {"NEW_DEPS"}
        BY <1>5, ScheduleTagsCases, Zenon
      <4>2. {"NEW_DEPS", "CIRCULAR_DEP"} \subseteq Flag
        BY DEF Flag
      <4>3. flags \subseteq Flag
        BY <1>1
      <4>4. QED
        BY <4>1, <4>2, <4>3
    <3>4. args' \in Seq(Nat)
      BY <1>2, <1>5, ScheduleTagsCases, Zenon
    <3>5. wanted' \subseteq Key
      <4>1. wanted' = wanted \cup KeysOf(n, T \cup U)
        BY ScheduleTagsWanted
      <4>2. QED
        BY <1>1, <1>3, <4>1
    <3>6. QED
      BY <3>1, <3>2, <3>3, <3>4, <3>5
<1>6. QED
  BY <1>4, <1>5
-----------------------------------------------------------------------------
(* A resolver that was just made has its type.                             *)
LEMMA InitType == Init => TypeInv
<1> SUFFICES ASSUME Init PROVE TypeInv
  OBVIOUS
<1>1. graph \in Graph
  BY GraphsAssumption DEF Init
<1>2. tasks \in Seq(Entry) /\ dep_chain \in Seq(Entry) /\ args \in Seq(Nat)
  BY EmptySeq, Zenon DEF Init
<1>3. /\ processing \subseteq Key /\ resolved \subseteq Key /\ wanted \subseteq Key
      /\ flags \subseteq Flag /\ failed \in BOOLEAN
      /\ roots \in Nat /\ session \in Nat
  BY DEF Init
<1>4. cb \in Callback \cup {<<>>}
  BY Zenon DEF Init
<1>5. pc = "caller" /\ ret \in Status
  BY Zenon DEF Init, Status
<1>6. QED
  BY <1>1, <1>2, <1>3, <1>4, <1>5 DEF TypeInv, TypeOK, Running

(* Removing the first task and freeing its argument.                       *)
LEMMA RemoveTaskType ==
  ASSUME TypeOK, NEW e, tasks # <<>>, RemoveTask(e)
  PROVE  tasks' \in Seq(Entry) /\ args' \in Seq(Nat)
<1>1. tasks' \in Seq(Entry)
  BY HeadTailProperties DEF TypeOK, RemoveTask
<1>2. args \in Seq(Nat)
  BY DEF TypeOK
<1>3. FreeArg(args, e.arg) \in Seq(Nat)
  <2>1. CASE e.arg \in 1 .. Len(args)
    <3>1. args[e.arg] + 1 \in Nat
      BY <1>2, <2>1, ElementOfSeq
    <3>2. QED
      BY <1>2, <2>1, <3>1, ExceptSeq DEF FreeArg
  <2>2. CASE e.arg \notin 1 .. Len(args)
    <3>1. args \in [1 .. Len(args) -> Nat]
      BY <1>2, LenProperties
    <3>2. [args EXCEPT ![e.arg] = @ + 1] = args
      BY <2>2, <3>1
    <3>3. QED
      BY <1>2, <3>2 DEF FreeArg
  <2>3. QED
    BY <2>1, <2>2
<1>4. QED
  BY <1>1, <1>2, <1>3 DEF RemoveTask

(* Leaving a dependency chain keeps its type.                              *)
LEMMA PopChainType ==
  ASSUME TypeOK, NEW e
  PROVE  PopChain(e) \in Seq(Entry)
BY HeadTailProperties DEF TypeOK, PopChain

(* Every step keeps the type and the place of the running callback.        *)
LEMMA StepType == TypeInv /\ [Next]_vars => TypeInv'
<1> SUFFICES ASSUME TypeInv, [Next]_vars PROVE TypeInv'
  OBVIOUS
<1> USE DEF TypeInv
<1>1. ASSUME NEW n \in Node, NEW T \in SUBSET Tag, NEW U \in SUBSET Tag,
             ScheduleRoot(n, T, U)
      PROVE  TypeInv'
  <2>1. ScheduleTags(n, T, U)
    BY <1>1 DEF ScheduleRoot
  <2>2. /\ tasks' \in Seq(Entry) /\ dep_chain' \in Seq(Entry)
        /\ flags' \subseteq Flag /\ args' \in Seq(Nat) /\ wanted' \subseteq Key
    BY <2>1, ScheduleTagsType, Zenon
  <2>3. /\ UNCHANGED <<graph, processing, resolved, cb, ret, session, failed>>
        /\ pc' = "caller" /\ roots' = roots + 1
    BY <1>1 DEF ScheduleRoot, nodeVars
  <2>4. QED
    BY <2>2, <2>3 DEF TypeOK, Running
<1>2. CallResolve => TypeInv'
  BY DEF CallResolve, TypeOK, Running, nodeVars, drVars, ownerVars
<1>3. DropTask => TypeInv'
  <2> SUFFICES ASSUME DropTask PROVE TypeInv'
    OBVIOUS
  <2>1. tasks' \in Seq(Entry) /\ args' \in Seq(Nat)
    BY RemoveTaskType DEF DropTask
  <2>2. dep_chain' \in Seq(Entry)
    BY PopChainType DEF DropTask
  <2>3. QED
    BY <2>1, <2>2 DEF DropTask, TypeOK, Running, nodeVars, ownerVars
<1>4. StartTask => TypeInv'
  <2> SUFFICES ASSUME StartTask PROVE TypeInv'
    OBVIOUS
  <2>1. Head(tasks) \in Entry
    BY HeadTailProperties DEF StartTask, TypeOK
  <2> DEFINE e == Head(tasks)
             unresolved == Unresolved(e.node, e.tags)
  <2>2. unresolved \in (SUBSET Tag) \ {{}} /\ e.node \in Node
    BY <2>1 DEF StartTask, Entry, Unresolved
  <2>3. 1 \in Tag
    BY NTagsAssumption DEF Tag
  <2>4. cb' \in Callback
    BY <2>1, <2>2, <2>3 DEF StartTask, Callback
  <2>5. processing' \subseteq Key
    BY <2>2, KeysOfType DEF StartTask, SetProcessing, TypeOK
  <2>6. dep_chain' \in Seq(Entry)
    BY PopChainType DEF StartTask
  <2>7. QED
    BY <2>4, <2>5, <2>6 DEF StartTask, TypeOK, Running, ownerVars
<1>5. Finish => TypeInv'
  BY DEF Finish, TypeOK, Running, Status, nodeVars, drVars, ownerVars
<1>6. CallbackNextTag => TypeInv'
  <2> SUFFICES ASSUME CallbackNextTag PROVE TypeInv'
    OBVIOUS
  <2>1. cb \in Callback /\ tasks # <<>>
    BY DEF CallbackNextTag, Running
  <2>2. cb.tag + 1 \in Tag
    <3>1. PICK t \in cb.tags : ~(t <= cb.tag)
      BY DEF CallbackNextTag, LastPass
    <3>2. t \in Tag /\ cb.tag \in Tag
      BY <2>1, <3>1 DEF Callback
    <3>3. QED
      BY <3>1, <3>2, NTagsAssumption DEF Tag
  <2>3. cb' \in Callback
    BY <2>1, <2>2 DEF CallbackNextTag, Callback
  <2>4. QED
    BY <2>1, <2>3
       DEF CallbackNextTag, TypeOK, Running, nodeVars, drVars, ownerVars
<1>7. CallbackReturn => TypeInv'
  <2> SUFFICES ASSUME CallbackReturn PROVE TypeInv'
    OBVIOUS
  <2>1. cb \in Callback /\ tasks # <<>>
    BY DEF CallbackReturn, Running
  <2>2. cb.entry \in Entry /\ cb.entry.node \in Node /\ cb.tag \in Tag
        /\ cb.tags \subseteq Tag
    BY <2>1 DEF Callback, Entry
  <2>3. ReturnedTags \subseteq Tag
    BY <2>2, NTagsAssumption DEF ReturnedTags, Tag
  <2>4. resolved' \subseteq Key /\ processing' \subseteq Key
    BY <2>2, <2>3, KeysOfType DEF CallbackReturn, ClearProcessing, TypeOK
  <2>5. <<cb.entry>> \o dep_chain \in Seq(Entry)
    BY <2>2, Pushed DEF TypeOK
  <2>6. RemoveTask(cb.entry) => tasks' \in Seq(Entry) /\ args' \in Seq(Nat)
    BY <2>1, RemoveTaskType
  <2>7. tasks' \in Seq(Entry) /\ dep_chain' \in Seq(Entry) /\ args' \in Seq(Nat)
        /\ flags' \subseteq Flag /\ ret' \in Status
        /\ pc' \in {"loop", "done"} /\ cb' \in {cb, <<>>}
    <3>1. StopOnCircular \/ WaitForNewDeps \/ StopOnError \/ CompleteTask
      BY DEF CallbackReturn
    <3>2. QED
      BY <2>5, <2>6, <3>1
         DEF StopOnCircular, WaitForNewDeps, StopOnError, CompleteTask, TypeOK,
             Flag, Status
  <2>8. QED
    BY <2>1, <2>4, <2>7 DEF CallbackReturn, TypeOK, Running, ownerVars
<1>8. ASSUME NEW n \in Node, NEW T \in SUBSET Tag, NEW U \in SUBSET Tag,
             CallbackSchedule(n, T, U)
      PROVE  TypeInv'
  <2>1. ScheduleTags(n, T, U) /\ cb \in Callback /\ tasks # <<>>
    BY <1>8 DEF CallbackSchedule, Running
  <2>2. KeysOf(n, T) \subseteq Key /\ KeysOf(n, U) \subseteq Key
    BY KeysOfType
  <2>3. cb' \in Callback
    BY <1>8, <2>1, <2>2 DEF CallbackSchedule, Callback
  <2>4. QED
    BY <1>8, <2>1, <2>3, ScheduleTagsType
       DEF CallbackSchedule, TypeOK, Running, nodeVars, ownerVars
<1>9. NewSession => TypeInv'
  BY DEF NewSession, TypeOK, Running, Status, nodeVars
<1>10. UNCHANGED vars => TypeInv'
  BY DEF vars, TypeOK, Running
<1>11. QED
  BY <1>1, <1>2, <1>3, <1>4, <1>5, <1>6, <1>7, <1>8, <1>9, <1>10
     DEF Next, Resolving

(* The state of the resolver is what the declarations of dep_resolver.h    *)
(* say it is, whatever the callbacks ask for.                              *)
THEOREM TypeCorrect == Spec => []TypeOK
<1>1. Spec => []TypeInv
  BY InitType, StepType, PTL DEF Spec
<1>2. TypeInv => TypeOK
  BY DEF TypeInv
<1>3. QED
  BY <1>1, <1>2, PTL
-----------------------------------------------------------------------------
(* Nothing is lost between two steps: the tasks of the list are those it   *)
(* had, less the one whose keys are all resolved.                          *)
Sound == NothingForgotten /\ ContinueIsSafe /\ OkMeansResolved

(* Nothing is asked of a resolver that was just made.                      *)
LEMMA InitSound == Init => Sound
BY DEF Init, Sound, NothingForgotten, ContinueIsSafe, OkMeansResolved

(* A list with one entry more has the elements it had, and that one.       *)
LEMMA PushedElements ==
  ASSUME NEW S, NEW s \in Seq(S), NEW e \in S
  PROVE  Elements(<<e>> \o s) = {e} \cup Elements(s)
<1> DEFINE p == <<e>> \o s
<1>1. /\ p \in Seq(S) /\ Len(p) = Len(s) + 1 /\ p[1] = e
      /\ \A i \in 1 .. Len(s) : p[i + 1] = s[i]
  BY Pushed
<1> HIDE DEF p
<1>2. DOMAIN p = 1 .. Len(p) /\ DOMAIN s = 1 .. Len(s) /\ Len(s) \in Nat
  BY <1>1, LenProperties
<1>3. ASSUME NEW i \in DOMAIN p PROVE p[i] \in {e} \cup Elements(s)
  <2>1. CASE i = 1
    BY <1>1, <2>1
  <2>2. CASE i # 1
    <3>1. (i - 1) \in 1 .. Len(s) /\ (i - 1) + 1 = i
      BY <1>1, <1>2, <2>2
    <3>2. p[i] = s[i - 1]
      BY <1>1, <3>1
    <3>3. QED
      BY <1>2, <3>1, <3>2 DEF Elements
  <2>3. QED
    BY <2>1, <2>2
<1>4. ASSUME NEW i \in DOMAIN s PROVE s[i] \in Elements(p)
  BY <1>1, <1>2 DEF Elements
<1>5. e \in Elements(p)
  BY <1>1, <1>2 DEF Elements
<1>6. Elements(p) = {e} \cup Elements(s)
  BY <1>3, <1>4, <1>5 DEF Elements
<1>7. QED
  BY <1>6 DEF p

(* Appending a request keeps the other tasks.                              *)
LEMMA AppendedElements ==
  ASSUME NEW S, NEW s \in Seq(S), NEW e \in S
  PROVE  Elements(Append(s, e)) = Elements(s) \cup {e}
<1> DEFINE p == Append(s, e)
<1>1. /\ p \in Seq(S) /\ Len(p) = Len(s) + 1 /\ p[Len(s) + 1] = e
      /\ \A i \in 1 .. Len(s) : p[i] = s[i]
  BY AppendProperties
<1> HIDE DEF p
<1>2. DOMAIN p = 1 .. Len(p) /\ DOMAIN s = 1 .. Len(s) /\ Len(s) \in Nat
  BY <1>1, LenProperties
<1>3. Elements(p) = Elements(s) \cup {e}
  BY <1>1, <1>2 DEF Elements
<1>4. QED
  BY <1>3 DEF p

(* Only the first task leaves the list.                                    *)
LEMMA TailElements ==
  ASSUME NEW S, NEW s \in Seq(S), s # <<>>
  PROVE  Elements(s) \subseteq {Head(s)} \cup Elements(Tail(s))
<1>1. /\ Head(s) = s[1] /\ Len(Tail(s)) = Len(s) - 1
      /\ Tail(s) \in Seq(S)
      /\ \A i \in 1 .. Len(Tail(s)) : Tail(s)[i] = s[i + 1]
  BY HeadTailProperties
<1>2. DOMAIN s = 1 .. Len(s) /\ Len(s) \in Nat /\ Len(s) > 0
      /\ DOMAIN Tail(s) = 1 .. Len(Tail(s))
  BY <1>1, LenProperties, EmptySeq
<1>3. ASSUME NEW i \in DOMAIN s, i # 1 PROVE s[i] \in Elements(Tail(s))
  <2>1. (i - 1) \in DOMAIN Tail(s) /\ (i - 1) + 1 = i
    BY <1>1, <1>2, <1>3
  <2>2. Tail(s)[i - 1] = s[i]
    BY <1>1, <1>2, <2>1
  <2>3. QED
    BY <2>1, <2>2 DEF Elements
<1>4. QED
  BY <1>1, <1>3 DEF Elements

(* A call keeps every task, and adds one for each unresolved key it asks   *)
(* for.                                                                    *)
LEMMA ScheduleTagsElements ==
  ASSUME TypeOK, NEW n \in Node, NEW T \in SUBSET Tag, NEW U \in SUBSET Tag,
         ScheduleTags(n, T, U)
  PROVE  /\ Elements(tasks) \subseteq Elements(tasks')
         /\ \A k \in KeysOf(n, T \cup U) :
              k \in resolved \/ \E e \in Elements(tasks') : k \in EntryKeys(e)
<1>1. tasks \in Seq(Entry)
  BY DEF TypeOK
<1>2. /\ Appended(n, U) \in Seq(Entry)
      /\ Elements(tasks) \subseteq Elements(Appended(n, U))
      /\ Unresolved(n, U) # {} => PostEntry(n, U) \in Elements(Appended(n, U))
  <2>1. CASE Unresolved(n, U) = {}
    BY <1>1, <2>1 DEF Appended, WithPost
  <2>2. CASE Unresolved(n, U) # {}
    <3>1. PostEntry(n, U) \in Entry
      BY <2>2, EntryTypes
    <3>2. Appended(n, U) = Append(tasks, PostEntry(n, U))
      BY <2>2 DEF Appended, WithPost, PostEntry
    <3>3. Elements(Append(tasks, PostEntry(n, U))) = Elements(tasks) \cup {PostEntry(n, U)}
      BY <1>1, <3>1, AppendedElements
    <3>4. QED
      BY <3>2, <3>3, AppendedType
  <2>3. QED
    BY <2>1, <2>2
<1>3. /\ Elements(Appended(n, U)) \subseteq Elements(tasks')
      /\ Unresolved(n, T) # {} => PreEntry(n, T, U) \in Elements(tasks')
  <2>1. CASE Unresolved(n, T) = {}
    BY <2>1, ScheduleTagsCases
  <2>2. CASE Unresolved(n, T) # {}
    <3>1. PreEntry(n, T, U) \in Entry
      BY <2>2, EntryTypes
    <3>2. tasks' = <<PreEntry(n, T, U)>> \o Appended(n, U)
      BY <2>2, ScheduleTagsCases, Zenon
    <3>3. Elements(<<PreEntry(n, T, U)>> \o Appended(n, U))
            = {PreEntry(n, T, U)} \cup Elements(Appended(n, U))
      BY <1>2, <3>1, PushedElements, Zenon
    <3>4. QED
      BY <3>2, <3>3
  <2>3. QED
    BY <2>1, <2>2
<1>4. /\ \A t \in Unresolved(n, T) : <<n, t>> \in EntryKeys(PreEntry(n, T, U))
      /\ \A t \in Unresolved(n, U) : <<n, t>> \in EntryKeys(PostEntry(n, U))
  BY DEF EntryKeys, KeysOf, PreEntry, PostEntry, NewEntry
<1>5. ASSUME NEW t \in T \cup U, <<n, t>> \notin resolved
      PROVE  \E e \in Elements(tasks') : <<n, t>> \in EntryKeys(e)
  <2>1. CASE t \in T
    <3>1. t \in Unresolved(n, T)
      BY <1>5, <2>1 DEF Unresolved
    <3>2. QED
      BY <1>3, <1>4, <3>1
  <2>2. CASE t \in U
    <3>1. t \in Unresolved(n, U)
      BY <1>5, <2>2 DEF Unresolved
    <3>2. QED
      BY <1>2, <1>3, <1>4, <3>1
  <2>3. QED
    BY <2>1, <2>2
<1>6. QED
  BY <1>2, <1>3, <1>5 DEF KeysOf

(* Scheduling loses no request.                                            *)
LEMMA ScheduleTagsForgetsNothing ==
  ASSUME TypeOK, NothingForgotten, UNCHANGED resolved,
         NEW n \in Node, NEW T \in SUBSET Tag, NEW U \in SUBSET Tag,
         ScheduleTags(n, T, U)
  PROVE  NothingForgotten'
<1>1. wanted' = wanted \cup KeysOf(n, T \cup U)
  BY ScheduleTagsWanted
<1>2. /\ Elements(tasks) \subseteq Elements(tasks')
      /\ \A k \in KeysOf(n, T \cup U) :
           k \in resolved \/ \E e \in Elements(tasks') : k \in EntryKeys(e)
  BY ScheduleTagsElements, Zenon
<1>3. SUFFICES ASSUME NEW k \in wanted'
               PROVE  k \in resolved \/ \E e \in Elements(tasks') : k \in EntryKeys(e)
  <2>1. resolved' = resolved
    OBVIOUS
  <2>2. NothingForgotten' <=>
          \A l \in wanted' :
             l \in resolved' \/ \E e \in Elements(tasks') : l \in EntryKeys(e)
    BY Zenon DEF NothingForgotten, Elements, EntryKeys
  <2>3. QED
    BY <2>1, <2>2, Zenon
<1>4. k \in resolved \/ \E e \in Elements(tasks') : k \in EntryKeys(e)
  <2>1. CASE k \in wanted
    BY <1>2, <2>1, Zenon DEF NothingForgotten
  <2>2. CASE k \in KeysOf(n, T \cup U)
    BY <1>2, <2>2, Zenon
  <2>3. QED
    BY <1>1, <1>3, <2>1, <2>2, Zenon
<1>5. QED
  BY <1>4, Zenon

(* A task whose keys are all resolved may leave the list.                  *)
LEMMA RemoveTaskForgetsNothing ==
  ASSUME TypeOK, NothingForgotten, UNCHANGED wanted, resolved \subseteq resolved',
         tasks # <<>>, tasks' = Tail(tasks), EntryKeys(Head(tasks)) \subseteq resolved'
  PROVE  NothingForgotten'
<1>1. Elements(tasks) \subseteq {Head(tasks)} \cup Elements(tasks')
  BY TailElements DEF TypeOK
<1>2. QED
  BY <1>1, Zenon DEF NothingForgotten

(* Every step keeps the requests, and the promises made on them.           *)
LEMMA SoundStep == TypeInv /\ Sound /\ [Next]_vars => Sound'
<1> SUFFICES ASSUME TypeInv, Sound, [Next]_vars PROVE Sound'
  OBVIOUS
<1> USE DEF TypeInv, Sound
<1>1. ASSUME NEW n \in Node, NEW T \in SUBSET Tag, NEW U \in SUBSET Tag,
             ScheduleRoot(n, T, U)
      PROVE  Sound'
  <2>1. ScheduleTags(n, T, U) /\ UNCHANGED resolved /\ pc' = "caller"
    BY <1>1 DEF ScheduleRoot, nodeVars
  <2>2. NothingForgotten'
    BY <2>1, ScheduleTagsForgetsNothing
  <2>3. QED
    BY <2>1, <2>2 DEF ContinueIsSafe, OkMeansResolved
<1>2. CallResolve => Sound'
  BY DEF CallResolve, nodeVars, drVars, NothingForgotten, ContinueIsSafe, OkMeansResolved
<1>3. DropTask => Sound'
  <2> SUFFICES ASSUME DropTask PROVE Sound'
    OBVIOUS
  <2>1. EntryKeys(Head(tasks)) \subseteq resolved
    BY DEF DropTask, Unresolved, EntryKeys, KeysOf
  <2>2. tasks # <<>> /\ tasks' = Tail(tasks) /\ UNCHANGED <<resolved, wanted>>
        /\ pc' = "loop"
    BY DEF DropTask, RemoveTask, nodeVars
  <2>3. NothingForgotten'
    BY <2>1, <2>2, RemoveTaskForgetsNothing
  <2>4. QED
    BY <2>2, <2>3 DEF ContinueIsSafe, OkMeansResolved
<1>4. StartTask => Sound'
  <2> SUFFICES ASSUME StartTask PROVE Sound'
    OBVIOUS
  <2>1. /\ cb'.entry = Head(tasks) /\ cb'.tag = 1 /\ cb'.asked = {}
        /\ cb'.tags = Unresolved(cb'.entry.node, cb'.entry.tags)
        /\ pc' = "callback"
        /\ UNCHANGED <<resolved, wanted, tasks, graph>>
    BY DEF StartTask
  <2>2. NothingForgotten'
    BY <2>1 DEF NothingForgotten
  <2>3. EntryKeys(cb'.entry) \subseteq resolved \cup KeysOf(cb'.entry.node, cb'.tags)
    BY <2>1 DEF EntryKeys, KeysOf, Unresolved
  <2>4. \A t \in Tag : ~(t < cb'.tag)
    BY <2>1 DEF Tag
  <2>5. ContinueIsSafe'
    BY <2>1, <2>3, <2>4 DEF ContinueIsSafe, EntryKeys
  <2>6. QED
    BY <2>1, <2>2, <2>5 DEF OkMeansResolved
<1>5. Finish => Sound'
  <2> SUFFICES ASSUME Finish PROVE Sound'
    OBVIOUS
  <2>1. tasks = <<>> /\ pc' = "done" /\ UNCHANGED <<resolved, wanted, tasks>>
    BY DEF Finish, nodeVars, drVars
  <2>2. Elements(tasks) = {}
    BY <2>1 DEF Elements
  <2>3. QED
    BY <2>1, <2>2 DEF NothingForgotten, ContinueIsSafe, OkMeansResolved
<1>6. CallbackNextTag => Sound'
  <2> SUFFICES ASSUME CallbackNextTag PROVE Sound'
    OBVIOUS
  <2>1. pc = "callback" /\ PassDone /\ ~LastPass /\ cb \in Callback
    BY DEF CallbackNextTag, Running
  <2>2. /\ cb' = [cb EXCEPT !.tag = @ + 1, !.asked = {}, !.posted = {}]
        /\ UNCHANGED <<pc, resolved, wanted, tasks, graph, flags>>
    BY DEF CallbackNextTag, nodeVars, drVars
  <2>3. /\ cb'.entry = cb.entry /\ cb'.tags = cb.tags /\ cb'.tag = cb.tag + 1
        /\ cb'.asked = {}
    BY <2>1, <2>2 DEF Callback
  <2>4. graph.pre[<<cb.entry.node, cb.tag>>] \subseteq resolved
    BY <2>1 DEF LastPass, PassDone, PassPre, PassKeys, ContinueIsSafe
  <2>5. \A t \in Tag : t < cb.tag + 1 => t < cb.tag \/ t = cb.tag
    <3>1. cb.tag \in Nat
      BY <2>1 DEF Callback, Tag
    <3>2. QED
      BY <3>1 DEF Tag
  <2>6. ContinueIsSafe'
    BY <2>1, <2>2, <2>3, <2>4, <2>5 DEF ContinueIsSafe, EntryKeys
  <2>7. QED
    BY <2>1, <2>2, <2>6 DEF NothingForgotten, OkMeansResolved
<1>7. CallbackReturn => Sound'
  <2> SUFFICES ASSUME CallbackReturn PROVE Sound'
    OBVIOUS
  <2>1. pc = "callback" /\ tasks # <<>>
        /\ EntryKeys(cb.entry) \subseteq resolved \cup KeysOf(cb.entry.node, cb.tags)
    BY DEF CallbackReturn, Running, ContinueIsSafe
  <2>2. /\ resolved' = resolved \cup KeysOf(cb.entry.node, ReturnedTags)
        /\ UNCHANGED wanted
    BY DEF CallbackReturn
  <2>3. /\ pc' = "loop" \/ (pc' = "done" /\ ret' # "OK")
        /\ \/ UNCHANGED tasks
           \/ StillFirst(cb.entry) /\ AllReturned /\ tasks' = Tail(tasks)
    <3>1. StopOnCircular \/ WaitForNewDeps \/ StopOnError \/ CompleteTask
      BY DEF CallbackReturn
    <3>2. QED
      BY <3>1 DEF StopOnCircular, WaitForNewDeps, StopOnError, CompleteTask, RemoveTask
  <2>4. NothingForgotten'
    <3>1. CASE UNCHANGED tasks
      BY <2>2, <3>1 DEF NothingForgotten
    <3>2. CASE StillFirst(cb.entry) /\ AllReturned /\ tasks' = Tail(tasks)
      <4>1. EntryKeys(Head(tasks)) \subseteq resolved'
        BY <2>1, <2>2, <3>2 DEF StillFirst, AllReturned, KeysOf
      <4>2. resolved \subseteq resolved'
        BY <2>2
      <4>3. QED
        BY <2>1, <2>2, <3>2, <4>1, <4>2, RemoveTaskForgetsNothing, Zenon
    <3>3. QED
      BY <2>3, <3>1, <3>2
  <2>5. QED
    BY <2>3, <2>4 DEF ContinueIsSafe, OkMeansResolved
<1>8. ASSUME NEW n \in Node, NEW T \in SUBSET Tag, NEW U \in SUBSET Tag,
             CallbackSchedule(n, T, U)
      PROVE  Sound'
  <2>1. /\ ScheduleTags(n, T, U) /\ cb \in Callback /\ pc = "callback"
        /\ UNCHANGED <<resolved, graph, pc>>
        /\ cb' = [cb EXCEPT !.asked = @ \cup KeysOf(n, T),
                            !.posted = @ \cup KeysOf(n, U)]
    BY <1>8 DEF CallbackSchedule, Running, nodeVars
  <2>2. /\ cb'.entry = cb.entry /\ cb'.tags = cb.tags /\ cb'.tag = cb.tag
        /\ cb'.asked = cb.asked \cup KeysOf(n, T)
    BY <2>1 DEF Callback
  <2>3. NothingForgotten'
    BY <2>1, ScheduleTagsForgetsNothing
  <2>4. StatusOf(flags') = "OK" => cb'.asked \subseteq resolved
    <3>1. CASE Unresolved(n, T) = {}
      <4>1. flags' = flags
        BY <3>1, ScheduleTagsCases, <2>1
      <4>2. KeysOf(n, T) \subseteq resolved
        BY <3>1 DEF Unresolved, KeysOf
      <4>3. QED
        BY <2>1, <2>2, <4>1, <4>2 DEF ContinueIsSafe
    <3>2. CASE Unresolved(n, T) # {}
      <4>1. "NEW_DEPS" \in flags'
        BY <3>2, ScheduleTagsCases, <2>1
      <4>2. QED
        BY <4>1 DEF StatusOf
    <3>3. QED
      BY <3>1, <3>2
  <2>5. ContinueIsSafe'
    BY <2>1, <2>2, <2>4 DEF ContinueIsSafe, EntryKeys
  <2>6. QED
    BY <2>1, <2>3, <2>5 DEF OkMeansResolved
<1>9. NewSession => Sound'
  BY DEF NewSession, NothingForgotten, ContinueIsSafe, OkMeansResolved
<1>10. UNCHANGED vars => Sound'
  BY DEF vars, NothingForgotten, ContinueIsSafe, OkMeansResolved
<1>11. QED
  BY <1>1, <1>2, <1>3, <1>4, <1>5, <1>6, <1>7, <1>8, <1>9, <1>10
     DEF Next, Resolving

(* The invariant of the resolver.                                          *)
LEMMA SoundInvariant == Spec => [](TypeInv /\ Sound)
<1>1. Init => TypeInv /\ Sound
  BY InitType, InitSound
<1>2. TypeInv /\ Sound /\ [Next]_vars => (TypeInv /\ Sound)'
  BY StepType, SoundStep
<1>3. QED
  BY <1>1, <1>2, PTL DEF Spec

(* dep_resolver_resolve() returns DEP_RESOLVER_OK only once everything     *)
(* asked for, by the owner or by a callback, is resolved.                  *)
THEOREM OkMeansResolvedAlways == Spec => []OkMeansResolved
<1>1. Sound => OkMeansResolved
  BY DEF Sound
<1>2. QED
  BY <1>1, SoundInvariant, PTL

(* No request is lost.                                                     *)
THEOREM NothingForgottenAlways == Spec => []NothingForgotten
<1>1. Sound => NothingForgotten
  BY DEF Sound
<1>2. QED
  BY <1>1, SoundInvariant, PTL

(* A callback that compile_continue() lets go on has its dependencies.     *)
THEOREM ContinueIsSafeAlways == Spec => []ContinueIsSafe
<1>1. Sound => ContinueIsSafe
  BY DEF Sound
<1>2. QED
  BY <1>1, SoundInvariant, PTL
-----------------------------------------------------------------------------
(* A non-empty set of tags has a smallest one.                             *)
LEMMA SmallestTag ==
  ASSUME NEW T \in SUBSET Tag, T # {}
  PROVE  \E t \in T : \A u \in T : ~(u < t)
<1> DEFINE R == OpToRel(<, Nat)
<1>1. IsWellFoundedOn(R, Nat)
  BY NatLessThanWellFounded, Zenon
<1>2. \A x, y \in Nat : x < y => <<x, y>> \in R
  BY Zenon DEF OpToRel
<1> HIDE DEF R
<1>3. T \subseteq Nat
  BY DEF Tag
<1>4. PICK t \in T : \A u \in T : ~(<<u, t>> \in R)
  BY <1>1, <1>3, WFMin, Zenon
<1>5. \A u \in T : ~(u < t)
  BY <1>2, <1>3, <1>4, Zenon
<1>6. QED
  BY <1>5

(* Adding keys of one node that need nothing but resolved keys and smaller *)
(* tags of the same node keeps the order.                                  *)
LEMMA AddInOrder ==
  ASSUME TypeOK, ResolvedInOrder, NEW n \in Node, NEW T \in SUBSET Tag,
         resolved' = resolved \cup KeysOf(n, T), UNCHANGED graph,
         \A t \in T : Needs(graph, <<n, t>>) \subseteq
                        resolved \cup KeysOf(n, {u \in T : u < t})
  PROVE  ResolvedInOrder'
<1>1. \A k \in resolved' : Needs(graph, k) \subseteq resolved'
  BY DEF ResolvedInOrder, KeysOf
<1>2. ASSUME NEW S \in SUBSET resolved', S # {}
      PROVE  \E k \in S : Needs(graph, k) \cap S = {}
  <2>1. CASE S \cap resolved # {}
    <3>1. PICK k \in S \cap resolved : Needs(graph, k) \cap (S \cap resolved) = {}
      BY <2>1, Zenon DEF ResolvedInOrder
    <3>2. Needs(graph, k) \subseteq resolved
      BY DEF ResolvedInOrder
    <3>3. QED
      BY <3>1, <3>2
  <2>2. CASE S \cap resolved = {}
    <3> DEFINE M == {t \in T : <<n, t>> \in S}
    <3>1. \A k \in S : \E t \in M : k = <<n, t>>
      BY <2>2 DEF KeysOf
    <3>2. M # {} /\ M \in SUBSET Tag
      BY <1>2, <3>1
    <3>3. PICK t \in M : \A u \in M : ~(u < t)
      BY <3>2, SmallestTag
    <3>4. Needs(graph, <<n, t>>) \cap S = {}
      <4>1. Needs(graph, <<n, t>>) \subseteq resolved \cup KeysOf(n, {u \in T : u < t})
        OBVIOUS
      <4>2. KeysOf(n, {u \in T : u < t}) \cap S = {}
        BY <3>3 DEF KeysOf
      <4>3. QED
        BY <2>2, <4>1, <4>2
    <3>5. QED
      BY <3>3, <3>4
  <2>3. QED
    BY <2>1, <2>2
<1>3. QED
  BY <1>1, <1>2 DEF ResolvedInOrder

(* What the callback returns respects the order: each tag was compiled     *)
(* after its pass was given all it needs.                                  *)
LEMMA ReturnInOrder ==
  ASSUME TypeInv, ContinueIsSafe, CallbackReturn, NEW t \in ReturnedTags
  PROVE  Needs(graph, <<cb.entry.node, t>>) \subseteq
           resolved \cup KeysOf(cb.entry.node, {u \in ReturnedTags : u < t})
<1> DEFINE n == cb.entry.node
<1>1. /\ cb \in Callback /\ pc = "callback"
      /\ n \in Node /\ cb.tag \in Tag /\ cb.tags \subseteq Tag
  BY DEF TypeInv, Running, CallbackReturn, Callback, Entry
<1>2. CASE n \in graph.whole
  <2>1. PassDone /\ t \in cb.tags
    BY <1>2 DEF ReturnedTags
  <2>2. graph.pre[<<n, t>>] \subseteq PassPre
    BY <1>2, <2>1 DEF PassPre, PassKeys, KeysOf
  <2>3. PassPre \subseteq resolved
    BY <1>1, <2>1 DEF PassDone, ContinueIsSafe
  <2>4. QED
    BY <1>2, <2>2, <2>3 DEF Needs
<1>3. CASE n \notin graph.whole
  <2>1. /\ ReturnedTags = IF PassDone THEN 1 .. cb.tag ELSE 1 .. (cb.tag - 1)
        /\ cb.tag \in Nat /\ cb.tag <= NTags /\ NTags \in Nat
    BY <1>1, <1>3, NTagsAssumption DEF ReturnedTags, Tag
  <2>2. t \in Tag /\ (t < cb.tag \/ (t = cb.tag /\ PassDone))
    BY <2>1 DEF Tag
  <2>3. graph.pre[<<n, t>>] \subseteq resolved
    <3>1. CASE t < cb.tag
      BY <1>1, <1>3, <2>2, <3>1 DEF ContinueIsSafe
    <3>2. CASE t = cb.tag /\ PassDone
      BY <1>1, <1>3, <3>2 DEF PassDone, PassPre, PassKeys, ContinueIsSafe
    <3>3. QED
      BY <2>2, <3>1, <3>2
  <2>4. {u \in Tag : u < t} \subseteq {u \in ReturnedTags : u < t}
    BY <2>1, <2>2 DEF Tag
  <2>5. Needs(graph, <<n, t>>)
          = graph.pre[<<n, t>>] \cup KeysOf(n, {u \in Tag : u < t})
    BY <1>3 DEF Needs, KeysOf
  <2>6. QED
    BY <2>3, <2>4, <2>5 DEF KeysOf
<1>4. QED
  BY <1>2, <1>3

(* Every step resolves keys in the order of their dependencies.            *)
LEMMA OrderStep ==
  TypeInv /\ Sound /\ ResolvedInOrder /\ [Next]_vars => ResolvedInOrder'
<1> SUFFICES ASSUME TypeInv, Sound, ResolvedInOrder, [Next]_vars
             PROVE  ResolvedInOrder'
  OBVIOUS
<1>1. CASE CallbackReturn
  <2> DEFINE n == cb.entry.node
             T == ReturnedTags
  <2>1. n \in Node /\ T \in SUBSET Tag
    <3>1. cb \in Callback
      BY <1>1 DEF TypeInv, Running, CallbackReturn
    <3>2. n \in Node /\ cb.tag \in Tag /\ cb.tags \subseteq Tag
      BY <3>1 DEF Callback, Entry
    <3>3. QED
      BY <3>2, NTagsAssumption DEF ReturnedTags, Tag
  <2>2. /\ resolved' = resolved \cup KeysOf(n, T)
        /\ UNCHANGED graph
    BY <1>1 DEF CallbackReturn
  <2>3. \A t \in T : Needs(graph, <<n, t>>) \subseteq
                       resolved \cup KeysOf(n, {u \in T : u < t})
    BY <1>1, ReturnInOrder DEF Sound
  <2> HIDE DEF n, T
  <2>4. QED
    BY <2>1, <2>2, <2>3, AddInOrder DEF TypeInv
<1>2. CASE ~CallbackReturn
  <2>1. UNCHANGED <<graph, resolved>>
    BY <1>2
       DEF Next, Resolving, ScheduleRoot, CallResolve, DropTask, StartTask, Finish,
           CallbackNextTag, CallbackSchedule, NewSession, nodeVars, vars
  <2>2. QED
    BY <2>1 DEF ResolvedInOrder
<1>3. QED
  BY <1>1, <1>2

(* Whatever the schema, whatever is asked and in whichever order the       *)
(* callbacks ask: nothing is resolved before what it needs, and no cycle   *)
(* of dependencies is ever resolved.                                       *)
THEOREM ResolvedInOrderAlways == Spec => []ResolvedInOrder
<1>1. Init => ResolvedInOrder
  BY DEF Init, ResolvedInOrder
<1>2. QED
  BY <1>1, OrderStep, SoundInvariant, PTL DEF Spec

-----------------------------------------------------------------------------
(***************************************************************************)
(* The walk of the dependency graph: the life of the arguments and the     *)
(* stack of waiting tasks; then what the marks on the nodes mean, so that  *)
(* the verdict that dependencies loop is right, and that the resolver      *)
(* implements DepResolution.                                               *)
(***************************************************************************)
(* A task of the list owns its argument, and two tasks share one only when *)
(* the first must keep it for the second; an argument is freed at most     *)
(* once, and until then a task is left to free it.                         *)
ArgsOwned ==
  \A p \in 1 .. Len(tasks) :
     tasks[p].arg \in 1 .. Len(args) /\ args[tasks[p].arg] = 0

ArgsShared ==
  \A p, q \in 1 .. Len(tasks) :
     p < q /\ tasks[p].arg = tasks[q].arg =>
       tasks[p].keep_arg_on_free /\ ~tasks[q].keep_arg_on_free

ArgsFreed ==
  \A a \in 1 .. Len(args) :
     /\ args[a] \in {0, 1}
     /\ args[a] = 0 => \E p \in 1 .. Len(tasks) :
                          tasks[p].arg = a /\ ~tasks[p].keep_arg_on_free

ErrorKept ==
  /\ pc = "done" /\ ret = "ERROR" =>
       \E p \in 1 .. Len(tasks) : tasks[p] = cb.entry
  /\ pc = "done" /\ ret = "OK" => tasks = <<>>

ArgInv == ArgsOwned /\ ArgsShared /\ ArgsFreed /\ ErrorKept

(* The list after a request: moved by one place when a task was put in     *)
(* front of it, and one longer when one was put at its end.                *)
InFront(n, T) == IF Unresolved(n, T) = {} THEN 0 ELSE 1

\* A post task goes to the end of the list, if there is anything to resolve.
LEMMA AppendedPlaces ==
  ASSUME TypeOK, NEW n \in Node, NEW U \in SUBSET Tag
  PROVE  /\ Appended(n, U) \in Seq(Entry)
         /\ Len(Appended(n, U)) = Len(tasks) + InFront(n, U)
         /\ \A i \in 1 .. Len(tasks) : Appended(n, U)[i] = tasks[i]
         /\ InFront(n, U) = 1 => Appended(n, U)[Len(tasks) + 1] = PostEntry(n, U)
<1>1. tasks \in Seq(Entry) /\ Len(tasks) \in Nat
  BY LenProperties, Zenon DEF TypeOK
<1>2. CASE Unresolved(n, U) = {}
  <2>1. Appended(n, U) = tasks /\ InFront(n, U) = 0
    BY <1>2 DEF Appended, WithPost, InFront
  <2>2. QED
    BY <1>1, <2>1
<1>3. CASE Unresolved(n, U) # {}
  <2>1. PostEntry(n, U) \in Entry
    BY <1>3, EntryTypes, Zenon
  <2>2. Appended(n, U) = Append(tasks, PostEntry(n, U)) /\ InFront(n, U) = 1
    BY <1>3, Zenon DEF Appended, WithPost, PostEntry, InFront
  <2> HIDE DEF Entry
  <2> DEFINE e == PostEntry(n, U)
  <2>3. tasks \in Seq(Entry) /\ e \in Entry
    BY <1>1, <2>1
  <2> HIDE DEF e
  <2>4. /\ Append(tasks, e) \in Seq(Entry)
        /\ Len(Append(tasks, e)) = Len(tasks) + 1
        /\ \A i \in 1 .. Len(tasks) : Append(tasks, e)[i] = tasks[i]
        /\ Append(tasks, e)[Len(tasks) + 1] = e
    BY <2>3, AppendProperties
  <2>5. Appended(n, U) = Append(tasks, e)
    BY <2>2 DEF e
  <2>6. QED
    BY <2>2, <2>4, <2>5 DEF e
<1>4. QED
  BY <1>2, <1>3

\* Where the two tasks of a request go: in front of the list and at its end.
LEMMA ScheduledPlaces ==
  ASSUME TypeOK, NEW n \in Node, NEW T \in SUBSET Tag, NEW U \in SUBSET Tag,
         ScheduleTags(n, T, U)
  PROVE  /\ Len(tasks') = Len(tasks) + InFront(n, T) + InFront(n, U)
         /\ \A i \in 1 .. Len(tasks) : tasks'[i + InFront(n, T)] = tasks[i]
         /\ InFront(n, T) = 1 => tasks'[1] = PreEntry(n, T, U)
         /\ InFront(n, U) = 1 => tasks'[Len(tasks')] = PostEntry(n, U)
<1> DEFINE s == Appended(n, U)
<1>1. /\ s \in Seq(Entry)
      /\ Len(s) = Len(tasks) + InFront(n, U)
      /\ \A i \in 1 .. Len(tasks) : s[i] = tasks[i]
      /\ InFront(n, U) = 1 => s[Len(tasks) + 1] = PostEntry(n, U)
  BY AppendedPlaces, Zenon
<1>2. Len(tasks) \in Nat /\ InFront(n, U) \in {0, 1}
  BY LenProperties DEF TypeOK, InFront
<1>3. CASE Unresolved(n, T) = {}
  <2>1. tasks' = s /\ InFront(n, T) = 0
    BY <1>3, ScheduleTagsCases, Zenon DEF InFront
  <2> HIDE DEF s
  <2>2. QED
    BY <1>1, <1>2, <2>1
<1>4. CASE Unresolved(n, T) # {}
  <2> DEFINE e == PreEntry(n, T, U)
  <2>1. tasks' = <<e>> \o s /\ InFront(n, T) = 1
    BY <1>4, ScheduleTagsCases, Zenon DEF InFront
  <2>2. e \in Entry
    BY <1>4, EntryTypes, Zenon
  <2> HIDE DEF s, e, Entry
  <2>3. /\ Len(<<e>> \o s) = Len(s) + 1
        /\ (<<e>> \o s)[1] = e
        /\ \A i \in 1 .. Len(s) : (<<e>> \o s)[i + 1] = s[i]
    <3>1. s \in Seq(Entry)
      BY <1>1
    <3>2. QED
      BY <2>2, <3>1, Pushed
  <2>4. Len(tasks') = Len(tasks) + 1 + InFront(n, U)
    BY <1>1, <1>2, <2>1, <2>3
  <2>5. \A i \in 1 .. Len(tasks) : tasks'[i + 1] = tasks[i]
    BY <1>1, <1>2, <2>1, <2>3
  <2>6. InFront(n, U) = 1 => tasks'[Len(tasks')] = PostEntry(n, U)
    <3> SUFFICES ASSUME InFront(n, U) = 1
                 PROVE  tasks'[Len(tasks')] = PostEntry(n, U)
      OBVIOUS
    <3>1. Len(tasks) + 1 \in 1 .. Len(s) /\ Len(tasks') = (Len(tasks) + 1) + 1
      BY <1>1, <1>2, <2>4
    <3>2. QED
      BY <1>1, <2>1, <2>3, <3>1, Zenon
  <2>7. tasks'[1] = e
    BY <2>1, <2>3
  <2>8. QED
    BY <2>1, <2>4, <2>5, <2>6, <2>7, Zenon DEF e
<1>5. QED
  BY <1>3, <1>4, Zenon

(* A request has a new argument, freed at once when no task needs it.      *)
LEMMA ScheduledArgs ==
  ASSUME TypeOK, NEW n \in Node, NEW T \in SUBSET Tag, NEW U \in SUBSET Tag,
         ScheduleTags(n, T, U)
  PROVE  /\ Len(args') = Len(args) + 1
         /\ \A a \in 1 .. Len(args) : args'[a] = args[a]
         /\ args'[Len(args) + 1] =
              IF InFront(n, T) = 0 /\ InFront(n, U) = 0 THEN 1 ELSE 0
<1>1. args \in Seq(Nat)
  BY DEF TypeOK
<1>2. args' = Append(args, IF InFront(n, T) = 0 /\ InFront(n, U) = 0 THEN 1 ELSE 0)
  BY ScheduleTagsCases DEF InFront
<1>3. QED
  BY <1>1, <1>2, AppendProperties

(* The tasks a request makes have its argument, which the one in front     *)
(* keeps when there is one at the end.                                     *)
LEMMA ScheduledEntries ==
  ASSUME TypeOK, NEW n \in Node, NEW T \in SUBSET Tag, NEW U \in SUBSET Tag
  PROVE  /\ PreEntry(n, T, U).arg = Len(args) + 1
         /\ PreEntry(n, T, U).keep_arg_on_free = (InFront(n, U) = 1)
         /\ PostEntry(n, U).arg = Len(args) + 1
         /\ PostEntry(n, U).keep_arg_on_free = FALSE
BY DEF PreEntry, PostEntry, NewEntry, FreshArg, InFront

(* A request raises the flags, and changes the chain only on a cycle.      *)
LEMMA ScheduledFlags ==
  ASSUME NEW n, NEW T, NEW U, ScheduleTags(n, T, U)
  PROVE  /\ InFront(n, T) = 0 => UNCHANGED <<flags, dep_chain>>
         /\ InFront(n, T) = 1 =>
              /\ "NEW_DEPS" \in flags'
              /\ IF AnyIsProcessing(n, Unresolved(n, T))
                 THEN flags' = flags \cup {"NEW_DEPS", "CIRCULAR_DEP"}
                 ELSE flags' = flags \cup {"NEW_DEPS"} /\ UNCHANGED dep_chain
<1>1. CASE Unresolved(n, T) = {}
  <2>1. UNCHANGED <<flags, dep_chain>> /\ InFront(n, T) = 0
    BY <1>1 DEF ScheduleTags, InFront
  <2>2. QED
    BY <2>1
<1>2. CASE Unresolved(n, T) # {}
  <2>1. InFront(n, T) = 1
    BY <1>2 DEF InFront
  <2>2. CASE AnyIsProcessing(n, Unresolved(n, T))
    <3>1. flags' = flags \cup {"NEW_DEPS"} \cup {"CIRCULAR_DEP"}
      BY <1>2, <2>2 DEF ScheduleTags
    <3>2. QED
      BY <2>1, <2>2, <3>1
  <2>3. CASE ~AnyIsProcessing(n, Unresolved(n, T))
    <3>1. flags' = flags \cup {"NEW_DEPS"} \cup {} /\ UNCHANGED dep_chain
      BY <1>2, <2>3 DEF ScheduleTags
    <3>2. QED
      BY <2>1, <2>3, <3>1
  <2>4. QED
    BY <2>2, <2>3
<1>3. QED
  BY <1>1, <1>2

(* Every place of the list after a request holds a task of before or one   *)
(* the request made.                                                       *)
LEMMA ScheduledCases ==
  ASSUME TypeOK, NEW n \in Node, NEW T \in SUBSET Tag, NEW U \in SUBSET Tag,
         ScheduleTags(n, T, U), NEW p \in 1 .. Len(tasks')
  PROVE  \/ /\ p - InFront(n, T) \in 1 .. Len(tasks)
            /\ tasks'[p] = tasks[p - InFront(n, T)]
         \/ /\ InFront(n, T) = 1 /\ p = 1
            /\ tasks'[p] = PreEntry(n, T, U)
         \/ /\ InFront(n, U) = 1 /\ p = Len(tasks') /\ p > Len(tasks) + InFront(n, T)
            /\ tasks'[p] = PostEntry(n, U)
<1> DEFINE d == InFront(n, T)
<1>1. /\ Len(tasks') = Len(tasks) + d + InFront(n, U)
      /\ \A i \in 1 .. Len(tasks) : tasks'[i + d] = tasks[i]
      /\ d = 1 => tasks'[1] = PreEntry(n, T, U)
      /\ InFront(n, U) = 1 => tasks'[Len(tasks')] = PostEntry(n, U)
  BY ScheduledPlaces, Zenon
<1>2. Len(tasks) \in Nat /\ d \in {0, 1} /\ InFront(n, U) \in {0, 1}
  BY LenProperties DEF TypeOK, InFront
<1> HIDE DEF d
<1>3. CASE p - d \in 1 .. Len(tasks)
  <2>1. (p - d) + d = p
    BY <1>2
  <2>2. QED
    BY <1>1, <1>3, <2>1 DEF d
<1>4. CASE p - d \notin 1 .. Len(tasks)
  <2>1. \/ d = 1 /\ p = 1
        \/ InFront(n, U) = 1 /\ p = Len(tasks') /\ p > Len(tasks) + d
    BY <1>1, <1>2, <1>4
  <2>2. QED
    BY <1>1, <2>1 DEF d
<1>5. QED
  BY <1>3, <1>4

(* A request keeps the arguments of the others.                            *)
LEMMA ScheduleKeepsArgs ==
  ASSUME TypeOK, ArgsOwned, ArgsShared, ArgsFreed,
         NEW n \in Node, NEW T \in SUBSET Tag, NEW U \in SUBSET Tag,
         ScheduleTags(n, T, U)
  PROVE  ArgsOwned' /\ ArgsShared' /\ ArgsFreed'
<1> DEFINE d == InFront(n, T)
           l == InFront(n, U)
           new == Len(args) + 1
           before == PreEntry(n, T, U)
           after == PostEntry(n, U)
<1>1. /\ before.arg = new /\ before.keep_arg_on_free = (l = 1)
      /\ after.arg = new /\ after.keep_arg_on_free = FALSE
  BY ScheduledEntries, Zenon
<1>2. /\ Len(args') = new
      /\ \A a \in 1 .. Len(args) : args'[a] = args[a]
      /\ args'[new] = IF d = 0 /\ l = 0 THEN 1 ELSE 0
  BY ScheduledArgs, Zenon
<1>3. /\ Len(tasks) \in Nat /\ Len(args) \in Nat /\ Len(tasks') \in Nat
      /\ d \in {0, 1} /\ l \in {0, 1}
  <2>1. Len(tasks) \in Nat /\ Len(args) \in Nat /\ d \in {0, 1} /\ l \in {0, 1}
    BY LenProperties DEF TypeOK, InFront
  <2>2. Len(tasks') = Len(tasks) + d + l
    BY ScheduledPlaces, Zenon
  <2>3. QED
    BY <2>1, <2>2
<1>4. /\ Len(tasks') = Len(tasks) + d + l
      /\ \A i \in 1 .. Len(tasks) : tasks'[i + d] = tasks[i]
      /\ d = 1 => tasks'[1] = before
      /\ l = 1 => tasks'[Len(tasks')] = after
  BY ScheduledPlaces, Zenon
<1>5. \A p \in 1 .. Len(tasks') :
         \/ p - d \in 1 .. Len(tasks) /\ tasks'[p] = tasks[p - d]
         \/ d = 1 /\ p = 1 /\ tasks'[p] = before
         \/ l = 1 /\ p = Len(tasks') /\ p > Len(tasks) + d /\ tasks'[p] = after
  BY ScheduledCases, Zenon
<1> HIDE DEF d, l, before, after
<1>6. ArgsOwned'
  <2> SUFFICES ASSUME NEW p \in 1 .. Len(tasks')
               PROVE  /\ tasks'[p].arg \in 1 .. Len(args')
                      /\ args'[tasks'[p].arg] = 0
    BY DEF ArgsOwned
  <2>1. CASE p - d \in 1 .. Len(tasks) /\ tasks'[p] = tasks[p - d]
    BY <1>2, <1>3, <2>1, SMTT(30) DEF ArgsOwned
  <2>2. CASE tasks'[p].arg = new /\ (d = 1 \/ l = 1)
    BY <1>2, <1>3, <2>2
  <2>3. QED
    BY <1>1, <1>5, <2>1, <2>2
<1>7. ArgsShared'
  <2> SUFFICES ASSUME NEW p \in 1 .. Len(tasks'), NEW q \in 1 .. Len(tasks'),
                      p < q, tasks'[p].arg = tasks'[q].arg
               PROVE  tasks'[p].keep_arg_on_free /\ ~tasks'[q].keep_arg_on_free
    BY DEF ArgsShared
  <2>1. \A i \in 1 .. Len(tasks) : tasks[i].arg # new
    BY <1>3 DEF ArgsOwned
  <2>2. CASE p - d \in 1 .. Len(tasks) /\ tasks'[p] = tasks[p - d]
    <3>1. q - d \in 1 .. Len(tasks) /\ tasks'[q] = tasks[q - d]
      BY <1>1, <1>3, <1>5, <2>1, <2>2
    <3>2. p - d < q - d
      BY <1>3
    <3>3. QED
      BY <2>2, <3>1, <3>2 DEF ArgsShared
  <2>3. CASE d = 1 /\ p = 1 /\ tasks'[p] = before
    <3>1. l = 1 /\ tasks'[q] = after
      BY <1>1, <1>3, <1>5, <2>1, <2>3, SMTT(30)
    <3>2. QED
      BY <1>1, <2>3, <3>1
  <2>4. CASE l = 1 /\ p = Len(tasks')
    BY <1>3, <2>4
  <2>5. QED
    BY <1>5, <2>2, <2>3, <2>4
<1>8. ArgsFreed'
  <2> SUFFICES ASSUME NEW a \in 1 .. Len(args')
               PROVE  /\ args'[a] \in {0, 1}
                      /\ args'[a] = 0 => \E p \in 1 .. Len(tasks') :
                           tasks'[p].arg = a /\ ~tasks'[p].keep_arg_on_free
    BY DEF ArgsFreed
  <2>1. CASE a \in 1 .. Len(args)
    <3>1. args'[a] = args[a] /\ args[a] \in {0, 1}
      BY <1>2, <2>1 DEF ArgsFreed
    <3>2. ASSUME args[a] = 0
          PROVE  \E p \in 1 .. Len(tasks') :
                    tasks'[p].arg = a /\ ~tasks'[p].keep_arg_on_free
      <4>1. PICK i \in 1 .. Len(tasks) :
               tasks[i].arg = a /\ ~tasks[i].keep_arg_on_free
        BY <2>1, <3>2 DEF ArgsFreed
      <4>2. i + d \in 1 .. Len(tasks') /\ tasks'[i + d] = tasks[i]
        BY <1>3, <1>4
      <4>3. QED
        BY <4>1, <4>2
    <3>3. QED
      BY <3>1, <3>2
  <2>2. CASE a = new
    <3>1. CASE l = 1
      <4>1. Len(tasks') \in 1 .. Len(tasks') /\ tasks'[Len(tasks')] = after
        BY <1>3, <1>4, <3>1
      <4>2. args'[a] = 0
        BY <1>2, <2>2, <3>1
      <4>3. after.arg = a /\ ~after.keep_arg_on_free
        BY <1>1, <2>2
      <4>4. \E p \in 1 .. Len(tasks') :
               tasks'[p].arg = a /\ ~tasks'[p].keep_arg_on_free
        <5> DEFINE p == Len(tasks')
        <5>1. p \in 1 .. Len(tasks') /\ tasks'[p].arg = a
              /\ ~tasks'[p].keep_arg_on_free
          BY <4>1, <4>3
        <5> HIDE DEF p
        <5>2. QED
          BY <5>1
      <4>5. QED
        BY <4>2, <4>4
    <3>2. CASE l = 0 /\ d = 1
      <4>1. 1 \in 1 .. Len(tasks') /\ tasks'[1] = before
        BY <1>3, <1>4, <3>2
      <4>2. args'[a] = 0
        BY <1>2, <2>2, <3>2
      <4>3. before.arg = a /\ ~before.keep_arg_on_free
        <5>1. ~(l = 1)
          BY <3>2
        <5>2. QED
          BY <1>1, <2>2, <5>1, Zenon
      <4>4. QED
        BY <4>1, <4>2, <4>3
    <3>3. CASE l = 0 /\ d = 0
      BY <1>2, <2>2, <3>3
    <3>4. QED
      BY <1>3, <3>1, <3>2, <3>3
  <2>3. QED
    BY <1>2, <1>3, <2>1, <2>2
<1>9. QED
  BY <1>6, <1>7, <1>8

(* Removing the first task frees its argument when no other task needs it. *)
LEMMA RemoveKeepsArgs ==
  ASSUME TypeOK, ArgsOwned, ArgsShared, ArgsFreed, tasks # <<>>,
         RemoveTask(tasks[1])
  PROVE  ArgsOwned' /\ ArgsShared' /\ ArgsFreed'
<1> DEFINE e == tasks[1]
<1>1. /\ Len(tasks) \in Nat /\ Len(tasks) > 0
      /\ Len(tasks') = Len(tasks) - 1
      /\ \A p \in 1 .. Len(tasks') : tasks'[p] = tasks[p + 1]
  <2>1. tasks \in Seq(Entry) /\ tasks' = Tail(tasks)
    BY DEF TypeOK, RemoveTask
  <2> HIDE DEF Entry
  <2>2. QED
    BY <2>1, HeadTailProperties, EmptySeq, LenProperties
<1>2. 1 \in 1 .. Len(tasks) /\ e.arg \in 1 .. Len(args) /\ args[e.arg] = 0
  BY <1>1 DEF ArgsOwned
<1>3. /\ Len(args') = Len(args) /\ Len(args) \in Nat
      /\ \A a \in 1 .. Len(args) :
           args'[a] = IF a = e.arg /\ ~e.keep_arg_on_free THEN args[a] + 1 ELSE args[a]
  <2>1. args \in Seq(Nat) /\ Len(args) \in Nat
    BY LenProperties DEF TypeOK
  <2>2. CASE e.keep_arg_on_free
    BY <2>1, <2>2 DEF RemoveTask
  <2>3. CASE ~e.keep_arg_on_free
    <3>1. args' = [args EXCEPT ![e.arg] = args[e.arg] + 1] /\ args[e.arg] + 1 \in Nat
      BY <1>2, <2>3 DEF RemoveTask, FreeArg
    <3>2. QED
      BY <1>2, <2>1, <2>3, <3>1, ExceptSeq
  <2>4. QED
    BY <2>2, <2>3
<1>4. \A p \in 1 .. Len(tasks') : p + 1 \in 1 .. Len(tasks) /\ tasks'[p] = tasks[p + 1]
  BY <1>1
<1>5. \A p \in 1 .. Len(tasks') : tasks[p + 1].arg = e.arg => e.keep_arg_on_free
  BY <1>1, <1>4 DEF ArgsShared
<1>6. ArgsOwned'
  <2> SUFFICES ASSUME NEW p \in 1 .. Len(tasks')
               PROVE  /\ tasks'[p].arg \in 1 .. Len(args')
                      /\ args'[tasks'[p].arg] = 0
    BY DEF ArgsOwned
  <2>1. tasks[p + 1].arg \in 1 .. Len(args) /\ args[tasks[p + 1].arg] = 0
    BY <1>4 DEF ArgsOwned
  <2>2. QED
    BY <1>3, <1>4, <1>5, <2>1
<1>7. ArgsShared'
  <2> SUFFICES ASSUME NEW p \in 1 .. Len(tasks'), NEW q \in 1 .. Len(tasks'),
                      p < q, tasks'[p].arg = tasks'[q].arg
               PROVE  tasks'[p].keep_arg_on_free /\ ~tasks'[q].keep_arg_on_free
    BY DEF ArgsShared
  <2>1. p + 1 < q + 1
    OBVIOUS
  <2>2. QED
    BY <1>4, <2>1 DEF ArgsShared
<1>8. ArgsFreed'
  <2> SUFFICES ASSUME NEW a \in 1 .. Len(args)
               PROVE  /\ args'[a] \in {0, 1}
                      /\ args'[a] = 0 => \E p \in 1 .. Len(tasks') :
                           tasks'[p].arg = a /\ ~tasks'[p].keep_arg_on_free
    BY <1>3 DEF ArgsFreed
  <2>1. args[a] \in {0, 1}
    BY DEF ArgsFreed
  <2>2. args'[a] \in {0, 1}
    BY <1>2, <1>3, <2>1
  <2>3. ASSUME args'[a] = 0
        PROVE  \E p \in 1 .. Len(tasks') :
                  tasks'[p].arg = a /\ ~tasks'[p].keep_arg_on_free
    <3>1. args[a] = 0 /\ (a = e.arg => e.keep_arg_on_free)
      BY <1>3, <2>1, <2>3
    <3>2. PICK i \in 1 .. Len(tasks) : tasks[i].arg = a /\ ~tasks[i].keep_arg_on_free
      BY <3>1 DEF ArgsFreed
    <3>3. i # 1
      BY <3>1, <3>2
    <3>4. i - 1 \in 1 .. Len(tasks') /\ tasks'[i - 1] = tasks[i]
      <4>1. i - 1 \in 1 .. Len(tasks') /\ (i - 1) + 1 = i
        BY <1>1, <3>3
      <4>2. QED
        BY <1>4, <4>1
    <3>5. QED
      BY <3>2, <3>4
  <2>4. QED
    BY <2>2, <2>3
<1>9. QED
  BY <1>6, <1>7, <1>8

(* Every step keeps the arguments.                                         *)
LEMMA ArgStep == TypeInv /\ ArgInv /\ [Next]_vars => ArgInv'
<1> SUFFICES ASSUME TypeInv, ArgInv, [Next]_vars PROVE ArgInv'
  OBVIOUS
<1> USE DEF ArgInv
<1>1. TypeOK
  BY DEF TypeInv
<1>2. ASSUME NEW n \in Node, NEW T \in SUBSET Tag, NEW U \in SUBSET Tag,
             ScheduleTags(n, T, U), pc' # "done"
      PROVE  ArgInv'
  BY <1>1, <1>2, ScheduleKeepsArgs DEF ErrorKept
<1>3. ASSUME NEW e, tasks # <<>>, e = Head(tasks), RemoveTask(e), pc' # "done"
      PROVE  ArgInv'
  <2>1. e = tasks[1]
    BY <1>3
  <2>2. QED
    BY <1>1, <1>3, <2>1, RemoveKeepsArgs DEF ErrorKept
<1>4. ASSUME UNCHANGED <<tasks, args>>, ErrorKept' PROVE ArgInv'
  BY <1>4 DEF ArgsOwned, ArgsShared, ArgsFreed
<1>5. ASSUME NEW n \in Node, NEW T \in SUBSET Tag, NEW U \in SUBSET Tag,
             ScheduleRoot(n, T, U) \/ CallbackSchedule(n, T, U)
      PROVE  ArgInv'
  <2>1. ScheduleTags(n, T, U) /\ pc' # "done"
    BY <1>5 DEF ScheduleRoot, CallbackSchedule
  <2>2. QED
    BY <1>2, <2>1
<1>6. CallResolve \/ StartTask \/ CallbackNextTag => ArgInv'
  <2> SUFFICES ASSUME CallResolve \/ StartTask \/ CallbackNextTag
               PROVE  ArgInv'
    OBVIOUS
  <2>1. UNCHANGED <<tasks, args>> /\ pc' # "done"
    BY DEF CallResolve, StartTask, CallbackNextTag, drVars
  <2>2. QED
    BY <1>4, <2>1 DEF ErrorKept
<1>7. Finish => ArgInv'
  <2> SUFFICES ASSUME Finish PROVE ArgInv'
    OBVIOUS
  <2>1. UNCHANGED <<tasks, args>> /\ ret' = "OK" /\ tasks = <<>>
    BY DEF Finish, drVars
  <2>2. QED
    BY <1>4, <2>1 DEF ErrorKept
<1>8. DropTask => ArgInv'
  <2> SUFFICES ASSUME DropTask PROVE ArgInv'
    OBVIOUS
  <2>1. tasks # <<>> /\ RemoveTask(Head(tasks)) /\ pc' # "done"
    BY DEF DropTask
  <2>2. QED
    BY <1>3, <2>1
<1>9. CallbackReturn => ArgInv'
  <2> SUFFICES ASSUME CallbackReturn PROVE ArgInv'
    OBVIOUS
  <2>1. tasks # <<>> /\ tasks \in Seq(Entry)
    BY <1>1 DEF TypeInv, Running, CallbackReturn, TypeOK
  <2>2. CASE StopOnCircular
    BY <1>4, <2>2 DEF StopOnCircular, ErrorKept
  <2>3. CASE WaitForNewDeps
    BY <1>4, <2>3 DEF WaitForNewDeps, ErrorKept
  <2>4. CASE StopOnError
    <3>1. UNCHANGED <<tasks, args, cb>> /\ ret' = "ERROR" /\ Head(tasks) = cb.entry
      BY <2>4 DEF StopOnError, StillFirst
    <3>2. 1 \in 1 .. Len(tasks) /\ tasks[1] = cb.entry
      BY <2>1, <3>1, EmptySeq
    <3>3. QED
      BY <1>4, <3>1, <3>2 DEF ErrorKept
  <2>5. CASE CompleteTask
    <3>1. RemoveTask(cb.entry) /\ cb.entry = Head(tasks) /\ pc' # "done"
      BY <2>5 DEF CompleteTask, StillFirst
    <3>2. QED
      BY <1>3, <2>1, <3>1
  <2>6. QED
    BY <2>2, <2>3, <2>4, <2>5 DEF CallbackReturn
<1>10. NewSession => ArgInv'
  <2> SUFFICES ASSUME NewSession PROVE ArgInv'
    OBVIOUS
  <2>1. tasks' = <<>> /\ args' = <<>> /\ pc' = "caller"
    BY DEF NewSession
  <2>2. Len(tasks') = 0 /\ Len(args') = 0
    BY <2>1
  <2>3. QED
    BY <2>1, <2>2 DEF ArgsOwned, ArgsShared, ArgsFreed, ErrorKept
<1>11. UNCHANGED vars => ArgInv'
  BY <1>4 DEF vars, ErrorKept
<1>12. QED
  BY <1>5, <1>6, <1>7, <1>8, <1>9, <1>10, <1>11 DEF Next, Resolving

\* ArgInv holds at first.
LEMMA InitArgs == Init => ArgInv
<1> SUFFICES ASSUME Init PROVE ArgInv
  OBVIOUS
<1>1. Len(tasks) = 0 /\ Len(args) = 0 /\ pc = "caller"
  BY DEF Init
<1>2. QED
  BY <1>1 DEF ArgInv, ArgsOwned, ArgsShared, ArgsFreed, ErrorKept

\* ArgInv is an invariant.
LEMMA ArgInvariant == Spec => []ArgInv
<1>1. Spec => []TypeInv
  BY InitType, StepType, PTL DEF Spec
<1>2. QED
  BY <1>1, InitArgs, ArgStep, PTL DEF Spec

(* The argument of a request is freed exactly once by the time the         *)
(* resolver succeeds, and never while a task still has to pass it to the   *)
(* callback or the report of an error refers to it.                        *)
THEOREM ArgLifetimeAlways == Spec => []ArgLifetime
<1>1. TypeOK /\ ArgInv => ArgLifetime
  <2> SUFFICES ASSUME TypeOK, ArgInv PROVE ArgLifetime
    OBVIOUS
  <2>1. /\ tasks \in Seq(Entry) /\ DOMAIN tasks = 1 .. Len(tasks)
        /\ DOMAIN args = 1 .. Len(args)
    BY LenProperties DEF TypeOK
  <2>2. \A e \in Elements(tasks) : args[e.arg] = 0
    BY <2>1 DEF Elements, ArgInv, ArgsOwned
  <2>3. \A a \in DOMAIN args : args[a] \in {0, 1}
    BY <2>1 DEF ArgInv, ArgsFreed
  <2>4. pc = "done" /\ ret = "OK" => \A a \in DOMAIN args : args[a] = 1
    <3> SUFFICES ASSUME pc = "done", ret = "OK", NEW a \in DOMAIN args
                 PROVE  args[a] = 1
      OBVIOUS
    <3>1. Len(tasks) = 0
      BY DEF ArgInv, ErrorKept
    <3>2. QED
      BY <2>1, <3>1 DEF ArgInv, ArgsFreed
  <2>5. pc = "done" /\ ret = "ERROR" => args[ErrorEntry.arg] = 0
    BY DEF ArgInv, ArgsOwned, ErrorKept, ErrorEntry
  <2>6. QED
    BY <2>2, <2>3, <2>4, <2>5 DEF ArgLifetime
<1>2. QED
  BY <1>1, ArgInvariant, TypeCorrect, PTL
-----------------------------------------------------------------------------
(* The running callback: its task is in the list, behind the ones that     *)
(* were put in front of it, of which the flag NEW_DEPS tells; it is run    *)
(* for tags of the task that are not resolved, never gets past the highest *)
(* one, and the tags it has gone through had no error.                     *)
RunPlace ==
  \E p \in 1 .. Len(tasks) : tasks[p] = cb.entry /\ ("NEW_DEPS" \in flags <=> p > 1)

RunTags ==
  /\ cb.tags \subseteq cb.entry.tags
  /\ KeysOf(cb.entry.node, cb.tags) \cap resolved = {}
  /\ \E t \in cb.tags : cb.tag <= t
  /\ cb.entry.node \in graph.whole => cb.tag = 1
  /\ cb.entry.node \notin graph.whole =>
       \A t \in Tag : t < cb.tag => <<cb.entry.node, t>> \notin graph.bad

RunInv ==
  /\ pc # "done" => "ERROR" \notin flags
  /\ pc = "callback" => RunPlace /\ RunTags

(* Two places of the list never hold the same task.                        *)
LEMMA TasksDistinct ==
  ASSUME TypeOK, ArgsShared,
         NEW p \in 1 .. Len(tasks), NEW q \in 1 .. Len(tasks), tasks[p] = tasks[q]
  PROVE  p = q
<1>1. p \in Nat /\ q \in Nat
  OBVIOUS
<1>2. ~(p < q) /\ ~(q < p)
  BY DEF ArgsShared
<1>3. QED
  BY <1>1, <1>2

(* While no task was put in front of it the running one is the first.      *)
LEMMA RunningIsFirst ==
  ASSUME TypeInv, ArgsShared, RunInv, pc = "callback"
  PROVE  /\ "NEW_DEPS" \in flags <=> ~StillFirst(cb.entry)
         /\ tasks \in Seq(Entry) /\ tasks # <<>> /\ Head(tasks) = tasks[1]
         /\ Len(tasks) \in Nat /\ 1 \in 1 .. Len(tasks)
<1>1. /\ tasks \in Seq(Entry) /\ tasks # <<>> /\ Head(tasks) = tasks[1]
      /\ Len(tasks) \in Nat /\ 1 \in 1 .. Len(tasks)
  BY EmptySeq, LenProperties DEF TypeInv, TypeOK, Running
<1>2. PICK p \in 1 .. Len(tasks) :
        tasks[p] = cb.entry /\ ("NEW_DEPS" \in flags <=> p > 1)
  BY DEF RunInv, RunPlace
<1>3. tasks[1] = cb.entry => p = 1
  BY <1>1, <1>2, TasksDistinct DEF TypeInv
<1>4. QED
  BY <1>1, <1>2, <1>3 DEF StillFirst

(* A request made by the callback leaves its task in the list, behind the  *)
(* one it puts in front.                                                   *)
LEMMA ScheduleKeepsPlace ==
  ASSUME TypeOK, RunPlace, UNCHANGED cb.entry,
         NEW n \in Node, NEW T \in SUBSET Tag, NEW U \in SUBSET Tag,
         ScheduleTags(n, T, U)
  PROVE  RunPlace'
<1>1. PICK p \in 1 .. Len(tasks) :
        tasks[p] = cb.entry /\ ("NEW_DEPS" \in flags <=> p > 1)
  BY DEF RunPlace
<1> DEFINE d == InFront(n, T)
<1>2. /\ Len(tasks') = Len(tasks) + d + InFront(n, U)
      /\ tasks'[p + d] = tasks[p]
  BY ScheduledPlaces
<1>3. d \in {0, 1} /\ InFront(n, U) \in {0, 1} /\ Len(tasks) \in Nat
  BY LenProperties DEF TypeOK, InFront
<1>4. "NEW_DEPS" \in flags' <=> ("NEW_DEPS" \in flags \/ d = 1)
  <2>1. CASE d = 0
    BY <2>1, ScheduledFlags
  <2>2. CASE d = 1
    BY <2>2, ScheduledFlags
  <2>3. QED
    BY <1>3, <2>1, <2>2
<1> HIDE DEF d
<1>5. p + d \in 1 .. Len(tasks') /\ (p + d > 1 <=> p > 1 \/ d = 1)
  BY <1>2, <1>3
<1>6. tasks'[p + d] = cb.entry' /\ ("NEW_DEPS" \in flags' <=> p + d > 1)
  BY <1>1, <1>2, <1>4, <1>5
<1>7. QED
  BY <1>5, <1>6 DEF RunPlace

\* RunInv is inductive, given the types and the arguments.
LEMMA RunStep == TypeInv /\ ArgInv /\ RunInv /\ [Next]_vars => RunInv'
<1> SUFFICES ASSUME TypeInv, ArgInv, RunInv, [Next]_vars PROVE RunInv'
  OBVIOUS
<1> USE DEF RunInv
<1>1. TypeOK /\ ArgsShared
  BY DEF TypeInv, ArgInv
<1>2. ASSUME NEW n \in Node, NEW T \in SUBSET Tag, NEW U \in SUBSET Tag,
             ScheduleTags(n, T, U), pc # "done"
      PROVE  "ERROR" \notin flags'
  <2>1. flags' \subseteq flags \cup {"NEW_DEPS", "CIRCULAR_DEP"}
    BY <1>2, ScheduleTagsCases
  <2>2. QED
    BY <1>2, <2>1
<1>3. ASSUME NEW n \in Node, NEW T \in SUBSET Tag, NEW U \in SUBSET Tag,
             ScheduleRoot(n, T, U)
      PROVE  RunInv'
  BY <1>2, <1>3 DEF ScheduleRoot
<1>4. CallResolve => RunInv'
  BY DEF CallResolve, drVars
<1>5. DropTask => RunInv'
  BY DEF DropTask
<1>6. StartTask => RunInv'
  <2> SUFFICES ASSUME StartTask PROVE RunInv'
    OBVIOUS
  <2>1. /\ tasks # <<>> /\ UNCHANGED <<tasks, resolved, graph>>
        /\ flags' = flags \ {"NEW_DEPS"} /\ "ERROR" \notin flags
        /\ cb'.entry = Head(tasks) /\ cb'.tag = 1
        /\ cb'.tags = Unresolved(Head(tasks).node, Head(tasks).tags)
        /\ cb'.tags # {}
    BY DEF StartTask
  <2>2. Head(tasks) \in Entry /\ 1 \in 1 .. Len(tasks) /\ tasks[1] = Head(tasks)
    BY <1>1, <2>1, HeadTailProperties, EmptySeq DEF TypeOK
  <2>3. RunPlace'
    BY <2>1, <2>2 DEF RunPlace
  <2>4. RunTags'
    <3>1. cb'.tags \subseteq cb'.entry.tags /\ cb'.tags \subseteq Tag
      BY <2>1, <2>2 DEF Unresolved, Entry
    <3>2. KeysOf(cb'.entry.node, cb'.tags) \cap resolved = {}
      BY <2>1 DEF KeysOf, Unresolved
    <3>3. \E t \in cb'.tags : cb'.tag <= t
      BY <2>1, <3>1 DEF Tag
    <3>4. \A t \in Tag : ~(t < cb'.tag)
      BY <2>1 DEF Tag
    <3>5. QED
      BY <2>1, <3>1, <3>2, <3>3, <3>4 DEF RunTags, KeysOf
  <2>5. QED
    BY <2>1, <2>3, <2>4
<1>7. Finish => RunInv'
  BY DEF Finish
<1>8. CallbackNextTag => RunInv'
  <2> SUFFICES ASSUME CallbackNextTag PROVE RunInv'
    OBVIOUS
  <2>1. /\ pc = "callback" /\ PassDone /\ ~LastPass /\ cb \in Callback
        /\ UNCHANGED <<tasks, flags, resolved, graph, pc>>
    BY DEF CallbackNextTag, TypeInv, Running, drVars, nodeVars
  <2>2. /\ cb'.entry = cb.entry /\ cb'.tags = cb.tags /\ cb'.tag = cb.tag + 1
    BY <2>1 DEF CallbackNextTag, Callback
  <2>3. RunPlace'
    BY <2>1, <2>2 DEF RunPlace
  <2>4. RunTags'
    <3>1. cb.tags \subseteq Tag /\ cb.tag \in Nat
      BY <2>1 DEF Callback, Tag
    <3>2. cb.entry.node \notin graph.whole /\ \E t \in cb.tags : cb.tag + 1 <= t
      BY <2>1, <3>1 DEF LastPass, Tag
    <3>3. <<cb.entry.node, cb.tag>> \notin graph.bad
      BY <2>1, <3>2 DEF PassDone, PassKeys
    <3>4. \A t \in Tag : t < cb.tag + 1 => t < cb.tag \/ t = cb.tag
      BY <3>1 DEF Tag
    <3>5. QED
      BY <2>1, <2>2, <3>2, <3>3, <3>4 DEF RunTags, KeysOf
  <2>5. QED
    BY <2>1, <2>3, <2>4
<1>9. CallbackReturn => RunInv'
  BY DEF CallbackReturn, StopOnCircular, WaitForNewDeps, StopOnError, CompleteTask
<1>10. ASSUME NEW n \in Node, NEW T \in SUBSET Tag, NEW U \in SUBSET Tag,
             CallbackSchedule(n, T, U)
      PROVE  RunInv'
  <2>1. /\ pc = "callback" /\ cb \in Callback /\ ScheduleTags(n, T, U)
        /\ UNCHANGED <<resolved, graph, pc>>
    BY <1>10 DEF CallbackSchedule, TypeInv, Running, nodeVars
  <2>2. /\ cb'.entry = cb.entry /\ cb'.tags = cb.tags /\ cb'.tag = cb.tag
    BY <1>10, <2>1 DEF CallbackSchedule, Callback
  <2>3. RunPlace'
    BY <1>1, <2>1, <2>2, ScheduleKeepsPlace
  <2>4. RunTags'
    BY <2>1, <2>2 DEF RunTags, KeysOf
  <2>5. QED
    BY <1>2, <2>1, <2>3, <2>4
<1>11. NewSession => RunInv'
  BY DEF NewSession
<1>12. UNCHANGED vars => RunInv'
  BY DEF vars, RunPlace, RunTags, KeysOf
<1>13. QED
  BY <1>3, <1>4, <1>5, <1>6, <1>7, <1>8, <1>9, <1>10, <1>11, <1>12
     DEF Next, Resolving

\* RunInv holds at first.
LEMMA InitRun == Init => RunInv
BY DEF Init, RunInv
-----------------------------------------------------------------------------
(* What a task waits for when its callback stopped at tag u.               *)
AskedFrom(g, n, u) ==
  IF n \in g.whole THEN UNION {g.pre[<<n, t>>] : t \in Tag} ELSE g.pre[<<n, u>>]

(* A walk of the graph g: the tasks of the stack s are in the list ts, at  *)
(* places f that grow, stopped at tags u, the ones below which are in      *)
(* done; each one asked for the tasks in front of it, up to the next.      *)
InOrder(f, n) == \A i, j \in 1 .. n : i < j => f[i] < f[j]

StopsAt(g, done, e, u) ==
  /\ \E t \in e.tags : u <= t
  /\ e.node \in g.whole => u = 1
  /\ \A t \in Tag : t < u => <<e.node, t>> \in done

AskedFor(g, ts, s, f, u) ==
  \A i \in 1 .. Len(s), p \in 1 .. Len(ts) :
     p < f[i] /\ (i = 1 \/ f[i - 1] <= p) =>
       EntryKeys(ts[p]) \subseteq AskedFrom(g, s[i].node, u[i])

IsWalk(g, ts, done, s, f, u) ==
  /\ f \in [1 .. Len(s) -> 1 .. Len(ts)]
  /\ u \in [1 .. Len(s) -> Tag]
  /\ \A i \in 1 .. Len(s) : ts[f[i]] = s[i]
  /\ \A i \in 1 .. Len(s) : StopsAt(g, done, s[i], u[i])
  /\ InOrder(f, Len(s))
  /\ AskedFor(g, ts, s, f, u)

(* The first task of a walk may leave the stack when it heads the list.    *)
LEMMA PopWalk ==
  ASSUME NEW g, NEW ts \in Seq(Entry), NEW done, NEW s \in Seq(Entry), NEW f, NEW u,
         IsWalk(g, ts, done, s, f, u), s # <<>>, f[1] = 1
  PROVE  \E f1, u1 : IsWalk(g, ts, done, Tail(s), f1, u1)
                     /\ \A i \in 1 .. Len(Tail(s)) : f1[i] > 1
<1> DEFINE m == Len(Tail(s))
           f1 == [i \in 1 .. m |-> f[i + 1]]
           u1 == [i \in 1 .. m |-> u[i + 1]]
<1>1. /\ Tail(s) \in Seq(Entry) /\ m = Len(s) - 1 /\ m \in Nat
      /\ \A i \in 1 .. m : Tail(s)[i] = s[i + 1]
  <2> HIDE DEF Entry
  <2>1. QED
    BY HeadTailProperties, LenProperties
<1>2. \A i \in 1 .. m : i + 1 \in 1 .. Len(s)
  BY <1>1
<1>3. 1 \in 1 .. Len(s)
  BY <1>1
<1> HIDE DEF m
<1>4. f1 \in [1 .. m -> 1 .. Len(ts)] /\ u1 \in [1 .. m -> Tag]
  BY <1>2 DEF IsWalk
<1>5. \A i \in 1 .. m : f1[i] > 1
  <2> TAKE i \in 1 .. m
  <2>1. f[1] < f[i + 1]
    BY <1>2, <1>3 DEF IsWalk, InOrder
  <2>2. QED
    BY <2>1
<1>6. \A i \in 1 .. m : ts[f1[i]] = Tail(s)[i] /\ StopsAt(g, done, Tail(s)[i], u1[i])
  BY <1>1, <1>2 DEF IsWalk
<1>7. InOrder(f1, m)
  BY <1>2 DEF IsWalk, InOrder
<1>8. ASSUME NEW i \in 1 .. m, NEW p \in 1 .. Len(ts),
             p < f1[i], i = 1 \/ f1[i - 1] <= p
      PROVE  EntryKeys(ts[p]) \subseteq AskedFrom(g, Tail(s)[i].node, u1[i])
  <2>1. i + 1 \in 1 .. Len(s) /\ i + 1 # 1 /\ (i + 1) - 1 = i
    BY <1>2
  <2>2. p < f[i + 1] /\ f[i] <= p
    <3>1. CASE i = 1
      BY <1>8, <3>1
    <3>2. CASE i # 1
      <4>1. i - 1 \in 1 .. m /\ (i - 1) + 1 = i
        BY <1>1, <3>2
      <4>2. f1[i] = f[i + 1] /\ f1[i - 1] = f[i]
        BY <4>1
      <4>3. QED
        BY <1>8, <3>2, <4>2
    <3>3. QED
      BY <3>1, <3>2
  <2>3. EntryKeys(ts[p]) \subseteq AskedFrom(g, s[i + 1].node, u[i + 1])
    BY <2>1, <2>2 DEF IsWalk, AskedFor
  <2>4. QED
    BY <1>1, <2>3
<1>9. AskedFor(g, ts, Tail(s), f1, u1)
  BY <1>8 DEF AskedFor, m
<1>10. IsWalk(g, ts, done, Tail(s), f1, u1)
  BY <1>4, <1>6, <1>7, <1>9 DEF IsWalk, m
<1>11. QED
  BY <1>5, <1>10 DEF m

(* The first task of the list may enter the stack.                         *)
LEMMA PushWalk ==
  ASSUME NEW g, NEW ts \in Seq(Entry), NEW done, NEW s \in Seq(Entry), NEW f, NEW u,
         IsWalk(g, ts, done, s, f, u), ts # <<>>,
         \A i \in 1 .. Len(s) : f[i] > 1
  PROVE  \E f1, u1 : IsWalk(g, ts, done, <<ts[1]>> \o s, f1, u1) /\ u1[1] = 1
<1> DEFINE e == ts[1]
           m == Len(s) + 1
           f1 == [i \in 1 .. m |-> IF i = 1 THEN 1 ELSE f[i - 1]]
           u1 == [i \in 1 .. m |-> IF i = 1 THEN 1 ELSE u[i - 1]]
           es == <<e>> \o s
<1>1. 1 \in 1 .. Len(ts) /\ e \in Entry /\ Len(ts) \in Nat
  <2> HIDE DEF Entry
  <2>1. QED
    BY EmptySeq, ElementOfSeq, LenProperties
<1>2. /\ Len(s) \in Nat /\ Len(es) = m /\ es[1] = e
      /\ \A i \in 1 .. Len(s) : es[i + 1] = s[i]
  <2> HIDE DEF Entry, e
  <2>1. QED
    BY <1>1, Pushed, LenProperties
<1> HIDE DEF es
<1>3. ASSUME NEW i \in 1 .. m, i # 1
      PROVE  /\ i - 1 \in 1 .. Len(s) /\ es[i] = s[i - 1]
             /\ f1[i] = f[i - 1] /\ u1[i] = u[i - 1]
  <2>1. i - 1 \in 1 .. Len(s) /\ (i - 1) + 1 = i
    BY <1>2, <1>3
  <2>2. QED
    BY <1>2, <1>3, <2>1
<1>4. 1 \in 1 .. m /\ m \in Nat /\ f1[1] = 1 /\ u1[1] = 1
  BY <1>2
<1>5. 1 \in Tag
  BY NTagsAssumption DEF Tag
<1> HIDE DEF e
<1>6. f1 \in [1 .. m -> 1 .. Len(ts)] /\ u1 \in [1 .. m -> Tag]
  BY <1>1, <1>3, <1>5 DEF IsWalk
<1> HIDE DEF f1, u1
<1>7. ASSUME NEW i \in 1 .. m
      PROVE  ts[f1[i]] = es[i] /\ StopsAt(g, done, es[i], u1[i])
  <2>1. CASE i = 1
    <3>1. \E t \in e.tags : 1 <= t
      BY <1>1 DEF Entry, Tag
    <3>2. \A t \in Tag : ~(t < 1)
      BY DEF Tag
    <3>3. QED
      BY <1>2, <1>4, <2>1, <3>1, <3>2 DEF StopsAt, e
  <2>2. CASE i # 1
    BY <1>3, <2>2 DEF IsWalk
  <2>3. QED
    BY <2>1, <2>2
<1>8. InOrder(f1, m)
  <2> SUFFICES ASSUME NEW i \in 1 .. m, NEW j \in 1 .. m, i < j PROVE f1[i] < f1[j]
    BY DEF InOrder
  <2>1. j # 1 /\ j - 1 \in 1 .. Len(s) /\ f1[j] = f[j - 1]
    BY <1>3
  <2>2. CASE i = 1
    BY <1>4, <2>1, <2>2
  <2>3. CASE i # 1
    <3>1. i - 1 \in 1 .. Len(s) /\ f1[i] = f[i - 1] /\ i - 1 < j - 1
      BY <1>3, <2>3
    <3>2. QED
      BY <2>1, <3>1 DEF IsWalk, InOrder
  <2>4. QED
    BY <2>2, <2>3
<1>9. ASSUME NEW i \in 1 .. m, NEW p \in 1 .. Len(ts),
             p < f1[i], i = 1 \/ f1[i - 1] <= p
      PROVE  EntryKeys(ts[p]) \subseteq AskedFrom(g, es[i].node, u1[i])
  <2>1. i # 1
    BY <1>4, <1>9
  <2>2. /\ i - 1 \in 1 .. Len(s) /\ es[i] = s[i - 1]
        /\ f1[i] = f[i - 1] /\ u1[i] = u[i - 1]
    BY <1>3, <2>1
  <2>3. i - 1 = 1 \/ f[(i - 1) - 1] <= p
    <3>1. CASE i - 1 # 1
      <4>1. i - 1 \in 1 .. m
        BY <1>2, <2>2
      <4>2. f1[i - 1] = f[(i - 1) - 1]
        BY <1>3, <3>1, <4>1
      <4>3. QED
        BY <1>9, <2>1, <4>2
    <3>2. QED
      BY <3>1
  <2>4. QED
    BY <1>9, <2>2, <2>3 DEF IsWalk, AskedFor
<1>10. AskedFor(g, ts, es, f1, u1)
  BY <1>2, <1>9 DEF AskedFor
<1>11. IsWalk(g, ts, done, es, f1, u1)
  BY <1>2, <1>6, <1>7, <1>8, <1>10 DEF IsWalk
<1>12. QED
  BY <1>4, <1>11 DEF es, e

(* The first task of the list may leave it when it is not on the stack.    *)
LEMMA DropWalk ==
  ASSUME NEW g, NEW ts \in Seq(Entry), NEW done, NEW s \in Seq(Entry), NEW f, NEW u,
         IsWalk(g, ts, done, s, f, u), ts # <<>>,
         \A i \in 1 .. Len(s) : f[i] > 1
  PROVE  \E f1, u1 : IsWalk(g, Tail(ts), done, s, f1, u1)
<1> DEFINE tail == Tail(ts)
           f1 == [i \in 1 .. Len(s) |-> f[i] - 1]
<1>1. /\ Len(ts) \in Nat /\ Len(tail) = Len(ts) - 1 /\ Len(s) \in Nat
      /\ \A p \in 1 .. Len(tail) : tail[p] = ts[p + 1]
  <2> HIDE DEF Entry
  <2>1. QED
    BY HeadTailProperties, LenProperties
<1> HIDE DEF tail
<1>2. ASSUME NEW i \in 1 .. Len(s)
      PROVE  f1[i] \in 1 .. Len(tail) /\ f1[i] = f[i] - 1 /\ f1[i] + 1 = f[i]
             /\ f[i] \in 1 .. Len(ts)
  <2>1. f[i] \in 1 .. Len(ts)
    BY DEF IsWalk
  <2>2. QED
    BY <1>1, <2>1
<1>3. f1 \in [1 .. Len(s) -> 1 .. Len(tail)] /\ u \in [1 .. Len(s) -> Tag]
  BY <1>2 DEF IsWalk
<1> HIDE DEF f1
<1>4. \A i \in 1 .. Len(s) : tail[f1[i]] = s[i] /\ StopsAt(g, done, s[i], u[i])
  <2> TAKE i \in 1 .. Len(s)
  <2>1. tail[f1[i]] = ts[f[i]]
    BY <1>1, <1>2
  <2>2. QED
    BY <2>1 DEF IsWalk
<1>5. InOrder(f1, Len(s))
  BY <1>2 DEF IsWalk, InOrder
<1>6. ASSUME NEW i \in 1 .. Len(s), NEW p \in 1 .. Len(tail),
             p < f1[i], i = 1 \/ f1[i - 1] <= p
      PROVE  EntryKeys(tail[p]) \subseteq AskedFrom(g, s[i].node, u[i])
  <2>1. p + 1 \in 1 .. Len(ts) /\ p + 1 < f[i] /\ tail[p] = ts[p + 1]
    BY <1>1, <1>2, <1>6
  <2>2. i = 1 \/ f[i - 1] <= p + 1
    <3>1. CASE i # 1
      <4>1. i - 1 \in 1 .. Len(s)
        BY <1>1, <3>1
      <4>2. f1[i - 1] <= p /\ f1[i - 1] + 1 = f[i - 1] /\ f1[i - 1] \in Int
        BY <1>2, <1>6, <3>1, <4>1
      <4>3. QED
        BY <4>2
    <3>2. QED
      BY <3>1
  <2>3. QED
    BY <2>1, <2>2 DEF IsWalk, AskedFor
<1>7. AskedFor(g, tail, s, f1, u)
  BY <1>6 DEF AskedFor
<1>8. IsWalk(g, tail, done, s, f1, u)
  BY <1>3, <1>4, <1>5, <1>7 DEF IsWalk
<1>9. QED
  BY <1>8 DEF tail

(* A task may be put in front of the list when the top of the stack asked  *)
(* for it, and any task at its end.                                        *)
LEMMA GrowWalk ==
  ASSUME NEW g, NEW ts \in Seq(Entry), NEW ts1 \in Seq(Entry), NEW d \in {0, 1},
         NEW done, NEW s \in Seq(Entry), NEW f, NEW u,
         IsWalk(g, ts, done, s, f, u),
         Len(ts1) >= Len(ts) + d,
         \A p \in 1 .. Len(ts) : ts1[p + d] = ts[p],
         d = 1 /\ s # <<>> =>
           EntryKeys(ts1[1]) \subseteq AskedFrom(g, s[1].node, u[1])
  PROVE  \E f1 : IsWalk(g, ts1, done, s, f1, u)
<1> DEFINE f1 == [i \in 1 .. Len(s) |-> f[i] + d]
<1>1. Len(ts) \in Nat /\ Len(ts1) \in Nat /\ Len(s) \in Nat
      /\ (s # <<>> <=> Len(s) # 0)
  <2> HIDE DEF Entry
  <2>1. QED
    BY LenProperties, EmptySeq
<1>2. ASSUME NEW i \in 1 .. Len(s)
      PROVE  f1[i] \in 1 .. Len(ts1) /\ f1[i] = f[i] + d /\ f[i] \in 1 .. Len(ts)
  <2>1. f[i] \in 1 .. Len(ts)
    BY DEF IsWalk
  <2>2. QED
    BY <1>1, <2>1
<1>3. f1 \in [1 .. Len(s) -> 1 .. Len(ts1)] /\ u \in [1 .. Len(s) -> Tag]
  BY <1>2 DEF IsWalk
<1> HIDE DEF f1
<1>4. \A i \in 1 .. Len(s) : ts1[f1[i]] = s[i] /\ StopsAt(g, done, s[i], u[i])
  <2> TAKE i \in 1 .. Len(s)
  <2>1. ts1[f1[i]] = ts[f[i]]
    BY <1>2
  <2>2. QED
    BY <2>1 DEF IsWalk
<1>5. InOrder(f1, Len(s))
  BY <1>2 DEF IsWalk, InOrder
<1>6. ASSUME NEW i \in 1 .. Len(s), NEW p \in 1 .. Len(ts1),
             p < f1[i], i = 1 \/ f1[i - 1] <= p
      PROVE  EntryKeys(ts1[p]) \subseteq AskedFrom(g, s[i].node, u[i])
  <2>1. CASE p - d \in 1 .. Len(ts)
    <3>1. ts1[p] = ts[p - d] /\ p - d < f[i]
      <4>1. (p - d) + d = p
        OBVIOUS
      <4>2. ts1[p] = ts[p - d]
        BY <2>1, <4>1
      <4>3. QED
        BY <1>2, <1>6, <4>2
    <3>2. i = 1 \/ f[i - 1] <= p - d
      <4>1. CASE i # 1
        <5>1. i - 1 \in 1 .. Len(s)
          BY <1>1, <4>1
        <5>2. f1[i - 1] <= p /\ f1[i - 1] = f[i - 1] + d /\ f[i - 1] \in Int
          BY <1>2, <1>6, <4>1, <5>1
        <5>3. QED
          BY <5>2
      <4>2. QED
        BY <4>1
    <3>3. QED
      BY <2>1, <3>1, <3>2 DEF IsWalk, AskedFor
  <2>2. CASE p - d \notin 1 .. Len(ts)
    <3>1. d = 1 /\ p = 1
      BY <1>1, <1>2, <1>6, <2>2
    <3>2. i = 1
      <4>1. CASE i # 1
        <5>1. i - 1 \in 1 .. Len(s)
          BY <1>1, <4>1
        <5>2. f1[i - 1] <= p /\ f1[i - 1] = f[i - 1] + d /\ f[i - 1] \in 1 .. Len(ts)
          BY <1>2, <1>6, <4>1, <5>1
        <5>3. QED
          BY <3>1, <5>2
      <4>2. QED
        BY <4>1
    <3>3. s # <<>>
      BY <1>1
    <3>4. QED
      BY <3>1, <3>2, <3>3
  <2>3. QED
    BY <2>1, <2>2
<1>7. AskedFor(g, ts1, s, f1, u)
  BY <1>6 DEF AskedFor
<1>8. QED
  BY <1>3, <1>4, <1>5, <1>7 DEF IsWalk

(* Keys only get done.                                                     *)
LEMMA DoneWalk ==
  ASSUME NEW g, NEW ts, NEW done, NEW done1, NEW s, NEW f, NEW u,
         IsWalk(g, ts, done, s, f, u), done \subseteq done1
  PROVE  IsWalk(g, ts, done1, s, f, u)
<1>1. \A i \in 1 .. Len(s) : StopsAt(g, done1, s[i], u[i])
  BY DEF IsWalk, StopsAt
<1>2. QED
  BY <1>1 DEF IsWalk

(* The top of a walk asks for a key of a task further down, that is not    *)
(* done: what the tasks between the two wait for is a trap.                *)
LEMMA TrapOfWalk ==
  ASSUME NEW g, NEW ts \in Seq(Entry), NEW done, NEW s \in Seq(Entry), NEW f, NEW u,
         IsWalk(g, ts, done, s, f, u),
         NEW j \in 1 .. Len(s), NEW t \in s[j].tags,
         <<s[j].node, t>> \notin done,
         <<s[j].node, t>> \in AskedFrom(g, s[1].node, u[1])
  PROVE  \E S \in SUBSET Key : IsTrap(g, S)
<1> DEFINE S == {k \in Key : \E i \in 1 .. j : k[1] = s[i].node /\ u[i] <= k[2]}
<1>1. ASSUME NEW i \in 1 .. j
      PROVE  /\ i \in 1 .. Len(s) /\ s[i].node \in Node /\ s[i].tags \subseteq Tag
             /\ u[i] \in Tag /\ i \in Nat
  <2>1. i \in 1 .. Len(s) /\ i \in Nat
    <3>1. Len(s) \in Nat
      <4> HIDE DEF Entry
      <4>1. QED
        BY LenProperties
    <3>2. QED
      BY <3>1
  <2>2. s[i] \in Entry
    <3> HIDE DEF Entry
    <3>1. QED
      BY <2>1, ElementOfSeq
  <2>3. QED
    BY <2>1, <2>2 DEF IsWalk, Entry
<1>2. j \in 1 .. j /\ 1 \in 1 .. j
  OBVIOUS
<1>3. ASSUME NEW i \in 1 .. j, NEW v \in Tag, u[i] <= v
      PROVE  <<s[i].node, v>> \in S
  BY <1>1, <1>3 DEF Key
<1>4. ASSUME NEW i \in 1 .. j
      PROVE  S \cap AskedFrom(g, s[i].node, u[i]) # {}
  <2>1. CASE i = 1
    <3>1. t \in Tag
      BY <1>1, <1>2
    <3>2. ~(t < u[j])
      BY <1>1, <1>2, <3>1 DEF IsWalk, StopsAt
    <3>3. u[j] <= t
      BY <1>1, <1>2, <3>1, <3>2 DEF Tag
    <3>4. <<s[j].node, t>> \in S
      BY <1>2, <1>3, <3>1, <3>3
    <3>5. QED
      BY <2>1, <3>4
  <2>2. CASE i # 1
    <3> DEFINE h == i - 1
    <3>1. h \in 1 .. j /\ h < i
      BY <2>2
    <3>2. h \in 1 .. Len(s) /\ i \in 1 .. Len(s)
      BY <1>1, <3>1
    <3>3. f[h] \in 1 .. Len(ts) /\ f[h] < f[i] /\ ts[f[h]] = s[h]
      BY <3>1, <3>2 DEF IsWalk, InOrder
    <3>4. EntryKeys(s[h]) \subseteq AskedFrom(g, s[i].node, u[i])
      <4>1. f[i - 1] <= f[h]
        BY <3>3
      <4> HIDE DEF h
      <4>2. EntryKeys(ts[f[h]]) \subseteq AskedFrom(g, s[i].node, u[i])
        BY <3>2, <3>3, <4>1 DEF IsWalk, AskedFor
      <4>3. QED
        BY <3>3, <4>2
    <3>5. PICK v \in s[h].tags : u[h] <= v
      BY <3>2 DEF IsWalk, StopsAt
    <3>6. <<s[h].node, v>> \in EntryKeys(s[h])
      BY DEF EntryKeys, KeysOf
    <3>7. <<s[h].node, v>> \in S
      BY <1>1, <1>3, <3>1, <3>5
    <3>8. QED
      BY <3>4, <3>6, <3>7
  <2>3. QED
    BY <2>1, <2>2
<1>5. ASSUME NEW k \in S
      PROVE  WaitsFor(g, k) \cap S # {}
  <2>1. PICK i \in 1 .. j : k[1] = s[i].node /\ u[i] <= k[2]
    OBVIOUS
  <2>2. k = <<k[1], k[2]>> /\ k[1] \in Node /\ k[2] \in Tag /\ u[i] \in Tag
    BY <1>1 DEF Key
  <2> HIDE DEF S
  <2>3. CASE k[1] \in g.whole
    <3>1. WaitsFor(g, k) = AskedFrom(g, s[i].node, u[i])
      BY <2>1, <2>3 DEF WaitsFor, AskedFrom
    <3>2. QED
      BY <1>4, <3>1
  <2>4. CASE k[1] \notin g.whole /\ u[i] = k[2]
    <3>1. AskedFrom(g, s[i].node, u[i]) \subseteq WaitsFor(g, k)
      BY <2>1, <2>2, <2>4 DEF WaitsFor, AskedFrom, Needs
    <3>2. QED
      BY <1>4, <3>1
  <2>5. CASE k[1] \notin g.whole /\ u[i] # k[2]
    <3>1. u[i] < k[2]
      BY <2>1, <2>2, <2>5 DEF Tag
    <3>2. <<k[1], u[i]>> \in WaitsFor(g, k)
      BY <2>2, <2>5, <3>1 DEF WaitsFor, Needs
    <3>3. <<k[1], u[i]>> \in S
      <4>1. u[i] <= u[i]
        BY <2>2 DEF Tag
      <4>2. QED
        BY <1>3, <2>1, <2>2, <4>1
    <3>4. QED
      BY <3>2, <3>3
  <2>6. QED
    BY <2>3, <2>4, <2>5
<1>6. S # {}
  BY <1>2, <1>4
<1>7. QED
  BY <1>5, <1>6 DEF IsTrap

(* The callback of the top of the stack goes on to a higher tag, when      *)
(* nothing was put in front of it.                                         *)
LEMMA NextTagWalk ==
  ASSUME NEW g, NEW ts, NEW done, NEW s \in Seq(Entry), NEW f, NEW u,
         IsWalk(g, ts, done, s, f, u), s # <<>>, f[1] = 1,
         NEW v \in Tag, StopsAt(g, done, s[1], v)
  PROVE  \E u1 : IsWalk(g, ts, done, s, f, u1) /\ u1[1] = v
<1> DEFINE u1 == [u EXCEPT ![1] = v]
<1>1. 1 \in 1 .. Len(s) /\ Len(s) \in Nat
  <2> HIDE DEF Entry
  <2>1. QED
    BY EmptySeq, LenProperties
<1>2. u1 \in [1 .. Len(s) -> Tag] /\ u1[1] = v
      /\ \A i \in 1 .. Len(s) : i # 1 => u1[i] = u[i]
  BY <1>1 DEF IsWalk
<1> HIDE DEF u1
<1>3. \A i \in 1 .. Len(s) : StopsAt(g, done, s[i], u1[i])
  <2> TAKE i \in 1 .. Len(s)
  <2>1. CASE i = 1
    BY <1>2, <2>1
  <2>2. CASE i # 1
    BY <1>2, <2>2 DEF IsWalk
  <2>3. QED
    BY <2>1, <2>2
<1>4. AskedFor(g, ts, s, f, u1)
  <2> SUFFICES ASSUME NEW i \in 1 .. Len(s), NEW p \in 1 .. Len(ts),
                      p < f[i], i = 1 \/ f[i - 1] <= p
               PROVE  EntryKeys(ts[p]) \subseteq AskedFrom(g, s[i].node, u1[i])
    BY DEF AskedFor
  <2>1. i # 1
    OBVIOUS
  <2>2. QED
    BY <1>2, <2>1 DEF IsWalk, AskedFor
<1>5. IsWalk(g, ts, done, s, f, u1)
  BY <1>2, <1>3, <1>4 DEF IsWalk
<1>6. QED
  BY <1>2, <1>5

(* The empty stack.                                                        *)
LEMMA EmptyWalk ==
  ASSUME NEW g, NEW ts, NEW done
  PROVE  \E f, u : IsWalk(g, ts, done, <<>>, f, u)
<1> DEFINE none == [i \in 1 .. 0 |-> 1]
<1>1. Len(<<>>) = 0 /\ 1 .. 0 = {}
  OBVIOUS
<1>2. none \in [1 .. 0 -> 1 .. Len(ts)] /\ none \in [1 .. 0 -> Tag]
  OBVIOUS
<1>3. IsWalk(g, ts, done, <<>>, none, none)
  BY <1>1, <1>2 DEF IsWalk, InOrder, AskedFor
<1>4. QED
  BY <1>3

\* What was pushed is what is dropped.
LEMMA PushedTail ==
  ASSUME NEW S, NEW s \in Seq(S), NEW e \in S
  PROVE  Tail(<<e>> \o s) = s
<1> DEFINE p == <<e>> \o s
<1>1. /\ p \in Seq(S) /\ p # <<>> /\ Len(p) = Len(s) + 1
      /\ \A i \in 1 .. Len(s) : p[i + 1] = s[i]
  BY Pushed
<1> HIDE DEF p
<1>2. /\ Tail(p) \in Seq(S) /\ Len(Tail(p)) = Len(p) - 1
      /\ \A i \in 1 .. Len(Tail(p)) : Tail(p)[i] = p[i + 1]
  BY <1>1, HeadTailProperties
<1>3. Len(s) \in Nat
  BY LenProperties
<1>4. Len(Tail(p)) = Len(s) /\ \A i \in 1 .. Len(s) : Tail(p)[i] = s[i]
  BY <1>1, <1>2, <1>3
<1>5. Tail(p) = s
  BY <1>2, <1>4, SeqEqual, Zenon
<1>6. QED
  BY <1>5 DEF p
-----------------------------------------------------------------------------
(* The stack of the walk: the waiting tasks, and above them the running    *)
(* one. The tags it has gone through count as done, although they are      *)
(* marked as resolved only when the callback returns.                      *)
Stack == IF pc = "callback" THEN <<cb.entry>> \o dep_chain ELSE dep_chain

Done ==
  resolved \cup (IF pc = "callback"
                 THEN KeysOf(cb.entry.node, {t \in Tag : t < cb.tag})
                 ELSE {})

Walk ==
  "CIRCULAR_DEP" \notin flags =>
    /\ pc = "caller" => dep_chain = <<>>
    /\ \E f, u : /\ IsWalk(graph, tasks, Done, Stack, f, u)
                 /\ pc = "callback" => u[1] = cb.tag

(* In the loop: what is left of the stack once the first task has left it. *)
LEMMA PoppedWalk ==
  ASSUME TypeOK, ArgsShared, Walk, "CIRCULAR_DEP" \notin flags, pc = "loop",
         tasks # <<>>
  PROVE  \E f, u : /\ IsWalk(graph, tasks, resolved, PopChain(Head(tasks)), f, u)
                   /\ \A i \in 1 .. Len(PopChain(Head(tasks))) : f[i] > 1
<1>1. Stack = dep_chain /\ Done = resolved
  BY DEF Stack, Done
<1>2. PICK f, u : IsWalk(graph, tasks, resolved, dep_chain, f, u)
  BY <1>1 DEF Walk
<1>3. /\ tasks \in Seq(Entry) /\ dep_chain \in Seq(Entry) /\ Head(tasks) = tasks[1]
      /\ 1 \in 1 .. Len(tasks) /\ Len(dep_chain) \in Nat
  <2>1. tasks \in Seq(Entry) /\ dep_chain \in Seq(Entry)
    BY DEF TypeOK
  <2> HIDE DEF Entry
  <2>2. QED
    BY <2>1, EmptySeq, LenProperties
<1>4. CASE dep_chain = <<>>
  <2>1. PopChain(Head(tasks)) = dep_chain /\ Len(dep_chain) = 0
    BY <1>4 DEF PopChain
  <2>2. QED
    BY <1>2, <2>1
<1>5. CASE dep_chain # <<>> /\ Head(dep_chain) = Head(tasks)
  <2>1. 1 \in 1 .. Len(dep_chain) /\ dep_chain[1] = tasks[1]
    BY <1>3, <1>5, EmptySeq
  <2>2. f[1] \in 1 .. Len(tasks) /\ tasks[f[1]] = tasks[1]
    BY <1>2, <2>1 DEF IsWalk
  <2>3. f[1] = 1
    BY <1>3, <2>2, TasksDistinct
  <2>4. PopChain(Head(tasks)) = Tail(dep_chain)
    BY <1>5 DEF PopChain
  <2>5. tasks \in Seq(Entry) /\ dep_chain \in Seq(Entry)
    BY <1>3
  <2>6. \E f1, u1 : /\ IsWalk(graph, tasks, resolved, Tail(dep_chain), f1, u1)
                    /\ \A i \in 1 .. Len(Tail(dep_chain)) : f1[i] > 1
    BY <1>2, <1>5, <2>3, <2>5, PopWalk, Zenon
  <2>7. QED
    BY <2>4, <2>6
<1>6. CASE dep_chain # <<>> /\ Head(dep_chain) # Head(tasks)
  <2>1. 1 \in 1 .. Len(dep_chain) /\ dep_chain[1] # tasks[1]
    BY <1>3, <1>6, EmptySeq
  <2>2. f[1] \in 1 .. Len(tasks) /\ f[1] # 1
    BY <1>2, <2>1 DEF IsWalk
  <2>3. ASSUME NEW i \in 1 .. Len(dep_chain) PROVE f[i] > 1
    <3>1. f[i] \in 1 .. Len(tasks) /\ (1 < i => f[1] < f[i])
      BY <1>2, <2>1 DEF IsWalk, InOrder
    <3>2. QED
      BY <2>2, <3>1
  <2>4. PopChain(Head(tasks)) = dep_chain
    BY <1>6 DEF PopChain
  <2>5. QED
    BY <1>2, <2>3, <2>4
<1>7. QED
  BY <1>4, <1>5, <1>6

(* What the callback may ask for is what its task waits for.               *)
LEMMA PassPreIsAsked ==
  ASSUME TypeInv, pc = "callback"
  PROVE  PassPre \subseteq AskedFrom(graph, cb.entry.node, cb.tag)
<1>1. cb.tags \subseteq Tag
  BY DEF TypeInv, Running, Callback
<1>2. CASE cb.entry.node \in graph.whole
  BY <1>1, <1>2 DEF PassPre, PassKeys, KeysOf, AskedFrom
<1>3. CASE cb.entry.node \notin graph.whole
  BY <1>3 DEF PassPre, PassKeys, AskedFrom
<1>4. QED
  BY <1>2, <1>3

(* A request that closes no cycle.                                         *)
LEMMA ScheduleKeepsWalk ==
  ASSUME TypeOK, NEW n \in Node, NEW T \in SUBSET Tag, NEW U \in SUBSET Tag,
         ScheduleTags(n, T, U), "CIRCULAR_DEP" \notin flags',
         NEW s \in Seq(Entry), NEW done, NEW f, NEW u,
         IsWalk(graph, tasks, done, s, f, u),
         s # <<>> => KeysOf(n, T) \subseteq AskedFrom(graph, s[1].node, u[1])
  PROVE  /\ "CIRCULAR_DEP" \notin flags /\ UNCHANGED dep_chain
         /\ \E f1 : IsWalk(graph, tasks', done, s, f1, u)
<1> DEFINE d == InFront(n, T)
<1>1. d \in {0, 1} /\ InFront(n, U) \in {0, 1} /\ Len(tasks) \in Nat
  BY LenProperties DEF TypeOK, InFront
<1>2. "CIRCULAR_DEP" \notin flags /\ UNCHANGED dep_chain
  BY <1>1, ScheduledFlags
<1>3. /\ Len(tasks') = Len(tasks) + d + InFront(n, U)
      /\ \A i \in 1 .. Len(tasks) : tasks'[i + d] = tasks[i]
      /\ d = 1 => tasks'[1] = PreEntry(n, T, U)
  BY ScheduledPlaces, Zenon
<1>4. EntryKeys(PreEntry(n, T, U)) \subseteq KeysOf(n, T)
  BY DEF EntryKeys, PreEntry, NewEntry, Unresolved, KeysOf
<1>5. tasks' \in Seq(Entry) /\ tasks \in Seq(Entry)
  BY ScheduleTagsType DEF TypeOK
<1> HIDE DEF d
<1>6. Len(tasks') >= Len(tasks) + d
  BY <1>1, <1>3
<1>7. d = 1 /\ s # <<>> =>
        EntryKeys(tasks'[1]) \subseteq AskedFrom(graph, s[1].node, u[1])
  BY <1>3, <1>4
<1> DEFINE ts == tasks'
<1>8. \E f1 : IsWalk(graph, ts, done, s, f1, u)
  <2>1. /\ ts \in Seq(Entry) /\ Len(ts) >= Len(tasks) + d
        /\ \A i \in 1 .. Len(tasks) : ts[i + d] = tasks[i]
        /\ d = 1 /\ s # <<>> =>
             EntryKeys(ts[1]) \subseteq AskedFrom(graph, s[1].node, u[1])
    BY <1>3, <1>5, <1>6, <1>7
  <2> HIDE DEF ts
  <2>2. QED
    BY <1>1, <1>5, <2>1, GrowWalk, Zenon
<1>9. QED
  BY <1>2, <1>8

(* The running task leaves the stack.                                      *)
LEMMA LeaveStack ==
  ASSUME TypeInv, ArgsShared, Walk, "CIRCULAR_DEP" \notin flags, pc = "callback",
         StillFirst(cb.entry)
  PROVE  \E f, u : /\ IsWalk(graph, tasks, Done, dep_chain, f, u)
                   /\ \A i \in 1 .. Len(dep_chain) : f[i] > 1
<1>1. /\ TypeOK /\ tasks \in Seq(Entry) /\ dep_chain \in Seq(Entry)
      /\ cb.entry \in Entry /\ tasks # <<>>
  BY DEF TypeInv, TypeOK, Running, Callback
<1>2. Stack = <<cb.entry>> \o dep_chain
  BY DEF Stack
<1>3. /\ Stack \in Seq(Entry) /\ Stack # <<>> /\ Stack[1] = cb.entry
      /\ Tail(Stack) = dep_chain /\ 1 \in 1 .. Len(Stack)
  <2> HIDE DEF Entry
  <2>1. QED
    BY <1>1, <1>2, Pushed, PushedTail, EmptySeq
<1>4. PICK f, u : IsWalk(graph, tasks, Done, Stack, f, u)
  BY DEF Walk
<1>5. f[1] = 1
  <2>1. 1 \in 1 .. Len(tasks) /\ tasks[1] = cb.entry
    BY <1>1, EmptySeq DEF StillFirst
  <2>2. f[1] \in 1 .. Len(tasks) /\ tasks[f[1]] = cb.entry
    BY <1>3, <1>4 DEF IsWalk
  <2>3. QED
    BY <1>1, <2>1, <2>2, TasksDistinct
<1>6. \E f1, u1 : /\ IsWalk(graph, tasks, Done, Tail(Stack), f1, u1)
                  /\ \A i \in 1 .. Len(Tail(Stack)) : f1[i] > 1
  BY <1>1, <1>3, <1>4, <1>5, PopWalk, Zenon
<1>7. QED
  BY <1>3, <1>6

(* When the callback returns, the tags it went through are resolved.       *)
LEMMA DoneIsReturned ==
  ASSUME TypeInv, RunInv, CallbackReturn
  PROVE  Done \subseteq resolved'
<1>1. /\ pc = "callback" /\ cb.tag \in Nat
      /\ resolved' = resolved \cup KeysOf(cb.entry.node, ReturnedTags)
  BY DEF CallbackReturn, TypeInv, Running, Callback, Tag
<1>2. CASE cb.entry.node \in graph.whole
  <2>1. cb.tag = 1
    BY <1>1, <1>2 DEF RunInv, RunTags
  <2>2. {t \in Tag : t < cb.tag} = {}
    BY <2>1 DEF Tag
  <2>3. QED
    BY <1>1, <2>2 DEF Done, KeysOf
<1>3. CASE cb.entry.node \notin graph.whole
  <2>1. {t \in Tag : t < cb.tag} \subseteq ReturnedTags
    BY <1>1, <1>3 DEF ReturnedTags, Tag
  <2>2. QED
    BY <1>1, <2>1 DEF Done, KeysOf
<1>4. QED
  BY <1>2, <1>3

(* Every step keeps the walk.                                              *)
LEMMA WalkStep ==
  TypeInv /\ ArgInv /\ RunInv /\ Walk /\ [Next]_vars => Walk'
<1> SUFFICES ASSUME TypeInv, ArgInv, RunInv, Walk, [Next]_vars,
                    "CIRCULAR_DEP" \notin flags'
             PROVE  /\ pc' = "caller" => dep_chain' = <<>>
                    /\ \E f, u : /\ IsWalk(graph', tasks', Done', Stack', f, u)
                                 /\ pc' = "callback" => u[1] = cb'.tag
  BY DEF Walk
<1>1. TypeOK /\ ArgsShared /\ tasks \in Seq(Entry) /\ dep_chain \in Seq(Entry)
  BY DEF TypeInv, TypeOK, ArgInv
<1>2. ASSUME NEW n \in Node, NEW T \in SUBSET Tag, NEW U \in SUBSET Tag,
             ScheduleRoot(n, T, U)
      PROVE  /\ dep_chain' = <<>> /\ pc' = "caller"
             /\ \E f, u : IsWalk(graph', tasks', Done', Stack', f, u)
  <2>1. /\ ScheduleTags(n, T, U) /\ pc = "caller" /\ pc' = "caller"
        /\ UNCHANGED <<graph, resolved>>
    BY <1>2 DEF ScheduleRoot, nodeVars
  <2>2. <<>> \in Seq(Entry)
    BY EmptySeq
  <2>3. PICK f, u : IsWalk(graph, tasks, resolved, <<>>, f, u)
    BY EmptyWalk
  <2>4. /\ "CIRCULAR_DEP" \notin flags /\ UNCHANGED dep_chain
        /\ \E f1 : IsWalk(graph, tasks', resolved, <<>>, f1, u)
    BY <1>1, <2>1, <2>2, <2>3, ScheduleKeepsWalk
  <2>5. dep_chain' = <<>> /\ Stack' = <<>> /\ Done' = resolved
    BY <2>1, <2>4 DEF Walk, Stack, Done
  <2>6. QED
    BY <2>1, <2>4, <2>5
<1>3. ASSUME CallResolve \/ Finish
      PROVE  /\ pc' # "caller" /\ pc' # "callback"
             /\ \E f, u : IsWalk(graph', tasks', Done', Stack', f, u)
  <2>1. /\ UNCHANGED <<graph, tasks, dep_chain, resolved, flags>>
        /\ pc \in {"caller", "loop"} /\ pc' \in {"loop", "done"}
    BY <1>3 DEF CallResolve, Finish, nodeVars, drVars
  <2>2. Stack' = Stack /\ Done' = Done
    BY <2>1 DEF Stack, Done
  <2>3. QED
    BY <2>1, <2>2 DEF Walk
<1>4. ASSUME DropTask
      PROVE  /\ pc' = "loop"
             /\ \E f, u : IsWalk(graph', tasks', Done', Stack', f, u)
  <2>1. /\ pc = "loop" /\ pc' = "loop" /\ tasks # <<>> /\ tasks' = Tail(tasks)
        /\ dep_chain' = PopChain(Head(tasks)) /\ UNCHANGED <<graph, resolved>>
        /\ "CIRCULAR_DEP" \notin flags
    BY <1>4 DEF DropTask, RemoveTask, nodeVars
  <2>2. PICK f, u : /\ IsWalk(graph, tasks, resolved, PopChain(Head(tasks)), f, u)
                    /\ \A i \in 1 .. Len(PopChain(Head(tasks))) : f[i] > 1
    BY <1>1, <2>1, PoppedWalk
  <2>3. PopChain(Head(tasks)) \in Seq(Entry)
    BY <1>1, PopChainType
  <2>4. \E f1, u1 : IsWalk(graph, Tail(tasks), resolved, PopChain(Head(tasks)), f1, u1)
    BY <1>1, <2>1, <2>2, <2>3, DropWalk, Zenon
  <2>5. Stack' = PopChain(Head(tasks)) /\ Done' = resolved
    BY <2>1 DEF Stack, Done
  <2>6. QED
    BY <2>1, <2>4, <2>5
<1>5. ASSUME StartTask
      PROVE  /\ pc' = "callback"
             /\ \E f, u : /\ IsWalk(graph', tasks', Done', Stack', f, u)
                          /\ u[1] = cb'.tag
  <2>1. /\ pc = "loop" /\ pc' = "callback" /\ tasks # <<>> /\ UNCHANGED tasks
        /\ dep_chain' = PopChain(Head(tasks)) /\ UNCHANGED <<graph, resolved>>
        /\ "CIRCULAR_DEP" \notin flags
        /\ cb'.entry = Head(tasks) /\ cb'.tag = 1
    BY <1>5 DEF StartTask
  <2>2. PICK f, u : /\ IsWalk(graph, tasks, resolved, PopChain(Head(tasks)), f, u)
                    /\ \A i \in 1 .. Len(PopChain(Head(tasks))) : f[i] > 1
    BY <1>1, <2>1, PoppedWalk
  <2>3. PopChain(Head(tasks)) \in Seq(Entry)
    BY <1>1, PopChainType
  <2>4. PICK f1, u1 :
          /\ IsWalk(graph, tasks, resolved, <<tasks[1]>> \o PopChain(Head(tasks)), f1, u1)
          /\ u1[1] = 1
    <3> DEFINE rest == PopChain(Head(tasks))
    <3>1. /\ rest \in Seq(Entry) /\ tasks \in Seq(Entry) /\ tasks # <<>>
          /\ IsWalk(graph, tasks, resolved, rest, f, u)
          /\ \A i \in 1 .. Len(rest) : f[i] > 1
      BY <1>1, <2>1, <2>2, <2>3
    <3> HIDE DEF rest, Entry
    <3>2. \E f1, u1 : /\ IsWalk(graph, tasks, resolved, <<tasks[1]>> \o rest, f1, u1)
                      /\ u1[1] = 1
      BY <3>1, PushWalk, ZenonT(60)
    <3>3. QED
      BY <3>2 DEF rest
  <2>5. Stack' = <<tasks[1]>> \o PopChain(Head(tasks)) /\ resolved \subseteq Done'
    <3>1. Head(tasks) = tasks[1]
      BY <1>1, <2>1
    <3>2. QED
      BY <2>1, <3>1 DEF Stack, Done
  <2>6. IsWalk(graph, tasks, Done', Stack', f1, u1)
    BY <2>4, <2>5, DoneWalk, Zenon
  <2>7. QED
    BY <2>1, <2>4, <2>6
<1>6. ASSUME CallbackNextTag
      PROVE  /\ pc' = "callback"
             /\ \E f, u : /\ IsWalk(graph', tasks', Done', Stack', f, u)
                          /\ u[1] = cb'.tag
  <2>1. /\ pc = "callback" /\ PassDone /\ ~LastPass /\ cb \in Callback
        /\ UNCHANGED <<graph, tasks, dep_chain, flags, resolved, pc>>
        /\ cb.entry \in Entry /\ cb.tag \in Tag /\ cb.tags \subseteq Tag
    BY <1>6 DEF CallbackNextTag, TypeInv, Running, drVars, nodeVars, Callback
  <2>2. cb'.entry = cb.entry /\ cb'.tags = cb.tags /\ cb'.tag = cb.tag + 1
    BY <1>6, <2>1 DEF CallbackNextTag, Callback
  <2>3. StillFirst(cb.entry)
    <3>1. "NEW_DEPS" \notin flags
      BY <2>1 DEF PassDone, StatusOf
    <3>2. QED
      BY <1>1, <2>1, <3>1, RunningIsFirst
  <2>4. /\ Stack \in Seq(Entry) /\ Stack # <<>> /\ Stack[1] = cb.entry
        /\ 1 \in 1 .. Len(Stack)
    <3> HIDE DEF Entry
    <3>1. QED
      BY <1>1, <2>1, Pushed, EmptySeq DEF Stack
  <2>5. PICK f, u : IsWalk(graph, tasks, Done, Stack, f, u)
    BY <2>1 DEF Walk
  <2>6. f[1] = 1
    <3>1. 1 \in 1 .. Len(tasks) /\ tasks[1] = cb.entry
      BY <1>1, <2>1, <2>3, RunningIsFirst DEF StillFirst
    <3>2. f[1] \in 1 .. Len(tasks) /\ tasks[f[1]] = cb.entry
      BY <2>4, <2>5 DEF IsWalk
    <3>3. QED
      BY <1>1, <3>1, <3>2, TasksDistinct
  <2>7. /\ cb.entry.node \notin graph.whole
        /\ \E t \in cb.entry.tags : cb.tag + 1 <= t
        /\ cb.tag + 1 \in Tag /\ cb.entry.node \in Node
    <3>1. PICK t \in cb.tags : ~(t <= cb.tag)
      BY <2>1 DEF LastPass
    <3>2. t \in Tag /\ cb.tag + 1 <= t /\ cb.tag + 1 \in Tag
      BY <2>1, <3>1, NTagsAssumption DEF Tag
    <3>3. t \in cb.entry.tags
      BY <2>1, <3>1 DEF RunInv, RunTags
    <3>4. QED
      BY <2>1, <3>2, <3>3 DEF LastPass, Entry
  <2>8. Done' = resolved \cup KeysOf(cb.entry.node, {t \in Tag : t < cb.tag + 1})
    BY <2>1, <2>2 DEF Done, KeysOf
  <2>9. Done \subseteq Done'
    <3>1. \A t \in Tag : t < cb.tag => t < cb.tag + 1
      BY <2>1 DEF Tag
    <3>2. QED
      BY <2>1, <2>8, <3>1 DEF Done, KeysOf
  <2>10. StopsAt(graph, Done', Stack[1], cb.tag + 1)
    BY <2>4, <2>7, <2>8 DEF StopsAt, KeysOf
  <2>11. Stack' = Stack
    BY <2>1, <2>2 DEF Stack
  <2>12. \E u1 : IsWalk(graph, tasks, Done', Stack, f, u1) /\ u1[1] = cb.tag + 1
    <3> DEFINE v == cb.tag + 1
               done1 == Done'
               s == Stack
    <3>1. IsWalk(graph, tasks, Done', Stack, f, u)
      BY <2>5, <2>9, DoneWalk, Zenon
    <3>2. /\ s \in Seq(Entry) /\ s # <<>> /\ f[1] = 1 /\ v \in Tag
          /\ IsWalk(graph, tasks, done1, s, f, u)
          /\ StopsAt(graph, done1, s[1], v)
      BY <2>4, <2>6, <2>7, <2>10, <3>1
    <3> HIDE DEF v, done1, s, Entry
    <3>3. \E u1 : IsWalk(graph, tasks, done1, s, f, u1) /\ u1[1] = v
      BY <3>2, NextTagWalk
    <3>4. QED
      BY <3>3 DEF v, done1, s
  <2>13. QED
    BY <2>1, <2>2, <2>11, <2>12
<1>7. ASSUME CallbackReturn
      PROVE  /\ pc' # "caller" /\ pc' # "callback"
             /\ \E f, u : IsWalk(graph', tasks', Done', Stack', f, u)
  <2>1. /\ pc = "callback" /\ UNCHANGED graph /\ pc' \in {"loop", "done"}
        /\ cb.entry \in Entry /\ tasks # <<>>
    BY <1>7 DEF CallbackReturn, StopOnCircular, WaitForNewDeps, StopOnError,
                CompleteTask, TypeInv, Running, Callback
  <2>2. Done \subseteq Done'
    BY <1>7, <2>1, DoneIsReturned DEF Done
  <2>3. CASE StopOnCircular
    BY <2>3 DEF StopOnCircular
  <2>4. CASE WaitForNewDeps
    <3>1. "CIRCULAR_DEP" \notin flags /\ UNCHANGED tasks /\ Stack' = Stack
      BY <2>1, <2>4 DEF WaitForNewDeps, Stack
    <3>2. PICK f, u : IsWalk(graph, tasks, Done, Stack, f, u)
      BY <3>1 DEF Walk
    <3>3. IsWalk(graph, tasks, Done', Stack, f, u)
      BY <2>2, <3>2, DoneWalk, Zenon
    <3>4. QED
      BY <2>1, <3>1, <3>3
  <2>5. CASE StopOnError
    <3>1. /\ "CIRCULAR_DEP" \notin flags /\ UNCHANGED tasks /\ Stack' = dep_chain
          /\ StillFirst(cb.entry)
      BY <2>1, <2>5 DEF StopOnError, Stack
    <3>2. PICK f, u : IsWalk(graph, tasks, Done, dep_chain, f, u)
      BY <1>1, <2>1, <3>1, LeaveStack
    <3>3. IsWalk(graph, tasks, Done', dep_chain, f, u)
      BY <2>2, <3>2, DoneWalk, Zenon
    <3>4. QED
      BY <2>1, <3>1, <3>3
  <2>6. CASE CompleteTask
    <3>1. /\ "CIRCULAR_DEP" \notin flags /\ tasks' = Tail(tasks)
          /\ Stack' = dep_chain /\ StillFirst(cb.entry)
      BY <2>1, <2>6 DEF CompleteTask, RemoveTask, Stack
    <3>2. PICK f, u : /\ IsWalk(graph, tasks, Done, dep_chain, f, u)
                      /\ \A i \in 1 .. Len(dep_chain) : f[i] > 1
      BY <1>1, <2>1, <3>1, LeaveStack
    <3>3. IsWalk(graph, tasks, Done', dep_chain, f, u)
      BY <2>2, <3>2, DoneWalk, Zenon
    <3>4. \E f1, u1 : IsWalk(graph, Tail(tasks), Done', dep_chain, f1, u1)
      BY <1>1, <2>1, <3>2, <3>3, DropWalk, Zenon
    <3>5. QED
      BY <2>1, <3>1, <3>4
  <2>7. QED
    BY <1>7, <2>3, <2>4, <2>5, <2>6 DEF CallbackReturn
<1>8. ASSUME NEW n \in Node, NEW T \in SUBSET Tag, NEW U \in SUBSET Tag,
             CallbackSchedule(n, T, U)
      PROVE  /\ pc' = "callback"
             /\ \E f, u : /\ IsWalk(graph', tasks', Done', Stack', f, u)
                          /\ u[1] = cb'.tag
  <2>1. /\ ScheduleTags(n, T, U) /\ pc = "callback" /\ cb \in Callback
        /\ UNCHANGED <<graph, resolved, pc>> /\ cb.entry \in Entry
        /\ KeysOf(n, T) \subseteq PassPre
    BY <1>8 DEF CallbackSchedule, nodeVars, TypeInv, Running, Callback
  <2>2. cb'.entry = cb.entry /\ cb'.tag = cb.tag
    BY <1>8, <2>1 DEF CallbackSchedule, Callback
  <2>3. "CIRCULAR_DEP" \notin flags /\ UNCHANGED dep_chain
    <3>1. InFront(n, T) \in {0, 1}
      BY DEF InFront
    <3>2. QED
      BY <2>1, <3>1, ScheduledFlags
  <2>4. /\ Stack \in Seq(Entry) /\ Stack # <<>> /\ Stack[1] = cb.entry
    <3> HIDE DEF Entry
    <3>1. QED
      BY <1>1, <2>1, Pushed DEF Stack
  <2>5. PICK f, u : IsWalk(graph, tasks, Done, Stack, f, u) /\ u[1] = cb.tag
    BY <2>1, <2>3 DEF Walk
  <2>6. KeysOf(n, T) \subseteq AskedFrom(graph, Stack[1].node, u[1])
    BY <2>1, <2>4, <2>5, PassPreIsAsked
  <2>7. \E f1 : IsWalk(graph, tasks', Done, Stack, f1, u)
    BY <1>1, <2>1, <2>4, <2>5, <2>6, ScheduleKeepsWalk, Zenon
  <2>8. Stack' = Stack /\ Done' = Done
    BY <2>1, <2>2, <2>3 DEF Stack, Done, KeysOf
  <2>9. QED
    BY <2>1, <2>2, <2>5, <2>7, <2>8
<1>9. ASSUME NewSession
      PROVE  /\ pc' = "caller" /\ dep_chain' = <<>>
             /\ \E f, u : IsWalk(graph', tasks', Done', Stack', f, u)
  <2>1. pc' = "caller" /\ dep_chain' = <<>> /\ Stack' = <<>>
    BY <1>9 DEF NewSession, Stack
  <2>2. QED
    BY <2>1, EmptyWalk
<1>10. ASSUME UNCHANGED vars
       PROVE  /\ pc' = "caller" => dep_chain' = <<>>
              /\ \E f, u : /\ IsWalk(graph', tasks', Done', Stack', f, u)
                           /\ pc' = "callback" => u[1] = cb'.tag
  <2>1. UNCHANGED <<graph, tasks, dep_chain, resolved, flags, pc, cb>>
    BY <1>10 DEF vars
  <2>2. Stack' = Stack /\ Done' = Done
    BY <2>1 DEF Stack, Done, KeysOf
  <2>3. QED
    BY <2>1, <2>2 DEF Walk
<1>11. QED
  BY <1>2, <1>3, <1>4, <1>5, <1>6, <1>7, <1>8, <1>9, <1>10 DEF Next, Resolving

(* The resolver starts with an empty stack.                                *)
LEMMA InitWalk == Init => Walk
<1> SUFFICES ASSUME Init PROVE Walk
  OBVIOUS
<1>1. Stack = <<>> /\ pc = "caller" /\ dep_chain = <<>>
  BY DEF Init, Stack
<1>2. \E f, u : IsWalk(graph, tasks, Done, <<>>, f, u)
  BY EmptyWalk
<1>3. QED
  BY <1>1, <1>2 DEF Walk

(* The walk is an invariant, with what it rests on.                        *)
LEMMA WalkInvariant == Spec => [](TypeInv /\ ArgInv /\ RunInv /\ Walk)
<1>1. Init => TypeInv /\ ArgInv /\ RunInv /\ Walk
  BY InitType, InitArgs, InitRun, InitWalk
<1>2. TypeInv /\ ArgInv /\ RunInv /\ Walk /\ [Next]_vars
        => (TypeInv /\ ArgInv /\ RunInv /\ Walk)'
  BY StepType, ArgStep, RunStep, WalkStep
<1>3. QED
  BY <1>1, <1>2, PTL DEF Spec

(* The chain of waiting tasks is the stack of a depth-first walk of the    *)
(* dependencies: dep_resolver_resolve() finds the innermost waiting task   *)
(* by looking at the head of the chain only, and the report of a cycle     *)
(* names the tasks of the chain as the ones that wait for each other.      *)
THEOREM ChainIsStackAlways == Spec => []ChainIsStack
<1> DEFINE Place(e) == CHOOSE i \in DOMAIN tasks : tasks[i] = e
<1>1. ASSUME TypeInv, ArgInv, RunInv, Walk, "CIRCULAR_DEP" \notin flags
      PROVE  /\ Elements(Stack) \subseteq Elements(tasks)
             /\ \A i, j \in DOMAIN Stack : i < j => Place(Stack[i]) < Place(Stack[j])
             /\ \A j \in DOMAIN Stack : \A p \in DOMAIN tasks :
                  /\ p < Place(Stack[j])
                  /\ j > 1 => p >= Place(Stack[j - 1])
                  => AskedBy(tasks[p], Stack[j])
  <2>1. PICK f, u : IsWalk(graph, tasks, Done, Stack, f, u)
    BY <1>1 DEF Walk
  <2>2. /\ TypeOK /\ ArgsShared
        /\ tasks \in Seq(Entry) /\ DOMAIN tasks = 1 .. Len(tasks)
    BY <1>1, LenProperties DEF TypeInv, TypeOK, ArgInv
  <2>3. Stack \in Seq(Entry) /\ DOMAIN Stack = 1 .. Len(Stack) /\ Len(Stack) \in Nat
    <3>1. dep_chain \in Seq(Entry) /\ (pc = "callback" => cb.entry \in Entry)
      BY <1>1 DEF TypeInv, TypeOK, Running, Callback
    <3> HIDE DEF Entry
    <3>2. Stack \in Seq(Entry)
      BY <3>1, Pushed DEF Stack
    <3>3. QED
      BY <3>2, LenProperties
  <2>4. \A i \in 1 .. Len(Stack) :
          f[i] \in 1 .. Len(tasks) /\ f[i] \in Nat /\ tasks[f[i]] = Stack[i]
    BY <2>1 DEF IsWalk
  <2>5. ASSUME NEW i \in 1 .. Len(Stack)
        PROVE  Place(Stack[i]) = f[i]
    <3>1. \A q \in 1 .. Len(tasks) : tasks[q] = Stack[i] => q = f[i]
      BY <2>2, <2>4, TasksDistinct
    <3>2. QED
      BY <2>2, <2>4, <3>1
  <2> HIDE DEF Place
  <2>6. Elements(Stack) \subseteq Elements(tasks)
    BY <2>2, <2>3, <2>4 DEF Elements
  <2>7. \A i, j \in DOMAIN Stack : i < j => Place(Stack[i]) < Place(Stack[j])
    BY <2>1, <2>3, <2>5 DEF IsWalk, InOrder
  <2>8. ASSUME NEW j \in DOMAIN Stack, NEW p \in DOMAIN tasks,
               p < Place(Stack[j]), j > 1 => p >= Place(Stack[j - 1])
        PROVE  AskedBy(tasks[p], Stack[j])
    <3>1. j \in 1 .. Len(Stack) /\ p \in 1 .. Len(tasks) /\ p < f[j]
      BY <2>2, <2>3, <2>5, <2>8
    <3>2. j = 1 \/ f[j - 1] <= p
      <4>1. CASE j > 1
        <5>1. j - 1 \in 1 .. Len(Stack)
          BY <2>3, <3>1, <4>1
        <5>2. Place(Stack[j - 1]) = f[j - 1] /\ f[j - 1] \in Nat
          BY <2>4, <2>5, <5>1
        <5>3. QED
          BY <2>8, <3>1, <4>1, <5>2
      <4>2. QED
        BY <3>1, <4>1
    <3>3. /\ EntryKeys(tasks[p]) \subseteq AskedFrom(graph, Stack[j].node, u[j])
          /\ u[j] \in Tag
      BY <2>1, <3>1, <3>2 DEF IsWalk, AskedFor
    <3>4. AskedFrom(graph, Stack[j].node, u[j])
            \subseteq UNION {graph.pre[k] : k \in KeysOf(Stack[j].node, Tag)}
      BY <3>3 DEF AskedFrom, KeysOf
    <3>5. QED
      BY <3>3, <3>4 DEF AskedBy
  <2>9. QED
    BY <2>6, <2>7, <2>8
<1>2. TypeInv /\ ArgInv /\ RunInv /\ Walk => ChainIsStack
  BY <1>1 DEF ChainIsStack, Stack
<1>3. QED
  BY <1>2, WalkInvariant, PTL

-----------------------------------------------------------------------------
(***************************************************************************)
(* What the marks of dep_resolver.c on the nodes mean, and so what its     *)
(* verdicts do: a tag is marked as being processed exactly while a task on *)
(* that stack is there for it, so that a request that meets a mark closes  *)
(* a cycle. With this, every step of the resolver is one of the promise of *)
(* DepResolution, or not visible in it.                                    *)
(***************************************************************************)

(* The keys of the tasks of a chain.                                       *)
ChainKeys(c) == UNION {EntryKeys(e) : e \in Elements(c)}

(* The marks that the stack accounts for.                                  *)
Waiting ==
  (ChainKeys(dep_chain) \ resolved)
     \cup (IF pc = "callback" THEN KeysOf(cb.entry.node, cb.tags) ELSE {})

(* Until a session fails, the marks on the nodes are those of the stack.   *)
MarksAreWaiting ==
  "CIRCULAR_DEP" \notin flags /\ ~failed /\ (pc = "done" => ret = "OK")
    => processing = Waiting

(* A cycle is found by a callback, which ends the session, and it is one   *)
(* of the schema.                                                          *)
CircularHasCause ==
  /\ ret = "CIRCULAR_DEPENDENCY" => "CIRCULAR_DEP" \in flags
  /\ "CIRCULAR_DEP" \in flags /\ ~failed =>
       /\ pc = "callback" \/ (pc = "done" /\ ret = "CIRCULAR_DEPENDENCY")
       /\ \E S \in SUBSET Key : IsTrap(graph, S)

VerdictInv == graph \in Graphs /\ MarksAreWaiting /\ CircularHasCause

(* All that the steps below rest on.                                       *)
StackInv ==
  TypeInv /\ Sound /\ ArgInv /\ RunInv /\ Walk

(* The keys of a chain, when a task joins it or leaves it.                 *)
LEMMA PushedKeys ==
  ASSUME NEW c \in Seq(Entry), NEW e \in Entry
  PROVE  ChainKeys(<<e>> \o c) = EntryKeys(e) \cup ChainKeys(c)
<1> DEFINE p == <<e>> \o c
<1> HIDE DEF Entry
<1>1. /\ p \in Seq(Entry) /\ Len(p) = Len(c) + 1 /\ p[1] = e
      /\ \A i \in 1 .. Len(c) : p[i + 1] = c[i]
  BY Pushed
<1>2. Len(c) \in Nat /\ DOMAIN c = 1 .. Len(c) /\ DOMAIN p = 1 .. Len(p)
  BY <1>1, LenProperties
<1> HIDE DEF p
<1>3. Elements(p) = {e} \cup Elements(c)
  <2>1. ASSUME NEW x \in Elements(p) PROVE x \in {e} \cup Elements(c)
    <3>1. PICK i \in 1 .. Len(p) : x = p[i]
      BY <1>2 DEF Elements
    <3>2. CASE i = 1
      BY <1>1, <3>1, <3>2
    <3>3. CASE i # 1
      <4>1. i - 1 \in 1 .. Len(c) /\ (i - 1) + 1 = i
        BY <1>1, <1>2, <3>1, <3>3
      <4>2. x = c[i - 1]
        BY <1>1, <3>1, <4>1
      <4>3. QED
        BY <1>2, <4>1, <4>2 DEF Elements
    <3>4. QED
      BY <3>2, <3>3
  <2>2. ASSUME NEW x \in Elements(c) PROVE x \in Elements(p)
    <3>1. PICK i \in 1 .. Len(c) : x = c[i]
      BY <1>2 DEF Elements
    <3>2. i + 1 \in 1 .. Len(p) /\ p[i + 1] = x
      BY <1>1, <1>2, <3>1
    <3>3. QED
      BY <1>2, <3>2 DEF Elements
  <2>3. 1 \in 1 .. Len(p)
    BY <1>1, <1>2
  <2>4. e \in Elements(p)
    BY <1>1, <1>2, <2>3 DEF Elements
  <2>5. QED
    BY <2>1, <2>2, <2>4
<1>4. ChainKeys(p) = EntryKeys(e) \cup ChainKeys(c)
  BY <1>3 DEF ChainKeys
<1>5. QED
  BY <1>4 DEF p

\* An empty chain waits for nothing.
LEMMA NoKeys ==
  ChainKeys(<<>>) = {}
BY DEF ChainKeys, Elements

(* The task of the loop takes its keys off the chain when it leaves it.    *)
LEMMA PoppedKeys ==
  ASSUME TypeOK, NEW e \in Entry
  PROVE  ChainKeys(PopChain(e)) \cup EntryKeys(e)
           = ChainKeys(dep_chain) \cup EntryKeys(e)
<1>1. dep_chain \in Seq(Entry)
  BY DEF TypeOK
<1>2. CASE dep_chain # <<>> /\ Head(dep_chain) = e
  <2> DEFINE rest == Tail(dep_chain)
  <2> HIDE DEF Entry
  <2>1. rest \in Seq(Entry) /\ dep_chain = <<e>> \o rest
    BY <1>1, <1>2
  <2>2. PopChain(e) = rest
    BY <1>2 DEF PopChain
  <2> HIDE DEF rest
  <2>3. ChainKeys(<<e>> \o rest) = EntryKeys(e) \cup ChainKeys(rest)
    BY <2>1, PushedKeys
  <2>4. QED
    BY <2>1, <2>2, <2>3
<1>3. CASE ~(dep_chain # <<>> /\ Head(dep_chain) = e)
  BY <1>3 DEF PopChain
<1>4. QED
  BY <1>2, <1>3

(* Once no task is left, none is waiting.                                  *)
LEMMA NoTaskWaits ==
  ASSUME StackInv, "CIRCULAR_DEP" \notin flags, pc # "callback", tasks = <<>>
  PROVE  dep_chain = <<>>
<1>1. Stack = dep_chain /\ Len(tasks) = 0
  BY DEF Stack
<1>2. PICK f, u : IsWalk(graph, tasks, Done, dep_chain, f, u)
  BY <1>1 DEF StackInv, Walk
<1>3. 1 \notin 1 .. Len(dep_chain)
  BY <1>1, <1>2 DEF IsWalk
<1>4. dep_chain \in Seq(Entry)
  BY DEF StackInv, TypeInv, TypeOK
<1> HIDE DEF Entry
<1>5. QED
  BY <1>3, <1>4, EmptySeq, LenProperties

(* What a pass waits for and is not resolved yet, it has not gone through. *)
LEMMA AskedIsNotDone ==
  ASSUME StackInv, graph \in Graphs, pc = "callback",
         NEW k \in PassPre, k \notin resolved
  PROVE  k \notin Done
<1>1. /\ cb.entry.node \in Node /\ cb.tag \in Tag /\ cb.tags \subseteq Tag
      /\ cb.entry.node \in graph.whole => cb.tag = 1
  BY DEF StackInv, TypeInv, Running, Callback, Entry, RunInv, RunTags
<1>2. SUFFICES ASSUME NEW t \in Tag, t < cb.tag, k = <<cb.entry.node, t>>
               PROVE  FALSE
  BY DEF Done, KeysOf
<1>3. cb.entry.node \notin graph.whole
  BY <1>1, <1>2 DEF Tag
<1>4. k \in graph.pre[<<cb.entry.node, cb.tag>>]
  BY <1>3 DEF PassPre, PassKeys
<1>5. NoSelfRequest(graph)
  BY GraphsAssumption
<1> DEFINE l == <<cb.entry.node, cb.tag>>
<1>6. l \in Key /\ k \in Key /\ l[1] = k[1] /\ k[2] = t /\ l[2] = cb.tag
  BY <1>1, <1>2 DEF Key
<1>7. k \in graph.pre[l]
  BY <1>4
<1> HIDE DEF l
<1>8. QED
  BY <1>2, <1>5, <1>6, <1>7 DEF NoSelfRequest

(* A request of the callback that meets a mark closes a cycle.             *)
LEMMA MarkMeansTrap ==
  ASSUME StackInv, graph \in Graphs, pc = "callback", "CIRCULAR_DEP" \notin flags,
         processing = Waiting, NEW k \in PassPre, k \in processing, k \notin resolved
  PROVE  \E S \in SUBSET Key : IsTrap(graph, S)
<1>1. /\ tasks \in Seq(Entry) /\ dep_chain \in Seq(Entry) /\ cb.entry \in Entry
      /\ cb.tags \subseteq cb.entry.tags
  BY DEF StackInv, TypeInv, TypeOK, Running, Callback, RunInv, RunTags
<1>2. /\ Stack \in Seq(Entry) /\ Stack[1] = cb.entry
      /\ Len(Stack) = Len(dep_chain) + 1 /\ Len(dep_chain) \in Nat
      /\ \A i \in 1 .. Len(dep_chain) : Stack[i + 1] = dep_chain[i]
      /\ DOMAIN dep_chain = 1 .. Len(dep_chain)
  <2> HIDE DEF Entry
  <2>1. Stack = <<cb.entry>> \o dep_chain
    BY DEF Stack
  <2>2. QED
    BY <1>1, <2>1, Pushed, LenProperties
<1>3. PICK j \in 1 .. Len(Stack) : k \in EntryKeys(Stack[j])
  <2>1. CASE k \in ChainKeys(dep_chain)
    <3>1. PICK i \in 1 .. Len(dep_chain) : k \in EntryKeys(dep_chain[i])
      BY <1>2, <2>1 DEF ChainKeys, Elements
    <3>2. i + 1 \in 1 .. Len(Stack) /\ Stack[i + 1] = dep_chain[i]
      BY <1>2, <3>1
    <3>3. QED
      BY <3>1, <3>2
  <2>2. CASE k \in KeysOf(cb.entry.node, cb.tags)
    <3>1. k \in EntryKeys(Stack[1]) /\ 1 \in 1 .. Len(Stack)
      BY <1>1, <1>2, <2>2 DEF EntryKeys, KeysOf
    <3>2. QED
      BY <3>1
  <2>3. QED
    BY <2>1, <2>2 DEF Waiting
<1>4. PICK t \in Stack[j].tags : k = <<Stack[j].node, t>>
  BY <1>3 DEF EntryKeys, KeysOf
<1>5. PICK f, u : IsWalk(graph, tasks, Done, Stack, f, u) /\ u[1] = cb.tag
  BY DEF StackInv, Walk
<1>6. k \in AskedFrom(graph, Stack[1].node, u[1])
  BY <1>2, <1>5, PassPreIsAsked DEF StackInv
<1>7. k \notin Done
  BY AskedIsNotDone
<1> DEFINE s == Stack
           done == Done
<1>8. /\ s \in Seq(Entry) /\ IsWalk(graph, tasks, done, s, f, u)
      /\ j \in 1 .. Len(s) /\ t \in s[j].tags
      /\ <<s[j].node, t>> \notin done
      /\ <<s[j].node, t>> \in AskedFrom(graph, s[1].node, u[1])
  BY <1>2, <1>4, <1>5, <1>6, <1>7
<1> HIDE DEF s, done, Entry
<1>9. QED
  BY <1>1, <1>8, TrapOfWalk
-----------------------------------------------------------------------------
(* A request either closes a cycle, and then some mark was met, or leaves  *)
(* the chain as it is.                                                     *)
LEMMA ScheduledChain ==
  ASSUME NEW n, NEW T, NEW U, ScheduleTags(n, T, U)
  PROVE  \/ UNCHANGED dep_chain /\ ("CIRCULAR_DEP" \in flags' <=> "CIRCULAR_DEP" \in flags)
         \/ /\ "CIRCULAR_DEP" \in flags'
            /\ \E k \in KeysOf(n, T) : k \in processing /\ k \notin resolved
<1>1. CASE Unresolved(n, T) = {} \/ ~AnyIsProcessing(n, Unresolved(n, T))
  <2>1. UNCHANGED dep_chain /\ (flags' = flags \/ flags' = flags \cup {"NEW_DEPS"})
    <3>1. Unresolved(n, T) = {} => UNCHANGED <<dep_chain, flags>>
      BY ScheduleTagsCases, Zenon
    <3>2. Unresolved(n, T) # {} /\ ~AnyIsProcessing(n, Unresolved(n, T))
            => UNCHANGED dep_chain /\ flags' = flags \cup {"NEW_DEPS"}
      BY ScheduleTagsCases, Zenon
    <3>3. QED
      BY <1>1, <3>1, <3>2
  <2>2. QED
    BY <2>1
<1>2. CASE Unresolved(n, T) # {} /\ AnyIsProcessing(n, Unresolved(n, T))
  <2>1. "CIRCULAR_DEP" \in flags'
    BY <1>2, ScheduleTagsCases
  <2>2. \E k \in KeysOf(n, T) : k \in processing /\ k \notin resolved
    BY <1>2 DEF AnyIsProcessing, Unresolved, KeysOf
  <2>3. QED
    BY <2>1, <2>2
<1>3. QED
  BY <1>1, <1>2

(* The owner's requests meet no mark.                                      *)
LEMMA RootVerdict ==
  ASSUME StackInv, VerdictInv,
         NEW n \in Node, NEW T \in SUBSET Tag, NEW U \in SUBSET Tag,
         ScheduleRoot(n, T, U)
  PROVE  VerdictInv'
<1>1. /\ ScheduleTags(n, T, U) /\ pc = "caller"
      /\ UNCHANGED <<graph, processing, resolved, pc, ret, cb, failed>>
  BY DEF ScheduleRoot, nodeVars
<1>2. CASE failed
  <2>1. "CIRCULAR_DEP" \in flags => "CIRCULAR_DEP" \in flags'
    BY <1>1, ScheduledChain
  <2>2. QED
    BY <1>1, <1>2, <2>1 DEF VerdictInv, MarksAreWaiting, CircularHasCause
<1>3. CASE ~failed
  <2>1. "CIRCULAR_DEP" \notin flags /\ dep_chain = <<>>
    BY <1>1, <1>3 DEF VerdictInv, CircularHasCause, StackInv, Walk
  <2>2. processing = {}
    BY <1>1, <1>3, <2>1, NoKeys DEF VerdictInv, MarksAreWaiting, Waiting
  <2>3. UNCHANGED dep_chain /\ "CIRCULAR_DEP" \notin flags'
    BY <1>1, <2>1, <2>2, ScheduledChain
  <2>4. Waiting' = Waiting
    BY <1>1, <2>3 DEF Waiting, ChainKeys, Elements
  <2>5. QED
    BY <1>1, <1>3, <2>1, <2>3, <2>4
       DEF VerdictInv, MarksAreWaiting, CircularHasCause
<1>4. QED
  BY <1>2, <1>3

(* Those of a callback meet only the marks of the stack.                   *)
LEMMA CallbackVerdict ==
  ASSUME StackInv, VerdictInv,
         NEW n \in Node, NEW T \in SUBSET Tag, NEW U \in SUBSET Tag,
         CallbackSchedule(n, T, U)
  PROVE  VerdictInv'
<1>1. /\ ScheduleTags(n, T, U) /\ pc = "callback" /\ KeysOf(n, T) \subseteq PassPre
      /\ UNCHANGED <<graph, processing, resolved, pc, ret, failed>>
      /\ cb'.entry = cb.entry /\ cb'.tags = cb.tags
  BY DEF CallbackSchedule, nodeVars, ownerVars, StackInv, TypeInv, Running, Callback
<1>2. CASE failed \/ "CIRCULAR_DEP" \in flags
  <2>1. "CIRCULAR_DEP" \in flags => "CIRCULAR_DEP" \in flags'
    BY <1>1, ScheduledChain
  <2>2. QED
    BY <1>1, <1>2, <2>1 DEF VerdictInv, MarksAreWaiting, CircularHasCause
<1>3. CASE ~failed /\ "CIRCULAR_DEP" \notin flags
  <2>1. processing = Waiting
    BY <1>1, <1>3 DEF VerdictInv, MarksAreWaiting
  <2>2. CASE UNCHANGED dep_chain /\ "CIRCULAR_DEP" \notin flags'
    <3>1. Waiting' = Waiting
      BY <1>1, <2>2 DEF Waiting, ChainKeys, Elements
    <3>2. QED
      BY <1>1, <1>3, <2>1, <2>2, <3>1
         DEF VerdictInv, MarksAreWaiting, CircularHasCause
  <2>3. CASE \E k \in KeysOf(n, T) : k \in processing /\ k \notin resolved
    <3>1. PICK k \in PassPre : k \in processing /\ k \notin resolved
      BY <1>1, <2>3
    <3>2. \E S \in SUBSET Key : IsTrap(graph, S)
      BY <1>1, <1>3, <2>1, <3>1, MarkMeansTrap DEF VerdictInv
    <3>3. "CIRCULAR_DEP" \in flags' \/ UNCHANGED dep_chain
      BY <1>1, ScheduledChain
    <3>4. "CIRCULAR_DEP" \notin flags' => Waiting' = Waiting
      BY <1>1, <3>3 DEF Waiting, ChainKeys, Elements
    <3>5. QED
      BY <1>1, <1>3, <2>1, <3>2, <3>4
         DEF VerdictInv, MarksAreWaiting, CircularHasCause
  <2>4. QED
    BY <1>1, <1>3, <2>2, <2>3, ScheduledChain
<1>4. QED
  BY <1>2, <1>3

(* A task that leaves the loop's hands, dropped or run.                    *)
LEMMA LoopVerdict ==
  ASSUME StackInv, VerdictInv, DropTask \/ StartTask
  PROVE  VerdictInv'
<1> DEFINE e == Head(tasks)
<1>1. /\ pc = "loop" /\ tasks # <<>> /\ e \in Entry
      /\ dep_chain' = PopChain(e) /\ flags' = flags \ {"NEW_DEPS"}
      /\ UNCHANGED <<graph, resolved, ret, failed>>
      /\ pc' \in {"loop", "callback"}
  <2>1. /\ pc = "loop" /\ tasks # <<>>
        /\ dep_chain' = PopChain(e) /\ flags' = flags \ {"NEW_DEPS"}
        /\ UNCHANGED <<graph, resolved, ret, failed>>
        /\ pc' \in {"loop", "callback"}
    BY DEF DropTask, StartTask, nodeVars, ownerVars
  <2>2. tasks \in Seq(Entry)
    BY DEF StackInv, TypeInv, TypeOK
  <2> HIDE DEF Entry
  <2>3. Head(tasks) \in Entry
    BY <2>1, <2>2
  <2>4. QED
    BY <2>1, <2>3
<1>2. CASE failed
  BY <1>1, <1>2 DEF VerdictInv, MarksAreWaiting, CircularHasCause
<1>3. CASE ~failed
  <2>1. "CIRCULAR_DEP" \notin flags /\ "CIRCULAR_DEP" \notin flags'
    BY <1>1, <1>3 DEF VerdictInv, CircularHasCause
  <2>2. processing = ChainKeys(dep_chain) \ resolved
    BY <1>1, <1>3, <2>1 DEF VerdictInv, MarksAreWaiting, Waiting
  <2>3. ChainKeys(PopChain(e)) \cup EntryKeys(e) = ChainKeys(dep_chain) \cup EntryKeys(e)
    BY <1>1, PoppedKeys DEF StackInv, TypeInv
  <2>4. ChainKeys(dep_chain)' = ChainKeys(PopChain(e))
    BY <1>1 DEF ChainKeys, Elements
  <2>5. processing' = Waiting'
    <3>1. CASE DropTask
      <4>1. pc' = "loop" /\ UNCHANGED processing /\ EntryKeys(e) \subseteq resolved
        BY <3>1 DEF DropTask, nodeVars, EntryKeys, KeysOf, Unresolved
      <4>2. QED
        BY <1>1, <2>2, <2>3, <2>4, <4>1 DEF Waiting
    <3>2. CASE StartTask
      <4>1. /\ pc' = "callback"
            /\ cb'.entry = e /\ cb'.tags = Unresolved(e.node, e.tags)
            /\ processing' = processing \cup KeysOf(e.node, Unresolved(e.node, e.tags))
        BY <3>2 DEF StartTask, SetProcessing
      <4>2. KeysOf(e.node, Unresolved(e.node, e.tags)) = EntryKeys(e) \ resolved
        BY DEF EntryKeys, KeysOf, Unresolved
      <4>3. Waiting' = (ChainKeys(PopChain(e)) \ resolved) \cup (EntryKeys(e) \ resolved)
        <5>1. Waiting' = (ChainKeys(dep_chain)' \ resolved') \cup KeysOf(cb'.entry.node, cb'.tags)
          BY <4>1 DEF Waiting, KeysOf
        <5>2. QED
          BY <1>1, <2>4, <4>1, <4>2, <5>1
      <4>4. QED
        BY <2>2, <2>3, <4>1, <4>2, <4>3
    <3>3. QED
      BY <3>1, <3>2
  <2>6. QED
    BY <1>1, <1>3, <2>1, <2>5 DEF VerdictInv, MarksAreWaiting, CircularHasCause
<1>4. QED
  BY <1>2, <1>3

(* The callback returns: what it did is no longer marked, nor waiting.     *)
LEMMA ReturnVerdict ==
  ASSUME StackInv, VerdictInv, CallbackReturn
  PROVE  VerdictInv'
<1> DEFINE K == KeysOf(cb.entry.node, ReturnedTags)
           R == KeysOf(cb.entry.node, cb.tags)
<1>1. /\ pc = "callback" /\ UNCHANGED <<graph, failed>>
      /\ resolved' = resolved \cup K /\ processing' = processing \ K
      /\ StopOnCircular \/ WaitForNewDeps \/ StopOnError \/ CompleteTask
  BY DEF CallbackReturn, ClearProcessing, ownerVars
<1>2. CASE StopOnCircular
  <2>1. /\ "CIRCULAR_DEP" \in flags' /\ "CIRCULAR_DEP" \in flags
        /\ pc' = "done" /\ ret' = "CIRCULAR_DEPENDENCY"
    BY <1>2 DEF StopOnCircular
  <2>2. QED
    BY <1>1, <2>1 DEF VerdictInv, MarksAreWaiting, CircularHasCause
<1>3. CASE StopOnError
  <2>1. /\ flags' = flags \cup {"ERROR"} /\ "CIRCULAR_DEP" \notin flags
        /\ pc' = "done" /\ ret' = "ERROR"
    BY <1>3 DEF StopOnError
  <2>2. QED
    BY <1>1, <2>1 DEF VerdictInv, MarksAreWaiting, CircularHasCause
<1>4. CASE WaitForNewDeps \/ CompleteTask
  <2>1. /\ "CIRCULAR_DEP" \notin flags /\ UNCHANGED <<flags, ret>> /\ pc' = "loop"
        /\ ret # "CIRCULAR_DEPENDENCY"
    BY <1>4 DEF WaitForNewDeps, CompleteTask, VerdictInv, CircularHasCause
  <2>2. SUFFICES ASSUME ~failed PROVE processing' = Waiting'
    BY <1>1, <2>1 DEF VerdictInv, MarksAreWaiting, CircularHasCause
  <2>3. processing = (ChainKeys(dep_chain) \ resolved) \cup R
    BY <1>1, <2>1, <2>2 DEF VerdictInv, MarksAreWaiting, Waiting
  <2>4. /\ R \subseteq EntryKeys(cb.entry) /\ R \cap resolved = {}
        /\ EntryKeys(cb.entry) \subseteq resolved \cup R
    BY <1>1 DEF StackInv, RunInv, RunTags, Sound, ContinueIsSafe, EntryKeys, KeysOf
  <2>5. Waiting' = ChainKeys(dep_chain)' \ resolved'
    BY <2>1 DEF Waiting
  <2>6. CASE WaitForNewDeps
    <3>1. dep_chain' = <<cb.entry>> \o dep_chain
      BY <2>6 DEF WaitForNewDeps
    <3>2. dep_chain \in Seq(Entry) /\ cb.entry \in Entry
      BY <1>1 DEF StackInv, TypeInv, TypeOK, Running, Callback
    <3>3. ChainKeys(dep_chain)' = ChainKeys(<<cb.entry>> \o dep_chain)
      BY <3>1 DEF ChainKeys, Elements
    <3>4. ChainKeys(<<cb.entry>> \o dep_chain) = EntryKeys(cb.entry) \cup ChainKeys(dep_chain)
      BY <3>2, PushedKeys
    <3> HIDE DEF K, R
    <3>5. QED
      BY <1>1, <2>3, <2>4, <2>5, <3>3, <3>4
  <2>7. CASE CompleteTask
    <3>1. UNCHANGED dep_chain /\ R \subseteq K
      BY <2>7 DEF CompleteTask, AllReturned, KeysOf
    <3>2. ChainKeys(dep_chain)' = ChainKeys(dep_chain)
      BY <3>1 DEF ChainKeys, Elements
    <3> HIDE DEF K, R
    <3>3. QED
      BY <1>1, <2>3, <2>4, <2>5, <3>1, <3>2
  <2>8. QED
    BY <1>4, <2>6, <2>7
<1>5. QED
  BY <1>1, <1>2, <1>3, <1>4

(* A new resolver on the same nodes: after a success no mark is left.      *)
LEMMA SessionVerdict ==
  ASSUME StackInv, VerdictInv, NewSession
  PROVE  VerdictInv'
<1>1. /\ pc = "done" /\ pc' = "caller" /\ flags' = {} /\ dep_chain' = <<>>
      /\ ret' = "OK" /\ failed' = (failed \/ ret # "OK")
      /\ UNCHANGED <<graph, processing, resolved>>
  BY DEF NewSession, nodeVars
<1>2. SUFFICES ASSUME ~failed' PROVE processing' = Waiting'
  BY <1>1 DEF VerdictInv, MarksAreWaiting, CircularHasCause
<1>3. ~failed /\ ret = "OK" /\ "CIRCULAR_DEP" \notin flags
  BY <1>1, <1>2 DEF VerdictInv, CircularHasCause
<1>4. dep_chain = <<>>
  <2>1. tasks = <<>>
    BY <1>1, <1>3 DEF StackInv, ArgInv, ErrorKept
  <2>2. QED
    BY <1>1, <1>3, <2>1, NoTaskWaits
<1>5. processing = {}
  BY <1>1, <1>3, <1>4, NoKeys DEF VerdictInv, MarksAreWaiting, Waiting
<1>6. ChainKeys(dep_chain)' = {}
  BY <1>1, NoKeys DEF ChainKeys, Elements
<1>7. QED
  BY <1>1, <1>5, <1>6 DEF Waiting

(* Every step keeps the meaning of the marks.                              *)
LEMMA VerdictStep == StackInv /\ VerdictInv /\ [Next]_vars => VerdictInv'
<1> SUFFICES ASSUME StackInv, VerdictInv, [Next]_vars PROVE VerdictInv'
  OBVIOUS
<1>1. CASE CallResolve \/ Finish \/ CallbackNextTag \/ UNCHANGED vars
  <2>1. /\ UNCHANGED <<graph, processing, resolved, dep_chain, flags, failed>>
        /\ pc = "callback" => /\ pc' = "callback"
                              /\ cb'.entry = cb.entry /\ cb'.tags = cb.tags
        /\ pc' = "callback" => pc = "callback"
        /\ ret' = ret \/ ret' = "OK"
        /\ pc = "done" => pc' = "done" /\ ret' = ret
    BY <1>1 DEF CallResolve, Finish, CallbackNextTag, vars, nodeVars, drVars,
                ownerVars, StackInv, TypeInv, Running, Callback
  <2>2. "CIRCULAR_DEP" \in flags /\ ~failed =>
          /\ pc' = "callback" \/ (pc' = "done" /\ ret' = "CIRCULAR_DEPENDENCY")
          /\ \E S \in SUBSET Key : IsTrap(graph, S)
    BY <2>1 DEF VerdictInv, CircularHasCause
  <2>3. pc # "done" /\ pc' = "done" => "CIRCULAR_DEP" \notin flags \/ failed
    BY <1>1 DEF VerdictInv, CircularHasCause, CallResolve, Finish, CallbackNextTag, vars
  <2>4. Waiting' = Waiting
    BY <2>1 DEF Waiting, ChainKeys, Elements, KeysOf
  <2>5. QED
    BY <2>1, <2>2, <2>3, <2>4 DEF VerdictInv, MarksAreWaiting, CircularHasCause
<1>2. QED
  BY <1>1, RootVerdict, CallbackVerdict, LoopVerdict, ReturnVerdict, SessionVerdict
     DEF Next, Resolving

(* The resolver starts with no mark.                                       *)
LEMMA InitVerdict == Init => VerdictInv
<1> SUFFICES ASSUME Init PROVE VerdictInv
  OBVIOUS
<1>1. /\ graph \in Graphs /\ processing = {} /\ dep_chain = <<>> /\ flags = {}
      /\ pc = "caller" /\ ret = "OK"
  BY DEF Init
<1>2. Waiting = {}
  BY <1>1, NoKeys DEF Waiting
<1>3. QED
  BY <1>1, <1>2 DEF VerdictInv, MarksAreWaiting, CircularHasCause

(* The invariant the verdicts rest on.                                     *)
LEMMA VerdictInvariant == Spec => [](StackInv /\ VerdictInv)
<1>1. Spec => []VerdictInv
  <2>1. Spec => []StackInv
    BY SoundInvariant, WalkInvariant, PTL DEF StackInv
  <2>2. QED
    BY <2>1, InitVerdict, VerdictStep, PTL DEF Spec
<1>2. QED
  BY <1>1, SoundInvariant, WalkInvariant, PTL DEF StackInv

(* While nothing loops, the processing_tags of the nodes are exactly what  *)
(* the tasks on the chain and the running one still have to resolve: none  *)
(* is forgotten when a task is done, and none is cleared too early.        *)
THEOREM ProcessingIsChainAlways == Spec => []ProcessingIsChain
<1>1. VerdictInv => ProcessingIsChain
  BY DEF VerdictInv, MarksAreWaiting, ProcessingIsChain, Waiting, ChainKeys
<1>2. QED
  BY <1>1, VerdictInvariant, PTL

(* DEP_RESOLVER_CIRCULAR_DEPENDENCY is returned only for a schema whose    *)
(* dependencies have a cycle, until a session has failed: a key that is    *)
(* only waiting for its turn is never taken for one.                       *)
THEOREM CircularIsRealAlways == Spec => []CircularIsReal
<1>1. VerdictInv => CircularIsReal
  BY DEF VerdictInv, CircularHasCause, CircularIsReal
<1>2. QED
  BY <1>1, VerdictInvariant, PTL
-----------------------------------------------------------------------------
(* The promise is about the same keys and dependencies.                    *)
LEMMA SameGraph ==
  /\ Abstract!Key = Key
  /\ \A g, k : Abstract!Needs(g, k) = Needs(g, k)
  /\ \A g, S : Abstract!IsTrap(g, S) <=> IsTrap(g, S)
<1>1. Abstract!Tag = Tag
  BY DEF Abstract!Tag, Tag
<1>2. Abstract!Key = Key
  BY <1>1 DEF Abstract!Key, Key
<1>3. \A g, k : Abstract!Needs(g, k) = Needs(g, k)
  BY <1>1 DEF Abstract!Needs, Needs
<1>4. \A g, k : Abstract!WaitsFor(g, k) = WaitsFor(g, k)
  BY <1>1, <1>3 DEF Abstract!WaitsFor, WaitsFor
<1>5. \A g, S : Abstract!IsTrap(g, S) <=> IsTrap(g, S)
  BY <1>4 DEF Abstract!IsTrap, IsTrap
<1>6. QED
  BY <1>2, <1>3, <1>5

(* What the callback returns has no semantic error.                        *)
LEMMA ReturnedAreGood ==
  ASSUME StackInv, CallbackReturn
  PROVE  KeysOf(cb.entry.node, ReturnedTags) \cap graph.bad = {}
<1>1. /\ pc = "callback" /\ cb.tag \in Tag
      /\ cb.tags \subseteq Tag /\ cb.entry.node \in Node
      /\ cb.entry.node \notin graph.whole =>
           \A t \in Tag : t < cb.tag => <<cb.entry.node, t>> \notin graph.bad
  BY DEF CallbackReturn, StackInv, TypeInv, Running, Callback, Entry, RunInv, RunTags
<1>2. CASE cb.entry.node \in graph.whole
  BY <1>2 DEF ReturnedTags, PassDone, PassKeys, KeysOf
<1>3. CASE cb.entry.node \notin graph.whole
  <2>1. ASSUME NEW t \in ReturnedTags
        PROVE  <<cb.entry.node, t>> \notin graph.bad
    <3>1. t \in Tag /\ (t < cb.tag \/ (t = cb.tag /\ PassDone))
      BY <1>1, <1>3, NTagsAssumption DEF ReturnedTags, Tag
    <3>2. CASE t < cb.tag
      BY <1>1, <1>3, <3>1, <3>2
    <3>3. CASE t = cb.tag /\ PassDone
      BY <1>3, <3>3 DEF PassDone, PassKeys
    <3>4. QED
      BY <3>1, <3>2, <3>3
  <2>2. QED
    BY <2>1 DEF KeysOf
<1>4. QED
  BY <1>2, <1>3

(* An error is reported only when the pass that ended met a semantic error *)
(* of the schema: no task was put in front, and what the pass asked for is *)
(* there.                                                                  *)
LEMMA ErrorHasCause ==
  ASSUME StackInv, CallbackReturn, StopOnError
  PROVE  graph.bad # {}
<1>1. /\ pc = "callback" /\ CallbackMayReturn /\ "CIRCULAR_DEP" \notin flags
      /\ StillFirst(cb.entry) /\ ~AllReturned /\ "ERROR" \notin flags
      /\ cb.tags \subseteq Tag /\ cb.tag \in Tag
  BY DEF CallbackReturn, StopOnError, StackInv, RunInv, TypeInv, Running, Callback
<1>2. "NEW_DEPS" \notin flags
  BY <1>1, RunningIsFirst DEF StackInv, ArgInv
<1>3. StatusOf(flags) = "OK"
  BY <1>1, <1>2 DEF StatusOf
<1>4. ~(PassDone /\ LastPass)
  <2> SUFFICES ASSUME PassDone, LastPass PROVE AllReturned
    BY <1>1
  <2>1. CASE cb.entry.node \in graph.whole
    BY <2>1 DEF AllReturned, ReturnedTags
  <2>2. CASE cb.entry.node \notin graph.whole
    <3>1. \A t \in cb.tags : t <= cb.tag
      BY <2>2 DEF LastPass
    <3>2. cb.tags \subseteq 1 .. cb.tag
      BY <1>1, <3>1, NTagsAssumption DEF Tag
    <3>3. QED
      BY <2>2, <3>2 DEF AllReturned, ReturnedTags
  <2>3. QED
    BY <2>1, <2>2
<1>5. PassKeys \cap graph.bad # {}
  BY <1>1, <1>3, <1>4 DEF CallbackMayReturn
<1>6. QED
  BY <1>5

(* What the callback returns is resolved as the promise says.              *)
LEMMA ReturnResolves ==
  ASSUME StackInv, graph \in Graphs, CallbackReturn
  PROVE  \E K \in SUBSET Key : Abstract!ResolveKeys(K)
<1> DEFINE n == cb.entry.node
           K == KeysOf(n, ReturnedTags)
<1>1. /\ n \in Node /\ ReturnedTags \in SUBSET Tag
      /\ resolved' = resolved \cup K
  <2>1. /\ cb.entry.node \in Node /\ cb.tag \in Tag /\ cb.tags \subseteq Tag
    BY DEF CallbackReturn, StackInv, TypeInv, Running, Callback, Entry
  <2>2. QED
    BY <2>1, NTagsAssumption DEF CallbackReturn, ReturnedTags, Tag
<1>2. K \in SUBSET Key
  BY <1>1, KeysOfType
<1>3. K \cap graph.bad = {}
  BY ReturnedAreGood
<1>4. \A k, l \in K : k[1] = l[1]
  BY DEF KeysOf
<1>5. ASSUME NEW k \in K
      PROVE  graph.pre[k] \subseteq resolved /\ Needs(graph, k) \subseteq resolved \cup K
  <2>1. PICK t \in ReturnedTags : k = <<n, t>>
    BY DEF KeysOf
  <2>2. Needs(graph, k) \subseteq resolved \cup KeysOf(n, {u \in ReturnedTags : u < t})
    BY <2>1, ReturnInOrder DEF StackInv, Sound
  <2>3. graph.pre[k] \subseteq Needs(graph, k)
    BY DEF Needs
  <2>4. graph.pre[k] \cap KeysOf(n, {u \in ReturnedTags : u < t}) = {}
    <3>1. ASSUME NEW u \in ReturnedTags, u < t
          PROVE  <<n, u>> \notin graph.pre[k]
      <4>1. NoSelfRequest(graph)
        BY GraphsAssumption
      <4> DEFINE l == <<n, u>>
      <4>2. /\ k \in Key /\ l \in Key /\ k[1] = l[1] /\ l[2] < k[2]
        BY <1>1, <2>1, <3>1 DEF Key
      <4> HIDE DEF l
      <4>3. l \notin graph.pre[k]
        BY <4>1, <4>2 DEF NoSelfRequest
      <4>4. QED
        BY <4>3 DEF l
    <3>2. QED
      BY <3>1 DEF KeysOf
  <2>5. KeysOf(n, {u \in ReturnedTags : u < t}) \subseteq K
    BY DEF KeysOf
  <2> HIDE DEF K, n
  <2>6. QED
    BY <2>2, <2>3, <2>4, <2>5
<1> HIDE DEF K
<1>6. Abstract!ResolveKeys(K)
  BY <1>1, <1>3, <1>4, <1>5, SameGraph DEF Abstract!ResolveKeys
<1>7. QED
  BY <1>2, <1>6

(* The verdicts are the promised ones.                                     *)
LEMMA ReturnIsResolve ==
  ASSUME StackInv, VerdictInv, CallbackReturn
  PROVE  Abstract!Resolve
<1>1. /\ pc = "callback" /\ UNCHANGED <<graph, wanted, failed>>
      /\ StopOnCircular \/ WaitForNewDeps \/ StopOnError \/ CompleteTask
  BY DEF CallbackReturn, ownerVars
<1>2. outcome = "running"
  BY <1>1 DEF outcome
<1>3. \E K \in SUBSET Abstract!Key : Abstract!ResolveKeys(K)
  BY ReturnResolves, SameGraph DEF VerdictInv
<1>4. Abstract!Verdict(outcome') /\ outcome' \in {"running", "ok", "circular", "error"}
  <2>1. CASE StopOnCircular
    <3>1. outcome' = "circular"
      BY <2>1 DEF StopOnCircular, outcome
    <3>2. failed \/ \E S \in SUBSET Key : IsTrap(graph, S)
      BY <2>1 DEF StopOnCircular, VerdictInv, CircularHasCause
    <3>3. QED
      BY <3>1, <3>2, SameGraph DEF Abstract!Verdict
  <2>2. CASE StopOnError
    <3>1. outcome' = "error" /\ graph.bad # {}
      BY <2>2, ErrorHasCause DEF StopOnError, outcome
    <3>2. QED
      BY <3>1 DEF Abstract!Verdict
  <2>3. CASE WaitForNewDeps \/ CompleteTask
    <3>1. outcome' = "running"
      BY <2>3 DEF WaitForNewDeps, CompleteTask, outcome
    <3>2. QED
      BY <3>1 DEF Abstract!Verdict
  <2>4. QED
    BY <1>1, <2>1, <2>2, <2>3
<1>5. QED
  BY <1>1, <1>2, <1>3, <1>4 DEF Abstract!Resolve

(* Success means that everything asked for is resolved.                    *)
LEMMA FinishIsResolve ==
  ASSUME StackInv, Finish
  PROVE  Abstract!Resolve
<1>1. /\ outcome = "running" /\ outcome' = "ok"
      /\ tasks = <<>> /\ UNCHANGED <<graph, wanted, resolved, failed>>
  BY DEF Finish, outcome, nodeVars, ownerVars
<1>2. wanted \subseteq resolved
  BY <1>1 DEF StackInv, Sound, NothingForgotten, Elements
<1>3. Abstract!ResolveKeys({})
  BY <1>1 DEF Abstract!ResolveKeys
<1>4. Abstract!Verdict("ok")
  BY <1>1, <1>2 DEF Abstract!Verdict
<1>5. QED
  BY <1>1, <1>3, <1>4 DEF Abstract!Resolve

(* A request asks for keys.                                                *)
LEMMA ScheduleIsAsk ==
  ASSUME pc # "done", UNCHANGED <<pc, ret, graph, resolved, failed>>,
         NEW n \in Node, NEW T \in SUBSET Tag, NEW U \in SUBSET Tag,
         ScheduleTags(n, T, U)
  PROVE  Abstract!Ask
<1>1. wanted' = wanted \cup KeysOf(n, T \cup U)
  BY ScheduleTagsWanted
<1>2. T \cup U \in SUBSET Tag
  OBVIOUS
<1>3. KeysOf(n, T \cup U) \in SUBSET Abstract!Key
  BY <1>2, KeysOfType, SameGraph
<1>4. outcome = "running" /\ outcome' = outcome
  BY DEF outcome
<1>5. QED
  BY <1>1, <1>3, <1>4 DEF Abstract!Ask

(* Every step is one of the promise, or changes nothing it speaks of.      *)
LEMMA RefinementStep ==
  StackInv /\ VerdictInv /\ [Next]_vars => [Abstract!Next]_(Abstract!vars)
<1> SUFFICES ASSUME StackInv, VerdictInv, [Next]_vars
             PROVE  Abstract!Ask \/ Abstract!Resolve \/ Abstract!Reopen
                      \/ UNCHANGED <<graph, wanted, resolved, outcome, failed>>
  BY DEF Abstract!Next, Abstract!vars
<1>1. ASSUME NEW n \in Node, NEW T \in SUBSET Tag, NEW U \in SUBSET Tag,
             ScheduleRoot(n, T, U) \/ CallbackSchedule(n, T, U)
      PROVE  Abstract!Ask
  <2>1. /\ ScheduleTags(n, T, U) /\ pc # "done"
        /\ UNCHANGED <<pc, ret, graph, resolved, failed>>
    BY <1>1 DEF ScheduleRoot, CallbackSchedule, nodeVars, ownerVars
  <2>2. QED
    BY <2>1, ScheduleIsAsk
<1>2. CASE CallResolve \/ DropTask \/ StartTask \/ CallbackNextTag \/ UNCHANGED vars
  <2>1. UNCHANGED <<graph, wanted, resolved, failed, ret>>
        /\ (pc = "done" <=> pc' = "done")
    BY <1>2 DEF CallResolve, DropTask, StartTask, CallbackNextTag, vars,
                nodeVars, drVars, ownerVars
  <2>2. QED
    BY <2>1 DEF outcome
<1>3. CASE NewSession
  <2>1. /\ outcome # "running" /\ outcome' = "running" /\ wanted' = {}
        /\ failed' = (failed \/ ret # "OK") /\ (outcome = "ok" <=> ret = "OK")
        /\ UNCHANGED <<graph, resolved>>
    BY <1>3 DEF NewSession, outcome, nodeVars
  <2>2. Abstract!Reopen
    BY <2>1 DEF Abstract!Reopen
  <2>3. QED
    BY <2>2
<1>4. QED
  BY <1>1, <1>2, <1>3, FinishIsResolve, ReturnIsResolve DEF Next, Resolving

(* dep_resolver.c keeps the promise of DepResolution: keys are resolved in *)
(* the order of their dependencies and never with a semantic error,        *)
(* success means that all that was asked for is resolved, and a failure    *)
(* has its cause in the schema.                                            *)
THEOREM ResolverImplementsDepResolution == Spec => ImplementsDepResolution
<1>1. Init => Abstract!Init
  BY DEF Init, Abstract!Init, outcome
<1>2. QED
  BY <1>1, RefinementStep, VerdictInvariant, PTL
     DEF Spec, ImplementsDepResolution, Abstract!Spec
=============================================================================

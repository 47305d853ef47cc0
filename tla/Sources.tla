------------------------------ MODULE Sources ------------------------------
(***************************************************************************)
(* Data sources (api/data_source.c): files, which stay mapped in a cache   *)
(* once opened, other files' descriptors, and memory.  All but memory of   *)
(* the library's own survive their last user.                              *)
(***************************************************************************)
EXTENDS Integers, Sequences, SequencesExt, FiniteSetsExt

CONSTANTS
    Source,     \* the identities of data sources, a range of integers from 1
    Path,       \* the paths of files
    MaxChanges, \* how often a run changes files
    Unmapped    \* a file that has changed may not be mapped again

ASSUME SourceAssumption ==
    /\ Source = 1 .. Cardinality(Source) /\ IsFiniteSet(Source)
    /\ MaxChanges \in Nat /\ Unmapped \in BOOLEAN

VARIABLES
    src,        \* what is known of each data source
    cache,      \* the files that are cached, the last one used first
    file,       \* the contents of each file, a number that grows
    opened      \* the data source that the last call opened, and its path

svars == <<src, cache, file, opened>>

None == 0
Lost == "lost"  \* a path in memory that was freed
Gone == -1      \* the contents of a file that was closed

NoSource == [kind |-> "free", use |-> 0, path |-> Lost, data |-> Gone]
SourceRecord ==
    [kind : {"free", "file", "external", "memory"}, use : Nat,
     path : Path \cup {Lost}, data : Int]

Fresh(ss) == {s \in Source : ss[s].kind = "free"}

NewSource(ss, kind, path, data) ==
    [ss EXCEPT ![Min(Fresh(ss))] = [kind |-> kind, use |-> 1, path |-> path, data |-> data]]

AcquireSource(ss, s) == [ss EXCEPT ![s].use = @ + 1]

\* Mutant: a file is freed with its last user, and its data with it.
MutReleaseSource(ss, s) ==
    IF s = None THEN ss
    ELSE IF ss[s].use = 1 THEN [ss EXCEPT ![s] = NoSource]
    ELSE [ss EXCEPT ![s].use = @ - 1]
\* bitpunch_data_source_release()
ReleaseSource(ss, s) ==
    IF s = None THEN ss
    ELSE IF ss[s].use = 1 /\ ss[s].kind = "memory" THEN [ss EXCEPT ![s] = NoSource]
    ELSE [ss EXCEPT ![s].use = @ - 1]

\* What strcmp() finds equal to a path as it goes through the cache: the first
\* file of that path, or one before whose path is read after it was freed.
Matches(ss, files, p) ==
    LET valid == SelectInSeq(files, LAMBDA s : ss[s].path = p)
        last  == IF valid = 0 THEN Len(files) ELSE valid - 1
    IN  {files[i] : i \in {j \in 1 .. last : ss[files[j]].path = Lost}}
        \cup {IF valid = 0 THEN None ELSE files[valid]}

\* A file of the cache is moved to its front.
ToFront(files, m) ==
    LET k == CHOOSE i \in DOMAIN files : files[i] = m
    IN  [i \in DOMAIN files |->
            IF i = 1 THEN m ELSE IF i <= k THEN files[i - 1] ELSE files[i]]

\* bitpunch_data_source_create_from_file_path(): the data sources afterwards, the
\* cache, and the one that is opened, if it is; m is what is found.
Opening(ss, files, p, m) ==
    IF m # None
    THEN [src |-> AcquireSource(ss, m), cache |-> ToFront(files, m), ds |-> m]
    ELSE IF Fresh(ss) = {} THEN [src |-> ss, cache |-> files, ds |-> None]
    ELSE LET s == Min(Fresh(ss))
         IN  [src |-> NewSource(ss, "file", p, file[p]), cache |-> <<s>> \o files, ds |-> s]

SourcesInit ==
    /\ src = [s \in Source |-> NoSource]
    /\ cache = <<>>
    /\ file = [p \in Path |-> 0]
    /\ opened = [ds |-> None, path |-> Lost]

\* bitpunch_data_source_notify_file_change(), once the file has changed: it is
\* closed, which frees its path, and mapped again, if it can be.  A path that was
\* freed may be found again: the outcomes are those where the heap survives it.
Refreshed(m, data) ==
    IF m = None THEN src
    ELSE [src EXCEPT ![m].path = Lost, ![m].data = data]
Unread == IF Unmapped THEN {Gone} ELSE {}
ChangeFile(p) ==
    /\ file[p] < MaxChanges
    /\ file' = [file EXCEPT ![p] = @ + 1]
    /\ \E m \in Matches(src, cache, p), data \in {file'[p]} \cup Unread : src' = Refreshed(m, data)
    /\ opened' = [ds |-> None, path |-> Lost]
    /\ UNCHANGED cache

-----------------------------------------------------------------------------
\* A file that is opened has the contents that its last change was notified with
\* (tests/unit/pytest/filters/test_file.py:16), if it could be mapped.
OpenedIsCurrent ==
    opened.ds # None /\ src[opened.ds].data # Gone =>
        src[opened.ds].data = file[opened.path]
=============================================================================

---------------------------- MODULE MCReferences ----------------------------
(* Items of a structure, and of bytes that a filter reads.                   *)
EXTENDS References, TLC

MCBox == 1 .. 4
MCDeepBox == 1 .. 5
MCSource == 1 .. 2
MCChains == {<<"object">>, <<"bytes", "buffer">>}
MCDeepChains == {<<"object">>, <<"bytes", "buffer", "object">>}

\* The objects of the client are alike.
Alike == Permutations(Handle)

\* All that the calls depend on, and the properties but OpenedIsCurrent: not the file
\* that the last one opened.
Seen == <<boxes, handles, views, board, src, cache, file>>
=============================================================================

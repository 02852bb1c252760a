---------------------------- MODULE MCDataStore ----------------------------
(* A run and a command of one pipeline, or the command outside of any: then  *)
(* namespace default and key k of the run read like key 7-k of the command,  *)
(* and share a file in the filesystem store.                                 *)
EXTENDS DataStore, TLC

CONSTANTS run, command, vmap, vtext

Kinds == (run :> "run") @@ (command :> "command")
OnePipeline == [j \in {run, command} |-> <<"7">>]
TwoPipelines == (run :> <<"7">>) @@ (command :> <<>>)
Either == {OnePipeline, TwoPipelines}
Keys == {<<"k">>, <<"7", "k">>}
Namespaces == {<<>>, <<"default">>}

\* A map, which only a run can store, and a text that the resolver of a run refuses.
Resolution == (vmap :> vmap) @@ (vtext :> Unresolved)

Types == {"filesystem", "gitlab", "memory", "floppy"}
TTLs == {NoTTL, BadTTL, 1}
=============================================================================

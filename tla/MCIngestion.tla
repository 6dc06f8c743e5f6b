---------------------------- MODULE MCIngestion ----------------------------
(* Instances of Ingestion for TLC: trackers, commands and symmetry.        *)
EXTENDS Ingestion, TLC

CONSTANTS c1, c2

Full(n, c) == [cycle_id |-> n, connection |-> c, changed |-> {}]
Incremental(n, c, S) == [cycle_id |-> n, connection |-> c, changed |-> S]

(* Two connections whose trackers number their items alike.                *)
SharedItems == c1 :> {1, 2} @@ c2 :> {1, 2}
MixedCommands == {Full(1, c1), Incremental(2, c1, {1}), Incremental(3, c1, {2}),
                  Full(4, c2)}

TwoThenNone == c1 :> 2 @@ c2 :> 0

(* One connection is read in full only; the other is a GitHub repository   *)
(* with issues on two pages, whose webhooks report one of them.            *)
SyncCommands == {Full(1, c1), Full(2, c1), Full(3, c2), Incremental(4, c2, {1})}
OneEach == c1 :> 1 @@ c2 :> 1
MemoryAndGitHub == c1 :> "memory" @@ c2 :> "github"
BothMemory == c1 :> "memory" @@ c2 :> "memory"

IngesterSymmetry == Permutations(Ingesters)
=============================================================================

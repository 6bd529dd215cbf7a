--------------------------- MODULE MCRecoveryPass ---------------------------
EXTENDS RecoveryPass

(* leased: a malformed lease; delayed: two shards of a bucket that is past     *)
(* once the clock moves, one never readable and one not at first; tmp: a file  *)
(* of this boot, never readable, and one of an earlier boot; receipts: two to  *)
(* compact and then to delete; ready: a lease that expires when the clock      *)
(* moves and a corrupt one.                                                    *)
SomeFiles ==
    [leased |-> {<<0, 0, 0, 1>>}, delayed |-> {<<0, 0, 1>>, <<0, 1, 1>>},
     tmp |-> {<<1, 0, 1>>, <<2, 0, 1>>}, receipts |-> {<<0, 0, 1>>, <<0, 0, 2>>}]
NoDirs == [h \in Roots |-> {}]
SomeKinds ==
    [h \in Roots |-> [e \in SomeFiles[h] |-> IF h = "leased" THEN "malformed" ELSE "job"]]
SomeBroken ==
    (<<"delayed", <<0, 0>>>> :> "read") @@ (<<"delayed", <<0, 1>>>> :> "open") @@
    (<<"tmp", <<1, 0>>>> :> "open")
SomeFragile == DOMAIN SomeBroken
SomeMendable == {<<"delayed", <<0, 1>>>>}
SomeContested == {<<"delayed", <<0, 1, 1>>>>}
SomeReady == << <<"late", "corrupt">> >>
\* An empty shard of this boot's temporary files, and one made with its bucket
\* that never got a receipt: neither is pruned.
SomeDirs == [NoDirs EXCEPT !.tmp = {<<1, 1>>}, !.receipts = {<<0, 1>>}]

(* Two receipts in the first and the last of four shards, and nothing else.    *)
SparseFiles == [h \in Roots |-> IF h = "receipts" THEN {<<0, 0, 1>>, <<0, 3, 1>>} ELSE {}]
SparseDirs == [NoDirs EXCEPT !.receipts = {<<0, 1>>, <<0, 2>>}]
SparseKinds == [h \in Roots |-> [e \in SparseFiles[h] |-> "job"]]
NoneBroken == [f \in {} |-> "no"]
NoReady == << <<>> >>
=============================================================================

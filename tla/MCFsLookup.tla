------------------------------- MODULE MCFsLookup -------------------------------
(* FsLookup for TLC: the requests and jobs are Me's; the keys fall into as    *)
(* many shards as there are, one after the other.                             *)
EXTENDS FsLookup

OwnedByMe == [x \in Reqs \cup Jobs |-> Me]
Spread == CHOOSE f \in [Keys -> Shards] :
            \A s, t \in Shards : Cardinality({k \in Keys : f[k] = s})
                                   <= Cardinality({k \in Keys : f[k] = t}) + 1
===============================================================================

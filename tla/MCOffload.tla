------------------------------ MODULE MCOffload ------------------------------
\* Values for the constants of Offload.
EXTENDS Offload, TLC

\* A prompt of a chunk and a half each.
ThreeTokens == [r \in Requests |-> 3]

\* One prompt ends inside the first chunk, the other after it: the second request
\* can load what the first stored when it stopped.
UnevenPrompts == [r \in Requests |-> IF r = CHOOSE q \in Requests : TRUE THEN 1 ELSE 3]

RequestSymmetry == Permutations(Requests)
=============================================================================

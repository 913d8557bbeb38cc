----------------------------- MODULE MCKeyQuota -----------------------------
(* Three overlapping requests on a bucket of three units, two of them the bulk
   share, with an estimate above the capacity and answers below and above it;
   the settings may drop the token limit meanwhile. *)
EXTENDS KeyQuota, TLC

CONSTANTS r1, r2, r3

Limit(tpm) == [RPM |-> 2, TPM |-> tpm, Concurrency |-> 2, XUReserve |-> 1]
HotLimits == {Limit(3), Limit(2)}
Three == {r1, r2, r3}
Sym == Permutations(Three)
=============================================================================

------------------------------ MODULE MCIdentity ------------------------------
(* The identity endpoints with two accounts, two verifying and two resetting  *)
(* requests, two browsers, and three sign-ins that share a bucket.            *)
EXTENDS Identity, TLC

(* One failure per identifier, two requests per address. *)
BucketLimits == [identity |-> 1, address |-> 2]

(* The parts share their model values, so that one permutation serves each. *)
Interchangeable ==
    Permutations(Accounts) \cup Permutations(Phones) \cup Permutations(Verifiers)

(* Bound: of the reset tokens, the blocks, and the sessions that hold a login *)
(* within another, two at a time.                                             *)
Doubled == {b \in Browsers : None \notin {session[b].full, session[b].partial}}

BlocksMade == MapThenSumSet(LAMBDA u : blocks[u], Users)

Rarities == Len(tokens) + Cardinality(Doubled) + BlocksMade <= 2

(* Bound: a visitor signs in, on the browsers of the others too, while none   *)
(* resets a password and none is blocked; it has no authenticator, an Admin   *)
(* may demand one.                                                            *)
Visitor == CHOOSE u \in Users : TRUE

Visits(b) ==
    Visitor \in {p.user : p \in {session[b].full, session[b].partial, signing[b]} \ {None}}

OneVisitor ==
    /\ device[Visitor] = "none" /\ blocks[Visitor] = 0 /\ asking[Visitor] = 0
    /\ \A i \in DOMAIN tokens : tokens[i].user # Visitor
    /\ flag[Visitor] \/ (\E b \in Browsers : Visits(b))
           => /\ tokens = <<>> /\ BlocksMade = 0 /\ Cardinality(Doubled) <= 1
              /\ \A u \in Users : asking[u] = 0

BoundedSpec ==
    InitOfAll /\ [][NextOfAny /\ (Rarities /\ OneVisitor)']_<<part, vars, signInVars, bucketVars>>

=============================================================================

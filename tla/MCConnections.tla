--------------------------- MODULE MCConnections ----------------------------
(* Two processes answering one holder and one candidate: an enrollment, a      *)
(* session that may be vetoed or cancelled, a poll, closure, and another key's *)
(* claim to the same enrollment id.                                            *)
EXTENDS Connections, TLC

Offer(key) ==
    [id |-> "e", sequence |-> 1, terms |-> "t", key |-> key, faults |-> {},
     createdAt |-> 0, expiresAt |-> 3,
     policy |-> [factor |-> "f", cooldown |-> 1, lifetime |-> 3, attempts |-> 2]]

MCOffers == {Offer("holder"), Offer("another")}

Request(id, evidence) ==
    [id |-> id, enrollment |-> "e", sequence |-> 1, terms |-> "t", destination |-> id,
     evidence |-> evidence, faults |-> {}, requestedAt |-> 0, expiresAt |-> 3]

MCSessionRequests == {Request("s1", <<"f">>)}

Signed(operation, requestId, target, by, signer, issuedAt) ==
    [operation |-> operation, requestId |-> requestId, target |-> target, by |-> by,
     issuedAt |-> issuedAt, signer |-> signer]

MCSignedRequests ==
    {Signed("read-recovery", "r1", "s1", "none", "s1", 2),
     Signed("cancel-recovery", "r2", "s1", "holder", "holder", 1),
     Signed("cancel-recovery", "r3", "s1", "candidate", "s1", 2),
     Signed("close-enrollment", "r5", "e", "none", "holder", 2)}

\* Processes, invitations and challenges are interchangeable.
Symmetry == Permutations(Connections) \cup Permutations(Codes) \cup Permutations(Challenges)
=============================================================================

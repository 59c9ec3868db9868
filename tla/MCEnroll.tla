------------------------------ MODULE MCEnroll ------------------------------
(* Enrollment under contention: two invitations, three challenges, and offers  *)
(* that compete for one enrollment id; the holder also ends custody.           *)
EXTENDS StoreSafety, TLC

Offer(id, sequence, key, attempts) ==
    [id |-> id, sequence |-> sequence, terms |-> "t", key |-> key, faults |-> {},
     createdAt |-> 0, expiresAt |-> 3,
     policy |-> [factor |-> "f", cooldown |-> 1, lifetime |-> 2,
                 attempts |-> attempts]]

\* Alice's enrollment, her rotation attempt, another key's claim to her id, a
\* second enrollment of hers, and offers a check refuses.
MCOffers ==
    {Offer("e1", 1, "alice", 1),
     Offer("e1", 2, "alice", 1),
     Offer("e1", 1, "mallory", 1),
     Offer("e2", 1, "alice", 1),
     [Offer("e2", 1, "alice", 1) EXCEPT !.faults = {"artifact_bound"}],
     Offer("e2", 1, "alice", 9)}

MCSessionRequests == {}

Signed(operation, requestId, signer, issuedAt) ==
    [operation |-> operation, requestId |-> requestId, target |-> "e1", by |-> "none",
     issuedAt |-> issuedAt, signer |-> signer]

MCSignedRequests ==
    {Signed("revoke-enrollment", "r1", "alice", 1),
     Signed("close-enrollment", "r2", "alice", 2),
     Signed("revoke-enrollment", "r3", "alice", 2),
     Signed("close-enrollment", "r1", "mallory", 1)}

\* Codes and challenges are only compared; random_id draws any of them.
Symmetry == Permutations(Codes) \cup Permutations(Challenges)
=============================================================================

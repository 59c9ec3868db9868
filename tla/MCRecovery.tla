----------------------------- MODULE MCRecovery -----------------------------
(* One enrollment and the recoveries tried on it: polls, vetoes, cancellations *)
(* and the end of custody, in every order and at every clock reading.          *)
EXTENDS StoreCustody, StoreTrustee

Offer ==
    [id |-> "e", sequence |-> 1, terms |-> "t", key |-> "holder", faults |-> {},
     createdAt |-> 0, expiresAt |-> 5,
     policy |-> [factor |-> "f", cooldown |-> 2, lifetime |-> 4,
                 attempts |-> 2]]

MCOffers == {Offer}

Request(id, destination, evidence, requestedAt, expiresAt) ==
    [id |-> id, enrollment |-> "e", sequence |-> 1, terms |-> "t",
     destination |-> destination, evidence |-> evidence, faults |-> {},
     requestedAt |-> requestedAt, expiresAt |-> expiresAt]

\* A session that may be backdated within the skew, one that runs to the
\* enrollment's expiry, and one without the factor: three tries, two attempts.
MCSessionRequests ==
    {Request("s1", "d1", <<"f">>, 0, 4),
     Request("s2", "d2", <<"f">>, 1, 5),
     Request("s3", "d3", <<>>, 1, 4)}

Poll(requestId, target, signer, issuedAt) ==
    [operation |-> "read-recovery", requestId |-> requestId, target |-> target,
     by |-> "none", issuedAt |-> issuedAt, signer |-> signer]

Cancel(requestId, by, target, signer, issuedAt) ==
    [operation |-> "cancel-recovery", requestId |-> requestId, target |-> target,
     by |-> by, issuedAt |-> issuedAt, signer |-> signer]

End(operation, requestId, issuedAt) ==
    [operation |-> operation, requestId |-> requestId, target |-> "e",
     by |-> "none", issuedAt |-> issuedAt, signer |-> "holder"]

MCSignedRequests ==
    {Poll("p1", "s1", "d1", 3), Poll("p2", "s1", "d1", 4),
     Poll("p1", "s2", "d2", 4),
     Cancel("q1", "holder", "s1", "holder", 2),
     Cancel("q1", "candidate", "s1", "d1", 4),
     Cancel("q2", "candidate", "s1", "d1", 4),
     Cancel("q3", "holder", "s1", "holder", 5),
     Cancel("q4", "holder", "s3", "holder", 2),
     End("revoke-enrollment", "q5", 3)}
=============================================================================

------------------------------ MODULE MCReplay ------------------------------
(* Signed reads delivered again and again over a clock long enough for their   *)
(* nonces to be purged, some reusing one request id.                           *)
EXTENDS Replay

Offer ==
    [id |-> "e", sequence |-> 1, terms |-> "t", key |-> "holder", faults |-> {},
     createdAt |-> 0, expiresAt |-> 9,
     policy |-> [factor |-> "f", cooldown |-> 2, lifetime |-> 8,
                 attempts |-> 1]]

MCOffers == {Offer}

MCSessionRequests ==
    {[id |-> "s", enrollment |-> "e", sequence |-> 1, terms |-> "t",
      destination |-> "d", evidence |-> <<"f">>, faults |-> {},
      requestedAt |-> 1, expiresAt |-> 8]}

Poll(operation, requestId, target, signer, issuedAt) ==
    [operation |-> operation, requestId |-> requestId, target |-> target,
     by |-> "none", issuedAt |-> issuedAt, signer |-> signer]

MCSignedRequests ==
    {Poll("read-recovery", "p1", "s", "d", 2),
     Poll("read-recovery", "p1", "s", "d", 5),
     Poll("read-recovery", "p2", "s", "d", 3),
     Poll("read-enrollment", "p1", "e", "holder", 2),
     Poll("read-enrollment", "p2", "e", "holder", 4)}
=============================================================================

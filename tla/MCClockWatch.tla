---------------------------- MODULE MCClockWatch ----------------------------
(* One enrollment that expires with its only session, polled after expiry and  *)
(* again on a clock set back.                                                  *)
EXTENDS ClockWatch

MCOffers ==
    {[id |-> "e", sequence |-> 1, terms |-> "t", key |-> "holder", faults |-> {},
      createdAt |-> 0, expiresAt |-> 3,
      policy |-> [factor |-> "f", cooldown |-> 1, lifetime |-> 3,
                  attempts |-> 1]]}

MCSessionRequests ==
    {[id |-> "s", enrollment |-> "e", sequence |-> 1, terms |-> "t",
      destination |-> "d", evidence |-> <<"f">>, faults |-> {},
      requestedAt |-> 0, expiresAt |-> 3]}

MCSignedRequests ==
    {[operation |-> "read-recovery", requestId |-> r, target |-> "s", by |-> "none",
      issuedAt |-> 3, signer |-> "d"] : r \in {"p1", "p2"}}
=============================================================================

--------------------------- MODULE MCSessionHook ---------------------------
(* A small instance of SessionHook.                                        *)
EXTENDS SessionHook

CONSTANTS zero, acct, own, agent, usdc, shop, other, none

MCAddresses == {zero, acct, own, agent, usdc, shop, other}

ConfigOf(lane, per, total, after, until, batch, policy) ==
    LET c == [policyHash |-> policy, account |-> acct, sessionKey |-> agent,
              token |-> usdc, allowedTarget |-> usdc, allowedRecipient |-> shop,
              allowedSelector |-> "transfer", nonceKey |-> lane,
              maxPerTransfer |-> per, maxTotalSpend |-> total,
              validAfter |-> after, validUntil |-> until, allowBatch |-> batch,
              revoked |-> FALSE]
    IN  [f \in DOMAIN c \cup {"sessionId"} |->
            IF f = "sessionId" THEN SessionIdOf(c) ELSE c[f]]

\* Sessions for lane 1, which is open first, and one for lane 2, which is
\* open later.  B is offered under the session id of A only.
A == ConfigOf(1, 2, 3, 0, 1, TRUE, "p1")
B == ConfigOf(1, 1, 2, 0, 1, FALSE, "p1")
C == ConfigOf(2, 1, 1, 1, 2, FALSE, "p2")

Signed == {Authorization(c) : c \in {A, B, C}}

Pay(r, n) ==
    [target |-> usdc, value |-> 0, selector |-> "transfer",
     recipient |-> r, amount |-> n]

Single(leaf) == [mode |-> "single", leaves |-> <<leaf>>]

Batch(leaves) == [mode |-> "batch", leaves |-> leaves]

\* Payments of one and two units, a batch, and frames that preCheck refuses.
MCExecutions ==
    {Single(Pay(shop, 1)), Single(Pay(shop, 2)), Single(Pay(other, 1)),
     Single([Pay(shop, 1) EXCEPT !.target = other]),
     Single([Pay(shop, 1) EXCEPT !.selector = "approve"]),
     [Single(Pay(shop, 1)) EXCEPT !.mode = "delegate"],
     Batch(<<Pay(shop, 1), Pay(shop, 1)>>), Batch(<<>>)}

MCOffered ==
    {A, C, [B EXCEPT !.sessionId = A.sessionId], [A EXCEPT !.revoked = TRUE]}
=============================================================================

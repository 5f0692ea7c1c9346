-------------------------- MODULE MCAuthorization --------------------------
(* A small instance of Authorization.                                      *)
EXTENDS Authorization, TLC

CONSTANTS agent, account, usdc, vendor, n7, n8

Ask(amount, per, total) ==
    [agent |-> agent, account |-> account, chain |-> PolicyChain, token |-> usdc,
     recipient |-> vendor, domain |-> "vendor", amount |-> amount,
     maxPer |-> per, maxTotal |-> total, allowBatch |-> FALSE]

\* Two requests that differ in a limit only, one of them with either key.
Low == Ask(2, 2, 2)
High == Ask(2, 2, 3)
MCAsks == {[intent |-> Low, key |-> "k1"], [intent |-> High, key |-> "k1"],
           [intent |-> High, key |-> "k2"]}

Allowing(agents) ==
    [agents |-> agents, tokens |-> {usdc}, blocked |-> {}, addresses |-> {usdc}]

MCNonceValue == (n7 :> 7) @@ (n8 :> 8)

MCWindows == {[validAfter |-> 1, validUntil |-> 2], [validAfter |-> 2, validUntil |-> 2]}

Production ==
    [local |-> FALSE, apiKey |-> "own", chain |-> {PolicyChain},
     adapter |-> "0x1", hook |-> "0x2", signerKey |-> "key", receiptKey |-> "key",
     allowNoop |-> TRUE, watcher |-> TRUE]

\* A local process with another adapter and another chain, since its CHAIN_ID is
\* not a number, which may run without a store, and production processes that
\* must not start.
Local == [Production EXCEPT !.local = TRUE, !.apiKey = NoKey, !.chain = {},
                            !.adapter = "0x3", !.receiptKey = NoKey]

Unfit ==
    {[Production EXCEPT !.apiKey = NoKey],
     [Production EXCEPT !.apiKey = DevAPIKey],
     [Production EXCEPT !.adapter = ZeroAddress],
     [Production EXCEPT !.hook = NoAddress],
     [Production EXCEPT !.signerKey = NoKey]}

\* The agent may be struck off the list, or put on it.
MCDeployments ==
    {[env |-> e, policy |-> Allowing({agent})] : e \in {Production, Local} \cup Unfit}
    \cup {[env |-> Production, policy |-> Allowing({})]}

Order(who, intent, amount, time) ==
    [agent |-> who, intent |-> intent, amount |-> amount, time |-> time]

\* Payments for either intent, one of them above a limit, one of them late, and
\* one by the agent that the store which keeps nothing knows.
MCOrders ==
    {Order(agent, Low, 2, 2), Order(agent, High, 2, 2), Order(agent, High, 3, 2),
     Order(agent, High, 2, 3), Order(NoopAgent, Low, 2, 2)}
=============================================================================

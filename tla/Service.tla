------------------------------- MODULE Service -------------------------------
(***************************************************************************)
(* How a SignGate process comes up and whom it serves: the configuration   *)
(* read from the environment, its validation, the choice of the store      *)
(* (signgate/cmd/api/main.go, signgate/internal/config), the API key and   *)
(* the EIP-712 signer (signgate/internal/api/auth.go, internal/eip712).    *)
(*                                                                         *)
(* An environment is a record of the variables that matter here.  Keys and *)
(* addresses are written without blanks around them.                       *)
(***************************************************************************)
EXTENDS Integers

NoKey == ""
DevAPIKey == "dev-local-signgate-key"
NoAddress == ""
ZeroAddress == "0x0000000000000000000000000000000000000000"

\* The chain is {CHAIN_ID}, and {} for a text that is not a number.
Environment(addresses) ==
    [local : BOOLEAN, apiKey : STRING, chain : SUBSET Int,
     adapter : addresses, hook : addresses, signerKey : STRING, receiptKey : STRING,
     allowNoop : BOOLEAN, watcher : BOOLEAN]

\* A local process that was given no API key gets the one of the examples.
\* The error of parsing CHAIN_ID is ignored, and the chain is 0 then.
Load(env) ==
    [env EXCEPT !.apiKey = IF @ = NoKey /\ env.local THEN DevAPIKey ELSE @,
                !.chain = IF @ = {} THEN 0 ELSE CHOOSE c \in @ : TRUE]

isZeroAddress(a) == a \in {NoAddress, ZeroAddress}

\* What a process must be given before it starts.  Any chain will do.
Validate(c) ==
    /\ c.apiKey # NoKey
    /\ ~c.local =>
          /\ c.apiKey # DevAPIKey
          /\ c.signerKey # NoKey
          /\ ~isZeroAddress(c.adapter)
          /\ c.watcher => ~isZeroAddress(c.hook)

\* The stores a process may get; without one it does not start.
Repositories(c) ==
    {"postgres"} \cup (IF c.local /\ c.allowNoop THEN {"noop"} ELSE {})

\* A request with the API key that was sent in either header.
requireAPIKey(c, sent) == c.apiKey # NoKey /\ sent = c.apiKey

CosigningConfigured(c) == c.adapter # NoAddress /\ c.signerKey # NoKey

\* The chain and the adapter that a process signs for.
Domain(c) == [chain |-> c.chain, adapter |-> c.adapter]

\* What the digest of the EIP-712 signature covers.  The domain is that of the
\* process; the nonce key is a number.
TypedData(c, cfg, nonce) ==
    [domain |-> Domain(c), account |-> cfg.account, nonce |-> nonce,
     token |-> cfg.token, recipient |-> cfg.recipient, maxPer |-> cfg.maxPer,
     maxTotal |-> cfg.maxTotal, window |-> cfg.window,
     allowBatch |-> cfg.allowBatch, policy |-> cfg.policy]

\* A signed receipt; the payload is hashed as it is.
SignReceipt(c, payload) == [key |-> c.receiptKey, payload |-> payload]

\* The signature, by the key and of the digest.
SignRailguard(c, cfg, nonce) == [key |-> c.signerKey, digest |-> TypedData(c, cfg, nonce)]
=============================================================================

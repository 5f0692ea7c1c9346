------------------------------- MODULE Policy -------------------------------
(***************************************************************************)
(* The business policy, policy/railguard.rego, and its evaluation          *)
(* (signgate/internal/policy): a function of one payment.                  *)
(*                                                                         *)
(* A field of the input that may be undefined, and a text that may not be  *)
(* a number, is a set: {} if it is undefined or no number, {v} if it is v. *)
(* A Rego condition on an undefined field does not hold, and its negation  *)
(* with "not" does.  Texts that differ only in letter case or in spaces    *)
(* around them are one value: Evaluate normalises them.                    *)
(***************************************************************************)
EXTENDS Integers

\* The chain the policy is for, the highest risk score and the selector.
PolicyChain == 84532
MaxRiskScore == 80
TransferSelector == "transfer"
BlockedDomain == "blocked.vendor"

Optional(S) == {{}} \cup {{v} : v \in S}

\* A limit that is not given is the empty text.
Limits(numbers) == [given : BOOLEAN, value : Optional(numbers)]

NoLimit == [given |-> FALSE, value |-> {}]
LimitOf(n) == [given |-> TRUE, value |-> {n}]

\* The physical facts of an execution, none of which evaluateIntent sends.
NoExecution == [target |-> {}, selector |-> {}, isBatch |-> FALSE,
                allowBatch |-> {}, validNow |-> {}]

NoRisk == [score |-> 0, sanctionsHit |-> FALSE]

\* A policy is the agents and tokens it lists, and of the tokens those that
\* look like an address.
TokenAllowed(pol, in) ==
    \/ in.token \in pol.tokens
    \/ /\ in.agent \in pol.agents
       /\ in.token \in pol.addresses \ pol.blocked

\* Is the amount above the limit, where both are numbers?
Exceeds(in, limit) ==
    limit.given /\ \E a \in in.amount, l \in limit.value : a > l

Within(in, limit) ==
    \/ ~limit.given
    \/ \E a \in in.amount, l \in limit.value : a <= l

\* Mutant of TargetDiffers: execution_constraints_ok is relied upon.
TargetDiffersNever(in) == FALSE

TargetDiffers(in) == \E t \in in.execution.target : t # in.token

\* Mutant of UnknownAgent: the rule is missing.
UnknownAgentNever(pol, in) == FALSE

UnknownAgent(pol, in) == in.agent \notin pol.agents

Reason(holds, code) == IF holds THEN {code} ELSE {}

BlockReasons(pol, in) ==
    UNION {
        Reason(in.risk.sanctionsHit, "SANCTIONS_HIT"),
        Reason(in.chain # PolicyChain, "WRONG_CHAIN"),
        Reason(UnknownAgent(pol, in), "UNKNOWN_AGENT"),
        Reason(~TokenAllowed(pol, in), "TOKEN_NOT_ALLOWED"),
        Reason(in.risk.score > MaxRiskScore, "HIGH_RISK_RECIPIENT"),
        Reason(in.domain = BlockedDomain, "UNKNOWN_DOMAIN"),
        Reason(Exceeds(in, in.maxPer), "AMOUNT_EXCEEDS_MAX_PER_TRANSFER"),
        Reason(Exceeds(in, in.maxTotal), "AMOUNT_EXCEEDS_MAX_TOTAL_SPEND"),
        Reason(TargetDiffers(in), "TARGET_NOT_EQUAL_TOKEN"),
        Reason(\E s \in in.execution.selector : s # TransferSelector,
               "UNSUPPORTED_SELECTOR"),
        Reason(in.execution.isBatch /\ FALSE \in in.execution.allowBatch,
               "BATCH_NOT_ALLOWED"),
        Reason(FALSE \in in.execution.validNow, "SESSION_NOT_VALID") }

\* One of these is enough.
ExecutionConstraintsOk(in) ==
    \/ in.token \in in.execution.target
    \/ TransferSelector \in in.execution.selector
    \/ ~in.execution.isBatch
    \/ TRUE \in in.execution.allowBatch
    \/ TRUE \in in.execution.validNow

Allowed(pol, in) ==
    /\ BlockReasons(pol, in) = {}
    /\ in.chain = PolicyChain
    /\ in.agent \in pol.agents
    /\ TokenAllowed(pol, in)
    /\ ~in.risk.sanctionsHit /\ in.risk.score <= MaxRiskScore
    /\ in.domain # BlockedDomain
    /\ \E a \in in.amount : a > 0
    /\ Within(in, in.maxPer) /\ Within(in, in.maxTotal)
    /\ ExecutionConstraintsOk(in)

Decision(pol, in) == IF Allowed(pol, in) THEN "ALLOW" ELSE "BLOCK"

ReasonCodes(pol, in) ==
    CASE BlockReasons(pol, in) # {} -> BlockReasons(pol, in)
      [] Allowed(pol, in)           -> {"WITHIN_LIMITS"}
      [] OTHER                      -> {"POLICY_DENIED"}

\* Evaluate decodes the result into fields named decision and reasonCodes;
\* the policy names them decision and reason_codes.
Evaluate(pol, in) ==
    [decision |-> Decision(pol, in), reasons |-> {}, policy |-> pol]

-----------------------------------------------------------------------------
(* What the execution hook and the adapter would say to the same facts.    *)

\* All physical facts are known.
Described(in) ==
    /\ in.execution.target # {} /\ in.execution.selector # {}
    /\ in.execution.allowBatch # {} /\ in.execution.validNow # {}
    /\ in.maxPer.given /\ in.maxTotal.given

HookAllows(in) ==
    /\ in.execution.target = {in.token}
    /\ in.execution.selector = {TransferSelector}
    /\ in.execution.isBatch => in.execution.allowBatch = {TRUE}
    /\ in.execution.validNow = {TRUE}
    /\ \E a \in in.amount, per \in in.maxPer.value, total \in in.maxTotal.value :
          a <= per /\ a <= total
=============================================================================

------------------------------ MODULE MCPolicy ------------------------------
(* The policy on every input over small sets of values.                    *)
EXTENDS Policy

VARIABLES input, result

vars == <<input, result>>

CONSTANTS known, other, listed, plain, blocked, malformed

policy == [agents |-> {known}, tokens |-> {listed}, blocked |-> {blocked},
           addresses |-> {listed, plain, blocked}]

Amounts == Optional({-1, 0, 1, 2})

Executions ==
    [target : Optional({listed, plain}), selector : Optional({TransferSelector, "other"}),
     isBatch : BOOLEAN, allowBatch : Optional(BOOLEAN), validNow : Optional(BOOLEAN)]

\* Payments that differ in who pays what, and payments that differ in how.
Inputs ==
    [agent : {known, other}, token : {listed, plain, blocked, malformed},
     chain : {PolicyChain, 1}, domain : {BlockedDomain, "vendor"},
     risk : {NoRisk, [score |-> MaxRiskScore, sanctionsHit |-> FALSE],
             [score |-> MaxRiskScore + 1, sanctionsHit |-> FALSE],
             [score |-> 0, sanctionsHit |-> TRUE]},
     amount : {{}, {0}, {1}}, maxPer : {NoLimit, LimitOf(1)}, maxTotal : {NoLimit},
     execution : {NoExecution}]
    \cup
    [agent : {known}, token : {listed, plain}, chain : {PolicyChain},
     domain : {"vendor"}, risk : {NoRisk}, amount : Amounts,
     maxPer : {NoLimit, LimitOf(1), [given |-> TRUE, value |-> {}]},
     maxTotal : {NoLimit, LimitOf(1), LimitOf(2)},
     execution : Executions]

None == [decision |-> "none"]

Init == input \in Inputs /\ result = None

Next ==
    /\ result = None
    /\ result' = Evaluate(policy, input)
    /\ UNCHANGED input

Spec == Init /\ [][Next]_vars

-----------------------------------------------------------------------------

\* The policy may be stricter than the hook and is never looser: where all
\* physical facts are given, it allows only what the hook would let through.
NotLooserThanHook ==
    result.decision = "ALLOW" /\ Described(input) => HookAllows(input)

Numeric(limit) == limit.given => limit.value # {}

\* A payment is blocked for a reason: with a positive amount and numeric
\* limits it is allowed exactly if no reason speaks against it, except for a
\* batch about which nothing else is known, which no rule names.
BlockedForAReason ==
    (/\ result # None
     /\ \E a \in input.amount : a > 0
     /\ Numeric(input.maxPer) /\ Numeric(input.maxTotal)
     /\ input.execution # [NoExecution EXCEPT !.isBatch = TRUE])
    => (result.decision = "ALLOW" <=> BlockReasons(policy, input) = {})
=============================================================================

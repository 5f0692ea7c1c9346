---------------------------- MODULE PolicyProofs ----------------------------
(***************************************************************************)
(* Proofs about the policy, for every policy and every well-formed input,  *)
(* and from them about the runs of MCPolicy.                               *)
(***************************************************************************)
EXTENDS MCPolicy, TLAPS

AtMostOne(S) == \A x, y \in S : x = y

\* What the proofs need to know of an input: a field has at most one value,
\* and what is compared is a number.
WellFormed(in) ==
    /\ in.amount \subseteq Int /\ AtMostOne(in.amount)
    /\ \A limit \in {in.maxPer, in.maxTotal} :
          limit.value \subseteq Int /\ AtMostOne(limit.value) /\ limit.given \in BOOLEAN
    /\ in.risk.score \in Int /\ in.risk.sanctionsHit \in BOOLEAN
    /\ in.execution \in [target : {in.execution.target}, selector : {in.execution.selector},
                         isBatch : BOOLEAN, allowBatch : SUBSET BOOLEAN,
                         validNow : SUBSET BOOLEAN]

\* No reason is given exactly if no rule of block_reasons holds.
NoRule(pol, in) ==
    /\ ~in.risk.sanctionsHit /\ in.chain = PolicyChain /\ ~UnknownAgent(pol, in)
    /\ TokenAllowed(pol, in) /\ ~(in.risk.score > MaxRiskScore) /\ in.domain # BlockedDomain
    /\ ~Exceeds(in, in.maxPer) /\ ~Exceeds(in, in.maxTotal) /\ ~TargetDiffers(in)
    /\ ~(\E s \in in.execution.selector : s # TransferSelector)
    /\ ~(in.execution.isBatch /\ FALSE \in in.execution.allowBatch)
    /\ ~(FALSE \in in.execution.validNow)

LEMMA ReasonsAreRules ==
    ASSUME NEW pol, NEW in PROVE BlockReasons(pol, in) = {} <=> NoRule(pol, in)
<1> DEFINE sanctions == Reason(in.risk.sanctionsHit, "SANCTIONS_HIT")
<1> DEFINE chain == Reason(in.chain # PolicyChain, "WRONG_CHAIN")
<1> DEFINE agent == Reason(UnknownAgent(pol, in), "UNKNOWN_AGENT")
<1> DEFINE token == Reason(~TokenAllowed(pol, in), "TOKEN_NOT_ALLOWED")
<1> DEFINE risk == Reason(in.risk.score > MaxRiskScore, "HIGH_RISK_RECIPIENT")
<1> DEFINE domain == Reason(in.domain = BlockedDomain, "UNKNOWN_DOMAIN")
<1> DEFINE per == Reason(Exceeds(in, in.maxPer), "AMOUNT_EXCEEDS_MAX_PER_TRANSFER")
<1> DEFINE total == Reason(Exceeds(in, in.maxTotal), "AMOUNT_EXCEEDS_MAX_TOTAL_SPEND")
<1> DEFINE target == Reason(TargetDiffers(in), "TARGET_NOT_EQUAL_TOKEN")
<1> DEFINE selector == Reason(\E s \in in.execution.selector : s # TransferSelector, "UNSUPPORTED_SELECTOR")
<1> DEFINE batch == Reason(in.execution.isBatch /\ FALSE \in in.execution.allowBatch, "BATCH_NOT_ALLOWED")
<1> DEFINE window == Reason(FALSE \in in.execution.validNow, "SESSION_NOT_VALID")
<1>1. BlockReasons(pol, in) =
        UNION {sanctions, chain, agent, token, risk, domain, per, total, target, selector,
               batch, window}
  BY DEF BlockReasons
<1>2. /\ sanctions = {} <=> ~in.risk.sanctionsHit
      /\ chain = {} <=> in.chain = PolicyChain
      /\ agent = {} <=> ~UnknownAgent(pol, in)
      /\ token = {} <=> TokenAllowed(pol, in)
      /\ risk = {} <=> ~(in.risk.score > MaxRiskScore)
      /\ domain = {} <=> in.domain # BlockedDomain
      /\ per = {} <=> ~Exceeds(in, in.maxPer)
      /\ total = {} <=> ~Exceeds(in, in.maxTotal)
      /\ target = {} <=> ~TargetDiffers(in)
      /\ selector = {} <=> ~(\E s \in in.execution.selector : s # TransferSelector)
      /\ batch = {} <=> ~(in.execution.isBatch /\ FALSE \in in.execution.allowBatch)
      /\ window = {} <=> ~(FALSE \in in.execution.validNow)
  BY Zenon DEF Reason
<1> HIDE DEF sanctions, chain, agent, token, risk, domain, per, total, target, selector, batch, window
<1>3. BlockReasons(pol, in) = {} <=>
        /\ sanctions = {} /\ chain = {} /\ agent = {} /\ token = {} /\ risk = {} /\ domain = {}
        /\ per = {} /\ total = {} /\ target = {} /\ selector = {} /\ batch = {} /\ window = {}
  BY <1>1
<1> QED BY <1>2, <1>3 DEF NoRule

\* Whatever a policy lists, and for every payment: where all physical facts are
\* known the policy allows only what the hook lets through, although
\* execution_constraints_ok is satisfied by a single one of them.
THEOREM AllowedByHook ==
    ASSUME NEW pol, NEW in, WellFormed(in), Allowed(pol, in), Described(in)
    PROVE  HookAllows(in)
<1>0. NoRule(pol, in)   BY ReasonsAreRules DEF Allowed
<1>1. in.execution.target = {in.token}   BY <1>0 DEF NoRule, TargetDiffers, Described
<1>2. in.execution.selector = {TransferSelector}   BY <1>0 DEF NoRule, Described
<1>3. /\ in.execution.isBatch => in.execution.allowBatch = {TRUE}
      /\ in.execution.validNow = {TRUE}
  <2>1. in.execution.allowBatch \subseteq BOOLEAN /\ in.execution.validNow \subseteq BOOLEAN
    BY DEF WellFormed
  <2> QED BY <1>0, <2>1 DEF NoRule, Described
<1>4. \E a \in in.amount, per \in in.maxPer.value, total \in in.maxTotal.value :
         a <= per /\ a <= total
  BY DEF Allowed, Within, Described, WellFormed, AtMostOne
<1> QED BY <1>1, <1>2, <1>3, <1>4 DEF HookAllows

\* Whatever a policy lists, and for every payment: with a positive amount and
\* numeric limits, a payment against which no rule of block_reasons speaks is
\* allowed, but for the batch about which nothing else is known.
THEOREM NoReasonAllows ==
    ASSUME NEW pol, NEW in, WellFormed(in), \E a \in in.amount : a > 0,
           Numeric(in.maxPer), Numeric(in.maxTotal),
           in.execution # [NoExecution EXCEPT !.isBatch = TRUE],
           BlockReasons(pol, in) = {}
    PROVE  Allowed(pol, in)
<1>0. NoRule(pol, in)   BY ReasonsAreRules
<1>1. ASSUME NEW limit \in {in.maxPer, in.maxTotal} PROVE Within(in, limit)
  <2>1. /\ in.amount \subseteq Int /\ limit.value \subseteq Int /\ in.amount # {}
        /\ limit.given => limit.value # {}
        /\ ~(limit.given /\ \E a \in in.amount, l \in limit.value : a > l)
    BY <1>0, <1>1 DEF WellFormed, Numeric, NoRule, Exceeds
  <2> QED BY <2>1 DEF Within
<1>2. ExecutionConstraintsOk(in)
  <2> SUFFICES ASSUME ~ExecutionConstraintsOk(in) PROVE FALSE   OBVIOUS
  <2>1. /\ in.execution.isBatch \in BOOLEAN /\ in.execution.allowBatch \subseteq BOOLEAN
        /\ in.execution.validNow \subseteq BOOLEAN
    BY DEF WellFormed
  <2>2. /\ in.execution.target = {} /\ in.execution.selector = {} /\ in.execution.isBatch = TRUE
        /\ in.execution.allowBatch = {} /\ in.execution.validNow = {}
    <3>1. in.execution.target = {} /\ in.execution.selector = {}
      BY <1>0 DEF NoRule, TargetDiffers, ExecutionConstraintsOk
    <3>2. in.execution.isBatch = TRUE   BY <2>1 DEF ExecutionConstraintsOk
    <3>3. in.execution.allowBatch = {} /\ in.execution.validNow = {}
      BY <1>0, <2>1, <3>2 DEF NoRule, ExecutionConstraintsOk
    <3> QED BY <3>1, <3>2, <3>3
  <2>3. PICK base : base = NoExecution   OBVIOUS
  <2>4. base \in [target : {{}}, selector : {{}}, isBatch : BOOLEAN, allowBatch : {{}},
                  validNow : {{}}]
    BY <2>3 DEF NoExecution
  <2>5. in.execution = [base EXCEPT !.isBatch = TRUE]   BY <2>2, <2>4 DEF WellFormed
  <2> QED BY <2>3, <2>5
<1>3. in.risk.score <= MaxRiskScore   BY <1>0 DEF NoRule, WellFormed, MaxRiskScore
<1> QED BY <1>0, <1>1, <1>2, <1>3 DEF Allowed, NoRule, UnknownAgent

LEMMA OptionalOne == ASSUME NEW S, NEW x \in Optional(S) PROVE x \subseteq S /\ AtMostOne(x)
BY DEF Optional, AtMostOne

LEMMA InputsWellFormed == ASSUME NEW in \in Inputs PROVE WellFormed(in)
<1>1. in.amount \subseteq Int /\ AtMostOne(in.amount)
  BY OptionalOne DEF Inputs, Amounts, AtMostOne
<1>2. ASSUME NEW limit \in {in.maxPer, in.maxTotal}
      PROVE  limit.value \subseteq Int /\ AtMostOne(limit.value) /\ limit.given \in BOOLEAN
  <2>1. limit \in {NoLimit, LimitOf(1), LimitOf(2), [given |-> TRUE, value |-> {}]}
    BY <1>2 DEF Inputs
  <2>2. limit.given \in BOOLEAN /\ limit.value \in {{}, {1}, {2}}
    <3>1. CASE limit = NoLimit   BY <3>1 DEF NoLimit
    <3>3. CASE limit = [given |-> TRUE, value |-> {}]   BY <3>3
    <3>2. ASSUME NEW n \in {1, 2}, limit = LimitOf(n)
          PROVE  limit.given \in BOOLEAN /\ limit.value \in {{}, {1}, {2}}
      BY <3>2 DEF LimitOf
    <3> QED BY <2>1, <3>1, <3>2, <3>3
  <2> QED BY <2>2 DEF AtMostOne
<1>3. in.risk.score \in Int /\ in.risk.sanctionsHit \in BOOLEAN
  <2>1. in.risk \in {NoRisk, [score |-> MaxRiskScore, sanctionsHit |-> FALSE],
             [score |-> MaxRiskScore + 1, sanctionsHit |-> FALSE],
             [score |-> 0, sanctionsHit |-> TRUE]}
    BY DEF Inputs
  <2>2. CASE in.risk = NoRisk   BY <2>2 DEF NoRisk
  <2>3. CASE in.risk = [score |-> MaxRiskScore, sanctionsHit |-> FALSE]
    BY <2>3 DEF MaxRiskScore
  <2>4. CASE in.risk = [score |-> MaxRiskScore + 1, sanctionsHit |-> FALSE]
    BY <2>4 DEF MaxRiskScore
  <2>5. CASE in.risk = [score |-> 0, sanctionsHit |-> TRUE]   BY <2>5
  <2> QED BY <2>1, <2>2, <2>3, <2>4, <2>5
<1>4. in.execution \in [target : {in.execution.target}, selector : {in.execution.selector},
                        isBatch : BOOLEAN, allowBatch : SUBSET BOOLEAN, validNow : SUBSET BOOLEAN]
  <2>1. in.execution \in Executions \cup {NoExecution}   BY DEF Inputs
  <2>2. CASE in.execution \in Executions   BY <2>2, OptionalOne DEF Executions
  <2>3. CASE in.execution = NoExecution   BY <2>3 DEF NoExecution
  <2> QED BY <2>1, <2>2, <2>3
<1> QED BY <1>1, <1>2, <1>3, <1>4 DEF WellFormed

\* The result is that of the input.
Evaluated == input \in Inputs /\ (result = None \/ result = Evaluate(policy, input))

LEMMA EvaluatedAlways == Spec => []Evaluated
<1>1. Init => Evaluated   BY DEF Init, Evaluated
<1>2. Evaluated /\ [Next]_vars => Evaluated'
  BY DEF Evaluated, Next, vars, Evaluate, Decision, policy
<1> QED BY <1>1, <1>2, PTL DEF Spec

LEMMA EvaluateDecides ==
    ASSUME NEW pol, NEW in
    PROVE  /\ Evaluate(pol, in) # None
           /\ Evaluate(pol, in).decision = "ALLOW" <=> Allowed(pol, in)
BY DEF Evaluate, Decision, None

\* The policy is never looser than the hook, in every run of MCPolicy and for
\* every choice of its agents and tokens.
THEOREM PolicyNotLooser == Spec => []NotLooserThanHook
<1>1. Evaluated => NotLooserThanHook
  <2> SUFFICES ASSUME Evaluated, result.decision = "ALLOW", Described(input)
               PROVE  HookAllows(input)
    BY DEF NotLooserThanHook
  <2>1. Allowed(policy, input)   BY EvaluateDecides DEF Evaluated, None
  <2> QED BY <2>1, AllowedByHook, InputsWellFormed DEF Evaluated
<1> QED BY <1>1, EvaluatedAlways, PTL

\* A payment is blocked for a reason, in every run of MCPolicy and for every
\* choice of its agents and tokens.
THEOREM PolicyGivesReasons == Spec => []BlockedForAReason
<1>1. Evaluated => BlockedForAReason
  <2> SUFFICES ASSUME Evaluated, result # None, \E a \in input.amount : a > 0,
                      Numeric(input.maxPer), Numeric(input.maxTotal),
                      input.execution # [NoExecution EXCEPT !.isBatch = TRUE]
               PROVE  result.decision = "ALLOW" <=> BlockReasons(policy, input) = {}
    BY DEF BlockedForAReason
  <2>1. result.decision = "ALLOW" <=> Allowed(policy, input)   BY EvaluateDecides DEF Evaluated
  <2>2. Allowed(policy, input) => BlockReasons(policy, input) = {}   BY DEF Allowed
  <2>3. WellFormed(input)   BY InputsWellFormed DEF Evaluated
  <2> QED BY <2>1, <2>2, <2>3, NoReasonAllows
<1> QED BY <1>1, EvaluatedAlways, PTL
=============================================================================

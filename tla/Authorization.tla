--------------------------- MODULE Authorization ---------------------------
(***************************************************************************)
(* How SignGate comes to cosign a session: evaluateIntent records a        *)
(* payment intent and the policy's decision on it, registerSession turns   *)
(* an ALLOW decision into one session and the Railguard signature for it   *)
(* (signgate/internal/api/server.go, signgate/internal/store, db).         *)
(*                                                                         *)
(* A step is one statement in Postgres.  AuthorizeSession is a transaction *)
(* whose statements wait for the row locks and the uncommitted unique keys *)
(* of others.  A request may end anywhere.  The server may be shut down,   *)
(* and started again in another environment or with another policy; a      *)
(* local one may run over a store that keeps nothing.                      *)
(*                                                                         *)
(* Texts that differ in letter case only are one value here.  A nonce key  *)
(* keeps its text: the table of sessions compares texts, the session id    *)
(* and the chain compare numbers.  Amounts and limits are numbers, other   *)
(* texts are refused by the first insert.  Hashes are injective; requests  *)
(* that are refused before the first statement are left out.               *)
(***************************************************************************)
EXTENDS Policy, Service, FiniteSets, FiniteSetsExt

CONSTANTS
    Procs,          \* concurrent requests
    Asks,           \* [intent, key]: what may be asked for, with its
                    \* idempotency key
    NonceTexts,     \* nonce keys as they are written
    NonceValue,     \* text -> number
    Windows,        \* [validAfter, validUntil] of requests
    Deployments,    \* [env, policy]: the environment the process may be started
                    \* in, with policy/railguard.rego as it is then
    ApiKeys,        \* the API keys clients send
    Orders,         \* [agent, intent, amount, time] of budget requests
    MaxDecisions,   \* bound on decisions
    MaxStops        \* bound on requests that end early, lost answers and shutdowns

VARIABLES
    server,      \* Down, or the configuration, store and policy it runs with
    intents,     \* payment_intents
    decisions,   \* policy_decisions
    sessions,    \* sessions
    receipts,    \* audit_receipts
    proc,        \* requests in progress
    cosigned,    \* the signatures that were answered
    stops

tables == <<intents, decisions, sessions, receipts>>
vars == <<server, tables, proc, cosigned, stops>>

Down == [repo |-> "none"]

\* An id that no session has.
NoSession == <<>>

\* What the store that keeps nothing says of every session.
NoopAgent == "agent_support_bot_1"
FarFuture == 999999999

NoRow == [decision |-> "none"]
NotConsumed == {}

Intents == {a.intent : a \in Asks}
Policies == {d.policy : d \in Deployments}
Environments == {d.env : d \in Deployments}

DecisionIds == 1 .. MaxDecisions

Intent ==
    [agent : {i.agent : i \in Intents}, account : {i.account : i \in Intents},
     chain : Int, token : {i.token : i \in Intents},
     recipient : {i.recipient : i \in Intents}, domain : STRING,
     amount : Int, maxPer : Int, maxTotal : Int, allowBatch : BOOLEAN]

ASSUME AuthorizationAssumption ==
    /\ Intents \subseteq Intent
    /\ \A n \in NonceTexts : NonceValue[n] \in Nat
    /\ Windows \subseteq [validAfter : Int, validUntil : Int]
    /\ {o.intent : o \in Orders} \subseteq Intent
    /\ Environments \subseteq Environment({e.adapter : e \in Environments}
                                            \cup {e.hook : e \in Environments})
    /\ {MaxDecisions, MaxStops} \subseteq Nat

Idle == [pc |-> "idle"]

At(p, label) == proc[p].pc = label
Goto(p, label) == proc' = [proc EXCEPT ![p].pc = label]
Return(p) == proc' = [proc EXCEPT ![p] = Idle]

Issued == {d \in DecisionIds : decisions[d] # NoRow}

Init ==
    /\ server = Down
    /\ intents = {} /\ sessions = {} /\ receipts = {}
    /\ decisions = [d \in DecisionIds |-> NoRow]
    /\ proc = [p \in Procs |-> Idle]
    /\ cosigned = {}
    /\ stops = 0

-----------------------------------------------------------------------------
(* main.                                                                   *)

\* The process validates its configuration, loads the policy and connects to
\* Postgres; if one of these fails it ends.
Start(env, repo, pol) ==
    LET c == Load(env)
    IN  /\ server = Down
        /\ Validate(c)
        /\ repo \in Repositories(c)
        /\ server' = [cfg |-> c, repo |-> repo, policy |-> pol]
        /\ UNCHANGED <<tables, proc, cosigned, stops>>

\* A signal or a crash.  ListenAndServe returns as soon as Shutdown is called,
\* and main ends the process: requests in progress are cut off.
Shutdown ==
    /\ server # Down
    /\ stops < MaxStops /\ stops' = stops + 1
    /\ server' = Down
    /\ proc' = [p \in Procs |-> Idle]
    /\ UNCHANGED <<tables, cosigned>>

Keeps == server.repo = "postgres"

-----------------------------------------------------------------------------
(* evaluateIntent.                                                         *)

\* Mutant of IntentHash: the limits are not part of it.
IntentHashNoLimits(i) == <<i.agent, i.account, i.chain, i.token, i.recipient,
                           i.amount, i.domain>>

\* The hash covers everything that was asked for.
IntentHash(i) == <<i.agent, i.account, i.chain, i.token, i.recipient, i.amount,
                   i.domain, i.maxPer, i.maxTotal, i.allowBatch>>

Evaluating == {p \in Procs : proc[p].pc \in {"intent", "decide"}}

StartEvaluate(p, i, k) ==
    /\ At(p, "idle") /\ server # Down
    /\ Cardinality(Issued) + Cardinality(Evaluating) < MaxDecisions
    /\ proc' = [proc EXCEPT ![p] = [pc |-> "intent", intent |-> i, key |-> k]]
    /\ UNCHANGED <<server, tables, cosigned, stops>>

\* Mutant of IntentConflicts: the idempotency key is not unique.
IntentConflictsNever(k) == FALSE

\* The idempotency key is unique, and ON CONFLICT does not name it.
IntentConflicts(k) == \E row \in intents : row.key = k

\* INSERT ... ON CONFLICT (intent_hash) DO NOTHING.
SaveIntent(p) ==
    LET i == proc[p].intent
        k == proc[p].key
        known == \E row \in intents : row.hash = IntentHash(i)
    IN  /\ At(p, "intent")
        /\ \/ /\ ~Keeps \/ known
              /\ Goto(p, "decide")
              /\ UNCHANGED intents
           \/ /\ Keeps /\ ~known /\ ~IntentConflicts(k)
              /\ intents' = intents \cup {[hash |-> IntentHash(i), intent |-> i, key |-> k]}
              /\ Goto(p, "decide")
           \/ /\ Keeps /\ ~known /\ IntentConflicts(k)
              /\ Return(p)
              /\ UNCHANGED intents
        /\ UNCHANGED <<server, decisions, sessions, receipts, cosigned, stops>>

\* What evaluateIntent tells the policy: no risk and no physical facts.
PolicyInput(i) ==
    [agent |-> i.agent, token |-> i.token, chain |-> i.chain, domain |-> i.domain,
     amount |-> {i.amount}, maxPer |-> LimitOf(i.maxPer), maxTotal |-> LimitOf(i.maxTotal),
     risk |-> NoRisk, execution |-> NoExecution]

\* What a receipt says.  allowBatch is never set, so that it says FALSE.
Payload(i, out) ==
    [decision |-> out.decision, reasons |-> out.reasons, policy |-> out.policy,
     agent |-> i.agent, hash |-> IntentHash(i), chain |-> i.chain, token |-> i.token,
     recipient |-> i.recipient, amount |-> i.amount, allowBatch |-> FALSE]

\* The decision and SaveDecision.  asked is what the policy was asked about;
\* the table has the hash only.
SaveDecision(p) ==
    LET i   == proc[p].intent
        out == Evaluate(server.policy, PolicyInput(i))
        d   == Cardinality(Issued) + 1
    IN  /\ At(p, "decide")
        /\ decisions' = IF Keeps
              THEN [decisions EXCEPT ![d] =
                      [hash |-> IntentHash(i), decision |-> out.decision,
                       policy |-> out.policy, reasons |-> out.reasons,
                       consumed |-> NotConsumed, asked |-> i]]
              ELSE decisions
        /\ IF out.decision = "ALLOW" /\ server.cfg.receiptKey # NoKey
           THEN proc' = [proc EXCEPT ![p] = [pc |-> "receipt", decision |-> d,
                                             payload |-> Payload(i, out)]]
           ELSE Return(p)
        /\ UNCHANGED <<server, intents, sessions, receipts, cosigned, stops>>

\* SaveReceipt, with the signed payload; its error is ignored.
SaveReceipt(p) ==
    /\ At(p, "receipt")
    /\ receipts' = IF Keeps
          THEN receipts \cup {[decision |-> proc[p].decision,
                               signed |-> SignReceipt(server.cfg, proc[p].payload)]}
          ELSE receipts
    /\ Return(p)
    /\ UNCHANGED <<server, intents, decisions, sessions, cosigned, stops>>

\* GetReceipt: what GET /v1/receipts/{decisionId} answers, if anything.
GetReceipt(d) ==
    {[decision |-> decisions[d].decision, payload |-> r.signed.payload] :
        r \in {r \in receipts : r.decision = d}}

-----------------------------------------------------------------------------
(* registerSession.                                                        *)

ValidWindow(w) == w.validAfter > 0 /\ w.validUntil > w.validAfter

StartRegister(p, d, n, w, key) ==
    /\ At(p, "idle") /\ server # Down
    /\ requireAPIKey(server.cfg, key)
    /\ CosigningConfigured(server.cfg)
    /\ ValidWindow(w)
    /\ proc' = [proc EXCEPT ![p] = [pc |-> "decision", decision |-> d, nonce |-> n,
                                    window |-> w]]
    /\ UNCHANGED <<server, tables, cosigned, stops>>

\* The chain is that of the process, not the one that was asked for; the two
\* are never compared.
SessionConfig(i, n, w, pol, domain) ==
    [account |-> i.account, nonce |-> n, token |-> i.token, recipient |-> i.recipient,
     maxPer |-> i.maxPer, maxTotal |-> i.maxTotal, window |-> w,
     allowBatch |-> i.allowBatch, policy |-> pol, domain |-> domain]

ValidateV1(cfg) ==
    /\ cfg.maxPer > 0
    /\ cfg.maxTotal >= cfg.maxPer
    /\ cfg.window.validUntil > cfg.window.validAfter

\* DeriveSessionID: everything but the policy, the chain and the adapter of the
\* process included, and the nonce key as a number.  (The session key, which the
\* request chooses like the nonce key and the window, is left out.)
SessionIdOf(cfg) ==
    <<cfg.domain, cfg.account, NonceValue[cfg.nonce], cfg.token, cfg.recipient, cfg.maxPer,
      cfg.maxTotal, cfg.window, cfg.allowBatch>>

\* Mutant of PolicyMatches: the check is missing.
PolicyMatchesAlways(d) == TRUE

PolicyMatches(d) == decisions[d].policy = server.policy

\* GetAllowDecision, the checks and the signature.  The columns it reads are
\* never changed.
GetAllowDecision(p) ==
    LET d == proc[p].decision
        row == CHOOSE r \in intents : r.hash = decisions[d].hash
        cfg == SessionConfig(row.intent, proc[p].nonce, proc[p].window,
                             decisions[d].policy, Domain(server.cfg))
        ok  == /\ Keeps
               /\ decisions[d].decision = "ALLOW"
               /\ PolicyMatches(d)
               /\ ValidateV1(cfg)
    IN  /\ At(p, "decision")
        /\ \/ /\ ok
              /\ proc' = [proc EXCEPT ![p] = [pc |-> "lock", decision |-> d, cfg |-> cfg,
                                              agent |-> row.intent.agent]]
           \/ ~ok /\ Return(p)
        /\ UNCHANGED <<server, tables, cosigned, stops>>

\* Request q holds the lock on the row of decision d.
HoldsDecision(q, d) ==
    /\ proc[q].pc \in {"consume", "session", "commit"}
    /\ proc[q].decision = d

\* Request q has consumed a decision for session id and not yet committed.
HoldsConsumed(q, id) ==
    /\ proc[q].pc \in {"session", "commit"}
    /\ SessionIdOf(proc[q].cfg) = id

Lane(cfg) == <<cfg.account, cfg.nonce>>

\* Request q has inserted a session with this lane and not yet committed.
HoldsLane(q, lane) == At(q, "commit") /\ Lane(proc[q].cfg) = lane

Others(p) == Procs \ {p}

Answer(p) ==
    LET cfg == proc[p].cfg
    IN  /\ cosigned' = cosigned \cup
              {[decision |-> proc[p].decision, cfg |-> cfg,
                signature |-> SignRailguard(server.cfg, cfg, NonceValue[cfg.nonce])]}
        /\ Return(p)

\* Mutant of SameSession: a consumed decision is good for another session.
SameSessionAny(d, id) == decisions[d].consumed # NotConsumed

\* The decision was consumed by an earlier copy of this request.
SameSession(d, id) == decisions[d].consumed = {id}

\* Mutant of Refuse: a conflict is tried again instead of answered.
RefuseRetries(p) ==
    proc' = [proc EXCEPT ![p] = [pc |-> "decision", decision |-> proc[p].decision,
                                 nonce |-> proc[p].cfg.nonce, window |-> proc[p].cfg.window]]

\* 409; the transaction is rolled back.
Refuse(p) == Return(p)

\* SELECT ... FOR UPDATE, and the answer for a decision that was consumed
\* before.
LockDecision(p) ==
    LET d == proc[p].decision
        id == SessionIdOf(proc[p].cfg)
        consumed == decisions[d].consumed # NotConsumed
    IN  /\ At(p, "lock")
        /\ \A q \in Others(p) : ~HoldsDecision(q, d)
        /\ \/ ~consumed /\ Goto(p, "consume") /\ UNCHANGED cosigned
           \/ SameSession(d, id) /\ Answer(p)
           \/ consumed /\ ~SameSession(d, id) /\ Refuse(p) /\ UNCHANGED cosigned
        /\ UNCHANGED <<server, tables, stops>>

\* Mutant of BeforeCommit: the update is not part of the transaction.
BeforeCommitAtOnce(d, id) == [decisions EXCEPT ![d].consumed = {id}]

\* What others see of the update before the commit.
BeforeCommit(d, id) == decisions

\* UPDATE policy_decisions, under its condition and the unique index on
\* consumed_session_id.
ConsumeDecision(p) ==
    LET d == proc[p].decision
        id == SessionIdOf(proc[p].cfg)
        refused == decisions[d].consumed # NotConsumed
                     \/ \E e \in Issued : decisions[e].consumed = {id}
    IN  /\ At(p, "consume")
        /\ \A q \in Others(p) : ~HoldsConsumed(q, id)
        /\ \/ refused /\ Refuse(p) /\ UNCHANGED decisions
           \/ ~refused /\ Goto(p, "session") /\ decisions' = BeforeCommit(d, id)
        /\ UNCHANGED <<server, intents, sessions, receipts, cosigned, stops>>

\* The unique constraint on account and nonce_key.
LaneTaken(cfg) == \E s \in sessions : Lane(s.cfg) = Lane(cfg)

\* INSERT INTO sessions.  No row has this id: its decision would be consumed.
InsertSession(p) ==
    LET cfg == proc[p].cfg
    IN  /\ At(p, "session")
        /\ \A q \in Others(p) : ~HoldsLane(q, Lane(cfg))
        /\ \/ LaneTaken(cfg) /\ Refuse(p)
           \/ ~LaneTaken(cfg) /\ Goto(p, "commit")
        /\ UNCHANGED <<server, tables, cosigned, stops>>

\* The commit; its answer may be lost.
Commit(p) ==
    LET cfg == proc[p].cfg
    IN  /\ At(p, "commit")
        /\ decisions' = [decisions EXCEPT ![proc[p].decision].consumed = {SessionIdOf(cfg)}]
        /\ sessions' = sessions \cup
              {[id |-> SessionIdOf(cfg), cfg |-> cfg, agent |-> proc[p].agent]}
        /\ \/ Answer(p) /\ UNCHANGED stops
           \/ /\ stops < MaxStops /\ stops' = stops + 1
              /\ Return(p)
              /\ UNCHANGED cosigned
        /\ UNCHANGED <<server, intents, receipts>>

-----------------------------------------------------------------------------
(* reserveBudget, up to the call of the reservation service.               *)

\* Mutant of ConsumedFor: the last decision that was consumed at all.
ConsumedForAny(id) == {d \in Issued : decisions[d].consumed # NotConsumed}

\* The ALLOW decision that was consumed for session id.
ConsumedFor(id) ==
    {d \in Issued : decisions[d].consumed = {id} /\ decisions[d].decision = "ALLOW"}

\* The answer of the store that keeps nothing, for every session id.
NoopSnapshot ==
    [agent |-> NoopAgent, hash |-> {}, maxPer |-> 100000000, maxTotal |-> 500000000,
     window |-> [validAfter |-> 1, validUntil |-> FarFuture]]

\* GetSessionReserveSnapshot; {} if there is no such session.  The status of
\* a session is never changed.
GetSessionReserveSnapshot(id) ==
    IF Keeps
    THEN {[agent |-> s.agent, maxPer |-> s.cfg.maxPer, maxTotal |-> s.cfg.maxTotal,
           window |-> s.cfg.window,
           hash |-> {decisions[d].hash : d \in {d \in ConsumedFor(id) :
                                \A e \in ConsumedFor(id) : e <= d}}] :
            s \in {s \in sessions : s.id = id}}
    ELSE {NoopSnapshot}

\* The checks of reserveBudget for an order o on session id: the request goes
\* to the reservation service, whose steps are in module Reservation, with this
\* maxTotalSpend.  The handler has changed nothing up to here.
Admitted(id, o, key) ==
    IF server = Down \/ ~requireAPIKey(server.cfg, key) THEN {}
    ELSE {snap.maxTotal : snap \in {snap \in GetSessionReserveSnapshot(id) :
            /\ snap.window.validAfter <= o.time /\ o.time <= snap.window.validUntil
            /\ o.agent = snap.agent
            /\ snap.hash \subseteq {IntentHash(o.intent)}
            /\ 0 < o.amount /\ o.amount <= snap.maxPer}}

-----------------------------------------------------------------------------

\* A statement fails or the client goes away; a transaction is rolled back.
Stop(p) ==
    /\ ~At(p, "idle")
    /\ stops < MaxStops /\ stops' = stops + 1
    /\ Return(p)
    /\ UNCHANGED <<server, tables, cosigned>>

Handle(p) ==
    \/ SaveIntent(p) \/ SaveDecision(p) \/ SaveReceipt(p)
    \/ GetAllowDecision(p) \/ LockDecision(p) \/ ConsumeDecision(p)
    \/ InsertSession(p) \/ Commit(p)

Next ==
    \/ \E p \in Procs :
          \/ \E a \in Asks : StartEvaluate(p, a.intent, a.key)
          \/ \E d \in Issued, n \in NonceTexts, w \in Windows, key \in ApiKeys :
                StartRegister(p, d, n, w, key)
          \/ Handle(p) \/ Stop(p)
    \/ \E d \in Deployments, repo \in {"postgres", "noop"} : Start(d.env, repo, d.policy)
    \/ Shutdown

\* The server goes on with every request, and Postgres grants a lock to those
\* who wait for it in the order in which they came.
Fairness == \A p \in Procs : SF_vars(Handle(p))

Spec == Init /\ [][Next]_vars /\ Fairness

-----------------------------------------------------------------------------
(* Properties.                                                             *)

Row(consumed) ==
    [hash : {IntentHash(i) : i \in Intents}, decision : {"ALLOW", "BLOCK"}, policy : Policies,
     reasons : SUBSET {"WITHIN_LIMITS"}, consumed : {consumed}, asked : Intents]

\* Types; intents and sessions have their unique keys.
TypeOK ==
    /\ server # Down => server.policy \in Policies /\ Validate(server.cfg)
    /\ \A r, t \in intents : r.hash = t.hash \/ r.key = t.key => r = t
    /\ \A r, t \in sessions : r.id = t.id => r = t
    /\ \A d \in Issued : decisions[d] \in Row(decisions[d].consumed)
    /\ \A r \in receipts : decisions[r.decision].decision = "ALLOW"
    /\ \A p \in Procs : proc[p].pc \in {"idle", "intent", "decide", "receipt", "decision",
                                        "lock", "consume", "session", "commit"}
    /\ stops \in 0 .. MaxStops

\* A decision is good for one session: however registrations race, fail and
\* are repeated, one decision never leads to two signed authorizations, one
\* session id is never signed for two decisions, and an account has one session
\* per nonce key, as the chain counts them (AuthorizeSession).
OneDecisionOneSession ==
    /\ \A a, b \in cosigned :
          a.decision = b.decision <=> SessionIdOf(a.cfg) = SessionIdOf(b.cfg)
    /\ \A r, s \in sessions :
          /\ r.cfg.account = s.cfg.account
          /\ NonceValue[r.cfg.nonce] = NonceValue[s.cfg.nonce]
          => r.id = s.id

\* A consumed decision has its session and a session its decision, whatever a
\* request got done before it ended: a repeated request then finds both and is
\* answered (AuthorizeSession is one transaction).
ConsumedHasSession ==
    /\ \A d \in Issued : decisions[d].consumed \subseteq {s.id : s \in sessions}
    /\ \A s \in sessions : \E d \in Issued : decisions[d].consumed = {s.id}

\* Only consumed ALLOW decisions are cosigned, and every ALLOW binds to what
\* was asked: the signed limits, parties and policy are those of the request
\* the policy allowed, the adapter and the hook would accept the payment, and
\* a receipt for the decision tells of the same payment.  The chain is bound in
\* two halves that nothing joins: allowed and receipted is the chain that was
\* asked for, which is the policy's, and signed is the CHAIN_ID that a process
\* was started with, whichever that is (registerSession, evaluateIntent).
CosignedIsAllowed ==
    \A c \in cosigned :
        LET row == decisions[c.decision]
        IN  /\ row.consumed = {SessionIdOf(c.cfg)}
            /\ \E s \in sessions : s.id = SessionIdOf(c.cfg) /\ s.agent = row.asked.agent
            /\ Decision(c.cfg.policy, PolicyInput(row.asked)) = "ALLOW"
            /\ c.cfg = SessionConfig(row.asked, c.cfg.nonce, c.cfg.window, row.policy,
                                       c.signature.digest.domain)
            /\ row.asked.chain = PolicyChain
            /\ c.signature.digest.domain \in {Domain(Load(e)) : e \in Environments}
            /\ 0 < row.asked.amount /\ row.asked.amount <= c.cfg.maxPer
            /\ c.cfg.maxPer <= c.cfg.maxTotal
            /\ \A r \in GetReceipt(c.decision) :
                  /\ r.decision = "ALLOW" /\ r.payload.agent = row.asked.agent
                  /\ r.payload.chain = row.asked.chain
                  /\ r.payload.policy = c.signature.digest.policy
                  /\ r.payload.token = c.signature.digest.token
                  /\ r.payload.recipient = c.signature.digest.recipient
                  /\ r.payload.amount <= c.signature.digest.maxPer

\* Budget is reserved for what was allowed only: a request that reaches the
\* reservation service is for a session that SignGate has registered, and for
\* the agent, the intent and the limits of the ALLOW decision that was consumed
\* for it.  Only a local process may answer without a store (reserveBudget,
\* GetSessionReserveSnapshot, main).
ReservedIsGranted ==
    \A id \in {s.id : s \in sessions} \cup {NoSession}, o \in Orders, key \in ApiKeys :
        \A maxTotal \in Admitted(id, o, key) :
            \/ server.cfg.local /\ ~Keeps
            \/ \E d \in Issued :
                  /\ decisions[d].decision = "ALLOW"
                  /\ decisions[d].consumed = {id}
                  /\ decisions[d].asked = o.intent /\ o.agent = o.intent.agent
                  /\ o.amount <= o.intent.maxPer
                  /\ maxTotal = o.intent.maxTotal

\* Whatever a process was started with before, it signs as its own environment
\* and policy say: a decision of an earlier policy leads to no signature any
\* more, the signature and the session id are for the chain and the adapter of
\* the process and no other, no signature is made without a store, and in
\* production none without an adapter or that the key of the examples could ask
\* for (Load, Validate, registerSession).
SignedAsConfigured ==
    [][\A c \in cosigned' \ cosigned :
          /\ Keeps
          /\ c.cfg.policy = server.policy
          /\ c.signature.key # NoKey
          /\ c.signature.digest.domain = Domain(server.cfg) /\ c.cfg.domain = Domain(server.cfg)
          /\ ~server.cfg.local =>
                /\ ~requireAPIKey(server.cfg, DevAPIKey)
                /\ ~isZeroAddress(c.signature.digest.domain.adapter)]_vars

\* Requests do not wait for each other for ever: registrations lock the row
\* of the decision, then its index entry, then the lane.
RequestsEnd == \A p \in Procs : ~At(p, "idle") ~> At(p, "idle")
=============================================================================

------------------------ MODULE AuthorizationProofs ------------------------
(***************************************************************************)
(* Proofs about Authorization, for every number of requests, decisions,    *)
(* nonce keys, environments and policies: however registrations race, fail *)
(* and are repeated, and whatever the process is restarted with.           *)
(***************************************************************************)
EXTENDS Authorization, FiniteSetTheorems, TLAPS

-----------------------------------------------------------------------------
(* The inductive invariant: what the process, the tables and the requests  *)
(* in progress know of each other.                                         *)

Configurations == {Load(e) : e \in Environments}

ServerOK ==
    \/ server = Down
    \/ /\ server \in [cfg : Configurations, repo : {"postgres", "noop"}, policy : Policies]
       /\ Validate(server.cfg)
       /\ server.repo = "noop" => server.cfg.local

IntentsOK ==
    /\ \A r \in intents : r.intent \in Intents /\ r.hash = IntentHash(r.intent)
    /\ \A r, t \in intents : r.hash = t.hash \/ r.key = t.key => r = t

SavedIntent(i) == \E r \in intents : r.hash = IntentHash(i)

\* A decision is what the policy said to what was asked.
DecisionRow(row) ==
    [hash : {IntentHash(row.asked)}, decision : {Decision(row.policy, PolicyInput(row.asked))},
     policy : Policies, reasons : {{}}, consumed : {row.consumed}, asked : Intents]

DecisionsOK ==
    /\ decisions = [d \in DecisionIds |-> decisions[d]]
    /\ \A d \in Issued : decisions[d] \in DecisionRow(decisions[d])
    /\ \A d \in Issued : SavedIntent(decisions[d].asked)

\* Decisions are numbered as they are made, within their bound.
NumbersOK ==
    /\ \E n \in 0 .. MaxDecisions : Issued = 1 .. n
    /\ IsFiniteSet(Evaluating)
    /\ Cardinality(Issued) + Cardinality(Evaluating) <= MaxDecisions

\* What was allowed, as a receipt and as a session.
ReceiptFor(d, payload) ==
    /\ d \in Issued /\ decisions[d].decision = "ALLOW"
    /\ payload = Payload(decisions[d].asked, Evaluate(decisions[d].policy,
                                                      PolicyInput(decisions[d].asked)))

AllowedFor(d, cfg) ==
    /\ d \in Issued /\ decisions[d].decision = "ALLOW"
    /\ cfg = SessionConfig(decisions[d].asked, cfg.nonce, cfg.window, decisions[d].policy,
                           cfg.domain)
    /\ cfg.nonce \in NonceTexts
    /\ ValidateV1(cfg)

ReceiptsOK == \A r \in receipts : ReceiptFor(r.decision, r.signed.payload)

SessionsOK ==
    /\ \A s \in sessions :
          /\ s.id = SessionIdOf(s.cfg)
          /\ \E d \in Issued : /\ AllowedFor(d, s.cfg) /\ decisions[d].consumed = {s.id}
                               /\ s.agent = decisions[d].asked.agent
    /\ \A r, t \in sessions : r.id = t.id \/ Lane(r.cfg) = Lane(t.cfg) => r = t
    /\ \A d \in Issued : \/ decisions[d].consumed = NotConsumed
                         \/ \E s \in sessions : decisions[d].consumed = {s.id}
    /\ \A d, e \in Issued : /\ decisions[d].consumed = decisions[e].consumed
                            /\ decisions[d].consumed # NotConsumed
                            => d = e

CosignedOK ==
    \A c \in cosigned :
        /\ AllowedFor(c.decision, c.cfg)
        /\ decisions[c.decision].consumed = {SessionIdOf(c.cfg)}
        /\ \E sc \in Configurations :
              /\ Domain(sc) = c.cfg.domain
              /\ c.signature.digest = TypedData(sc, c.cfg, NonceValue[c.cfg.nonce])

\* The process that handles request r.
Serving == server # Down

EvaluateOK(r) ==
    /\ r.pc \in {"intent", "decide"}
    /\ r \in [pc : {"intent", "decide"}, intent : Intents, key : {r.key}]
    /\ Serving
    /\ r.pc = "decide" /\ Keeps => SavedIntent(r.intent)

ReceiptOK(r) ==
    /\ r.pc = "receipt"
    /\ r \in [pc : {"receipt"}, decision : {r.decision}, payload : {r.payload}]
    /\ Serving
    /\ Keeps => ReceiptFor(r.decision, r.payload)

RegisterOK(r) ==
    /\ r \in [pc : {"decision"}, decision : Issued, nonce : NonceTexts, window : Windows]
    /\ Serving /\ CosigningConfigured(server.cfg)

AuthorizeOK(r) ==
    /\ r.pc \in {"lock", "consume", "session", "commit"}
    /\ r \in [pc : {"lock", "consume", "session", "commit"}, decision : Issued, cfg : {r.cfg},
              agent : {decisions[r.decision].asked.agent}]
    /\ Serving /\ Keeps /\ CosigningConfigured(server.cfg)
    /\ AllowedFor(r.decision, r.cfg)
    /\ r.cfg.policy = server.policy /\ r.cfg.domain = Domain(server.cfg)

RequestOK(r) == r = Idle \/ EvaluateOK(r) \/ ReceiptOK(r) \/ RegisterOK(r) \/ AuthorizeOK(r)

ProcOK ==
    /\ proc = [p \in Procs |-> proc[p]]
    /\ \A p \in Procs : RequestOK(proc[p])

\* The locks that transactions hold, and what they keep from changing.
Holding(p) == proc[p].pc \in {"consume", "session", "commit"}
Consuming(p) == proc[p].pc \in {"session", "commit"}

LocksOK ==
    \A p, q \in Procs : p # q =>
        /\ Holding(p) /\ Holding(q) => proc[p].decision # proc[q].decision
        /\ Consuming(p) /\ Consuming(q) => SessionIdOf(proc[p].cfg) # SessionIdOf(proc[q].cfg)
        /\ At(p, "commit") /\ At(q, "commit") => Lane(proc[p].cfg) # Lane(proc[q].cfg)

LockedOK ==
    \A p \in Procs :
        /\ Holding(p) => decisions[proc[p].decision].consumed = NotConsumed
        /\ Consuming(p) =>
              \A d \in Issued : decisions[d].consumed # {SessionIdOf(proc[p].cfg)}
        /\ At(p, "commit") => \A s \in sessions : Lane(s.cfg) # Lane(proc[p].cfg)

AuthInv ==
    /\ ServerOK /\ IntentsOK /\ DecisionsOK /\ NumbersOK /\ ReceiptsOK /\ SessionsOK
    /\ CosignedOK /\ ProcOK /\ LocksOK /\ LockedOK /\ stops \in 0 .. MaxStops

-----------------------------------------------------------------------------
(* What a step keeps.                                                      *)

LEMMA ConstantTypes == MaxDecisions \in Nat /\ MaxStops \in Nat /\ Intents \subseteq Intent
BY AuthorizationAssumption

\* The hash tells intents apart.
LEMMA HashInjective ==
    ASSUME NEW i \in Intent, NEW j \in Intent, IntentHash(i) = IntentHash(j) PROVE i = j
<1>1. /\ i.agent = j.agent /\ i.account = j.account /\ i.chain = j.chain /\ i.token = j.token
      /\ i.recipient = j.recipient /\ i.amount = j.amount /\ i.domain = j.domain
      /\ i.maxPer = j.maxPer /\ i.maxTotal = j.maxTotal /\ i.allowBatch = j.allowBatch
  BY DEF IntentHash
<1> QED BY <1>1 DEF Intent

LEMMA Updated ==
    ASSUME NEW f, NEW D, f = [x \in D |-> f[x]], NEW a \in D, NEW v, NEW g,
           g = [f EXCEPT ![a] = v]
    PROVE  /\ g = [x \in D |-> g[x]] /\ g[a] = v
           /\ \A x \in D : x # a => g[x] = f[x]
OBVIOUS

SameTerms(d) ==
    /\ decisions'[d] # NoRow
    /\ decisions'[d].asked = decisions[d].asked /\ decisions'[d].policy = decisions[d].policy
    /\ decisions'[d].decision = decisions[d].decision /\ decisions'[d].hash = decisions[d].hash

Kept ==
    /\ intents \subseteq intents'
    /\ \A d \in Issued :
          /\ SameTerms(d)
          /\ decisions[d].consumed # NotConsumed => decisions'[d].consumed = decisions[d].consumed

\* The next number is free.
LEMMA NextNumber ==
    ASSUME NumbersOK, NEW p \in Procs, p \in Evaluating
    PROVE  /\ Cardinality(Issued) + 1 \in DecisionIds
           /\ decisions[Cardinality(Issued) + 1] = NoRow
           /\ Issued = 1 .. Cardinality(Issued)
           /\ Cardinality(Issued) \in Nat
<1>1. PICK n \in 0 .. MaxDecisions : Issued = 1 .. n   BY DEF NumbersOK
<1>2. Cardinality(Issued) = n /\ n \in Nat
  BY <1>1, ConstantTypes, FS_Interval
<1>3. Cardinality(Evaluating) \in Nat /\ Cardinality(Evaluating) # 0
  BY FS_CardinalityType, FS_EmptySet DEF NumbersOK
<1>4. n + 1 \in DecisionIds
  BY <1>2, <1>3, ConstantTypes DEF NumbersOK, DecisionIds
<1>5. n + 1 \notin Issued   BY <1>1, <1>2
<1> QED BY <1>1, <1>2, <1>4, <1>5 DEF Issued

LEMMA Rows ==
    ASSUME DecisionsOK, NEW d \in Issued
    PROVE  /\ d \in DecisionIds /\ decisions[d] # NoRow
           /\ decisions[d].asked \in Intents /\ decisions[d].policy \in Policies
           /\ decisions[d].hash = IntentHash(decisions[d].asked)
           /\ decisions[d].decision = Decision(decisions[d].policy, PolicyInput(decisions[d].asked))
           /\ SavedIntent(decisions[d].asked)
BY DEF DecisionsOK, DecisionRow, Issued

\* The decision that SaveDecision makes.
NewDecision(i, pol) ==
    [hash |-> IntentHash(i), decision |-> Decision(pol, PolicyInput(i)), policy |-> pol,
     reasons |-> {}, consumed |-> NotConsumed, asked |-> i]

\* The ways in which the table of decisions changes.
DecisionStep ==
    \/ UNCHANGED decisions
    \/ \E p \in Procs :
          /\ At(p, "decide") /\ Keeps
          /\ decisions' = [decisions EXCEPT ![Cardinality(Issued) + 1] =
                                NewDecision(proc[p].intent, server.policy)]
    \/ \E p \in Procs :
          /\ At(p, "commit")
          /\ decisions' = [decisions EXCEPT ![proc[p].decision].consumed =
                                {SessionIdOf(proc[p].cfg)}]

LEMMA DecisionChange == [Next]_vars => DecisionStep
<1> SUFFICES ASSUME [Next]_vars PROVE DecisionStep   OBVIOUS
<1>1. ASSUME NEW p \in Procs, SaveDecision(p) PROVE DecisionStep
  BY <1>1 DEF SaveDecision, DecisionStep, NewDecision, Evaluate
<1>2. ASSUME NEW p \in Procs, Commit(p) PROVE DecisionStep
  BY <1>2 DEF Commit, DecisionStep
<1>3. ASSUME UNCHANGED decisions PROVE DecisionStep
  BY <1>3 DEF DecisionStep
<1> QED
  BY <1>1, <1>2, <1>3
  DEF Next, vars, tables, StartEvaluate, StartRegister, Handle, Stop, Start, Shutdown, SaveIntent,
      SaveReceipt, GetAllowDecision, LockDecision, ConsumeDecision, InsertSession, BeforeCommit

LEMMA DecisionsKept ==
    ASSUME AuthInv, DecisionStep, NEW d \in Issued
    PROVE  /\ SameTerms(d)
           /\ decisions[d].consumed # NotConsumed => decisions'[d].consumed = decisions[d].consumed
<1>0. DecisionsOK /\ NumbersOK /\ ProcOK /\ LockedOK   BY DEF AuthInv
<1>1. d \in DecisionIds /\ decisions[d] # NoRow   BY <1>0, Rows
<1>2. CASE UNCHANGED decisions   BY <1>1, <1>2 DEF SameTerms
<1>3. ASSUME NEW p \in Procs, At(p, "decide"), NEW row,
             decisions' = [decisions EXCEPT ![Cardinality(Issued) + 1] = row]
      PROVE  decisions'[d] = decisions[d]
  <2>1. Cardinality(Issued) + 1 # d
    BY <1>0, <1>1, <1>3, NextNumber DEF Evaluating, At
  <2> QED BY <1>0, <1>1, <1>3, <2>1 DEF DecisionsOK
<1>4. ASSUME NEW p \in Procs, At(p, "commit"), NEW x,
             decisions' = [decisions EXCEPT ![proc[p].decision].consumed = x]
      PROVE  /\ SameTerms(d)
             /\ decisions[d].consumed # NotConsumed => decisions'[d].consumed = decisions[d].consumed
  <2>1. CASE proc[p].decision # d   BY <1>0, <1>1, <1>4, <2>1 DEF DecisionsOK, SameTerms
  <2>2. CASE proc[p].decision = d
    <3>1. decisions[d].consumed = NotConsumed   BY <1>0, <1>4, <2>2 DEF LockedOK, Holding, At
    <3>2. decisions[d] \in DecisionRow(decisions[d])   BY <1>0 DEF DecisionsOK
    <3>3. decisions'[d] = [decisions[d] EXCEPT !.consumed = x]
      BY <1>0, <1>1, <1>4, <2>2 DEF DecisionsOK
    <3>4. /\ decisions'[d].asked = decisions[d].asked /\ decisions'[d].policy = decisions[d].policy
          /\ decisions'[d].decision = decisions[d].decision
          /\ decisions'[d].hash = decisions[d].hash
      BY <3>2, <3>3 DEF DecisionRow
    <3>5. decisions[d].decision # "none"   BY <3>2 DEF DecisionRow, Decision
    <3> QED BY <3>1, <3>4, <3>5 DEF SameTerms, NoRow
  <2> QED BY <2>1, <2>2
<1> QED BY <1>1, <1>2, <1>3, <1>4 DEF DecisionStep, SameTerms

LEMMA KeptStep == AuthInv /\ [Next]_vars => Kept
<1> SUFFICES ASSUME AuthInv, [Next]_vars PROVE Kept   OBVIOUS
<1>1. intents \subseteq intents'
  BY DEF Next, vars, tables, StartEvaluate, StartRegister, Handle, Stop, Start, Shutdown, SaveIntent,
      SaveReceipt, GetAllowDecision, LockDecision, ConsumeDecision, InsertSession, SaveDecision,
      Commit
<1> QED BY <1>1, DecisionChange, DecisionsKept DEF Kept

LEMMA TermsKept ==
    ASSUME Kept, DecisionsOK
    PROVE  /\ \A d \in Issued : d \in Issued'
           /\ \A i : SavedIntent(i) => SavedIntent(i)'
           /\ \A d, payload : ReceiptFor(d, payload) => ReceiptFor(d, payload)'
           /\ \A d, cfg : AllowedFor(d, cfg) => AllowedFor(d, cfg)'
<1>1. ASSUME NEW d \in Issued PROVE d \in Issued'   BY DEF Kept, SameTerms, Issued
<1>2. ASSUME NEW i, SavedIntent(i) PROVE SavedIntent(i)'   BY <1>2 DEF Kept, SavedIntent
<1>3. ASSUME NEW d, NEW payload, ReceiptFor(d, payload) PROVE ReceiptFor(d, payload)'
  BY <1>1, <1>3 DEF ReceiptFor, Kept, SameTerms
<1>4. ASSUME NEW d, NEW cfg, AllowedFor(d, cfg) PROVE AllowedFor(d, cfg)'
  BY <1>1, <1>4 DEF AllowedFor, Kept, SameTerms
<1> QED BY <1>1, <1>2, <1>3, <1>4

-----------------------------------------------------------------------------
(* The requests.                                                           *)

LEMMA RequestKept ==
    ASSUME NEW r, RequestOK(r), Kept, DecisionsOK, UNCHANGED server
    PROVE  RequestOK(r)'
<1>1. Keeps' = Keeps /\ Serving' = Serving   BY DEF Keeps, Serving
<1>2. CASE EvaluateOK(r)
  <2>1. EvaluateOK(r)'   BY <1>1, <1>2, TermsKept DEF EvaluateOK
  <2> QED BY <2>1 DEF RequestOK
<1>3. CASE ReceiptOK(r)
  <2>1. ReceiptOK(r)'   BY <1>1, <1>3, TermsKept DEF ReceiptOK
  <2> QED BY <2>1 DEF RequestOK
<1>4. CASE RegisterOK(r)
  <2>1. RegisterOK(r)'   BY <1>1, <1>4, TermsKept DEF RegisterOK
  <2> QED BY <2>1 DEF RequestOK
<1>5. CASE AuthorizeOK(r)
  <2>1. r.decision \in Issued /\ AllowedFor(r.decision, r.cfg)   BY <1>5 DEF AuthorizeOK
  <2>2. /\ r.decision \in Issued' /\ AllowedFor(r.decision, r.cfg)'
        /\ decisions'[r.decision].asked = decisions[r.decision].asked
    BY <2>1, TermsKept DEF Kept, SameTerms
  <2>3. AuthorizeOK(r)'   BY <1>1, <1>5, <2>2 DEF AuthorizeOK
  <2> QED BY <2>3 DEF RequestOK
<1> QED BY <1>2, <1>3, <1>4, <1>5 DEF RequestOK

LEMMA ProcKept ==
    ASSUME ProcOK, Kept, DecisionsOK, UNCHANGED server, NEW p \in Procs, NEW r,
           proc' = [proc EXCEPT ![p] = r], RequestOK(r)'
    PROVE  ProcOK'
<1>1. /\ proc' = [q \in Procs |-> proc'[q]] /\ proc'[p] = r
      /\ \A q \in Procs : q # p => proc'[q] = proc[q]
  BY Updated DEF ProcOK
<1>2. ASSUME NEW q \in Procs PROVE RequestOK(proc[q])'
  <2>1. PICK x : x = proc[q]   OBVIOUS
  <2>2. RequestOK(x)'   BY <2>1, RequestKept DEF ProcOK
  <2>3. PICK y : y = proc'[q]   OBVIOUS
  <2>4. RequestOK(y)'   BY <1>1, <2>1, <2>2, <2>3
  <2> QED BY <2>3, <2>4 DEF RequestOK, EvaluateOK, ReceiptOK, RegisterOK, AuthorizeOK
<1> QED BY <1>1, <1>2 DEF ProcOK

\* A request knows where it is.
LEMMA RequestAt ==
    ASSUME ProcOK, NEW p \in Procs
    PROVE  /\ proc[p].pc \in {"intent", "decide"} => EvaluateOK(proc[p])
           /\ proc[p].pc = "receipt" => ReceiptOK(proc[p])
           /\ proc[p].pc = "decision" => RegisterOK(proc[p])
           /\ proc[p].pc \in {"lock", "consume", "session", "commit"} => AuthorizeOK(proc[p])
           /\ proc[p].pc \notin {"intent", "decide", "receipt", "decision", "lock", "consume",
                                 "session", "commit"} => proc[p] = Idle
<1>1. RequestOK(proc[p])   BY DEF ProcOK
<1> QED BY <1>1 DEF RequestOK, Idle, EvaluateOK, ReceiptOK, RegisterOK, AuthorizeOK

LEMMA GotoChanges ==
    ASSUME ProcOK, NEW p \in Procs, NEW label, Goto(p, label)
    PROVE  proc' = [proc EXCEPT ![p] = [proc[p] EXCEPT !.pc = label]]
BY DEF Goto, ProcOK

\* The next statement of a transaction.
LEMMA AuthorizeOn ==
    ASSUME NEW r, AuthorizeOK(r), NEW label \in {"lock", "consume", "session", "commit"}
    PROVE  /\ AuthorizeOK([r EXCEPT !.pc = label])
           /\ [r EXCEPT !.pc = label].pc = label
           /\ [r EXCEPT !.pc = label].cfg = r.cfg
           /\ [r EXCEPT !.pc = label].decision = r.decision
BY DEF AuthorizeOK

\* The join of GetAllowDecision finds what was asked.
LEMMA JoinFinds ==
    ASSUME IntentsOK, DecisionsOK, NEW d \in Issued
    PROVE  (CHOOSE r \in intents : r.hash = decisions[d].hash).intent = decisions[d].asked
<1>1. decisions[d].hash = IntentHash(decisions[d].asked) /\ decisions[d].asked \in Intents
  BY Rows
<1>2. \E r \in intents : r.hash = decisions[d].hash   BY <1>1, Rows DEF SavedIntent
<1>3. PICK row : row = (CHOOSE r \in intents : r.hash = decisions[d].hash)   OBVIOUS
<1>4. row \in intents /\ row.hash = decisions[d].hash   BY <1>2, <1>3
<1>5. row.intent \in Intents /\ IntentHash(row.intent) = IntentHash(decisions[d].asked)
  BY <1>1, <1>4 DEF IntentsOK
<1> QED BY <1>1, <1>3, <1>5, HashInjective, ConstantTypes

LEMMA ServerStep == ServerOK /\ [Next]_vars => ServerOK'
<1> SUFFICES ASSUME ServerOK, [Next]_vars PROVE ServerOK'   OBVIOUS
<1>1. ASSUME NEW d \in Deployments, NEW repo, Start(d.env, repo, d.policy) PROVE ServerOK'
  <2>1. PICK c : c = Load(d.env)   OBVIOUS
  <2>2. c \in Configurations /\ d.policy \in Policies
    BY <2>1 DEF Configurations, Environments, Policies
  <2>3. /\ Validate(c) /\ repo \in Repositories(c)
        /\ server' = [cfg |-> c, repo |-> repo, policy |-> d.policy]
    BY <1>1, <2>1 DEF Start
  <2>4. repo = "postgres" \/ (repo = "noop" /\ c.local)   BY <2>3 DEF Repositories
  <2>5. server'.cfg = c /\ server'.repo = repo   BY <2>3
  <2> QED BY <2>2, <2>3, <2>4, <2>5 DEF ServerOK, Validate
<1>2. ASSUME Shutdown PROVE ServerOK'   BY <1>2 DEF Shutdown, ServerOK
<1>3. ASSUME UNCHANGED server PROVE ServerOK'   BY <1>3 DEF ServerOK, Validate
<1> QED
  BY <1>1, <1>2, <1>3
  DEF Next, vars, StartEvaluate, StartRegister, Handle, Stop, SaveIntent, SaveDecision,
      SaveReceipt, GetAllowDecision, LockDecision, ConsumeDecision, InsertSession, Commit

LEMMA ProcStep == AuthInv /\ [Next]_vars => ProcOK'
<1> SUFFICES ASSUME AuthInv, [Next]_vars PROVE ProcOK'   OBVIOUS
<1>0. /\ ProcOK /\ DecisionsOK /\ IntentsOK /\ NumbersOK /\ ServerOK /\ Kept
  BY KeptStep DEF AuthInv
<1>1. RequestOK(Idle)'   BY DEF RequestOK
<1>2. ASSUME NEW p \in Procs, Return(p), UNCHANGED server PROVE ProcOK'
  BY <1>0, <1>1, <1>2, ProcKept DEF Return
<1>3. ASSUME NEW p \in Procs, NEW a \in Asks, StartEvaluate(p, a.intent, a.key) PROVE ProcOK'
  <2>1. PICK r : r = [pc |-> "intent", intent |-> a.intent, key |-> a.key]   OBVIOUS
  <2>2. a.intent \in Intents   BY DEF Intents
  <2>3. EvaluateOK(r)'   BY <1>3, <2>1, <2>2 DEF EvaluateOK, StartEvaluate, Serving
  <2> QED BY <1>0, <1>3, <2>1, <2>3, ProcKept DEF StartEvaluate, RequestOK
<1>4. ASSUME NEW p \in Procs, NEW d \in Issued, NEW n \in NonceTexts, NEW w \in Windows, NEW key,
             StartRegister(p, d, n, w, key)
      PROVE  ProcOK'
  <2>1. PICK r : r = [pc |-> "decision", decision |-> d, nonce |-> n, window |-> w]   OBVIOUS
  <2>2. d \in Issued' /\ UNCHANGED server   BY <1>0, <1>4, TermsKept DEF StartRegister
  <2>3. RegisterOK(r)'
    BY <1>4, <2>1, <2>2 DEF RegisterOK, StartRegister, Serving, CosigningConfigured
  <2> QED BY <1>0, <1>4, <2>1, <2>2, <2>3, ProcKept DEF StartRegister, RequestOK
<1>5. ASSUME NEW p \in Procs, SaveIntent(p) PROVE ProcOK'
  <2>1. CASE Goto(p, "decide")
    <3>0. UNCHANGED server   BY <1>5 DEF SaveIntent
    <3>1. EvaluateOK(proc[p])   BY <1>0, <1>5, RequestAt DEF SaveIntent, At
    <3>2. PICK i : i = proc[p].intent   OBVIOUS
    <3>3. PICK r : r = [proc[p] EXCEPT !.pc = "decide"]   OBVIOUS
    <3>4. /\ r.pc = "decide" /\ r.intent = i
          /\ r \in [pc : {"intent", "decide"}, intent : Intents, key : {r.key}]
      BY <3>1, <3>2, <3>3 DEF EvaluateOK
    <3>5. Keeps => SavedIntent(i)'
      <4>1. CASE \E row \in intents : row.hash = IntentHash(i)
        BY <1>0, <4>1 DEF SavedIntent, Kept
      <4>2. CASE intents' = intents \cup {[hash |-> IntentHash(i), intent |-> i, key |-> proc[p].key]}
        <5>1. PICK row : row = [hash |-> IntentHash(i), intent |-> i, key |-> proc[p].key]   OBVIOUS
        <5>2. row \in intents' /\ row.hash = IntentHash(i)   BY <4>2, <5>1
        <5> QED BY <5>2 DEF SavedIntent
      <4>3. ASSUME Keeps, ~(\E row \in intents : row.hash = IntentHash(i)), IntentConflicts(proc[p].key),
                   Return(p)
            PROVE  FALSE
        <5>1. proc'[p] = r   BY <1>0, <2>1, <3>3, GotoChanges, Updated DEF ProcOK
        <5>2. proc'[p] = Idle   BY <1>0, <4>3, Updated DEF ProcOK, Return
        <5> QED BY <3>4, <5>1, <5>2 DEF Idle
      <4> QED BY <1>5, <3>2, <4>1, <4>2, <4>3 DEF SaveIntent
    <3>6. EvaluateOK(r)'   BY <3>0, <3>1, <3>4, <3>5 DEF EvaluateOK, Serving, Keeps
    <3> QED BY <1>0, <2>1, <3>0, <3>3, <3>6, GotoChanges, ProcKept DEF RequestOK
  <2> QED BY <1>2, <1>5, <2>1 DEF SaveIntent
<1>6. ASSUME NEW p \in Procs, SaveDecision(p) PROVE ProcOK'
  <2>0. UNCHANGED server /\ EvaluateOK(proc[p])
    BY <1>0, <1>6, RequestAt DEF SaveDecision, At
  <2>1. PICK i, pol, d : i = proc[p].intent /\ pol = server.policy /\ d = Cardinality(Issued) + 1
    OBVIOUS
  <2>2. PICK r : r = [pc |-> "receipt", decision |-> d,
                      payload |-> Payload(i, Evaluate(pol, PolicyInput(i)))]
    OBVIOUS
  <2>3. CASE Decision(pol, PolicyInput(i)) = "ALLOW" /\ proc' = [proc EXCEPT ![p] = r]
    <3>1. ASSUME Keeps PROVE ReceiptFor(d, r.payload)'
      <4>1. decisions' = [decisions EXCEPT ![d] = NewDecision(i, pol)]
        BY <1>6, <2>1, <3>1 DEF SaveDecision, NewDecision, Evaluate
      <4>2. d \in DecisionIds
        BY <1>0, <1>6, <2>1, NextNumber DEF SaveDecision, At, Evaluating
      <4>3. decisions'[d] = NewDecision(i, pol)   BY <1>0, <4>1, <4>2, Updated DEF DecisionsOK
      <4>4. /\ decisions'[d].decision = "ALLOW" /\ decisions'[d].asked = i
            /\ decisions'[d].policy = pol
        BY <2>3, <4>3 DEF NewDecision
      <4>5. d \in Issued'   BY <4>2, <4>4 DEF Issued, NoRow
      <4> QED BY <2>2, <4>4, <4>5 DEF ReceiptFor
    <3>2. ReceiptOK(r)'   BY <2>0, <2>2, <3>1 DEF ReceiptOK, EvaluateOK, Keeps, Serving
    <3> QED BY <1>0, <2>0, <2>3, <3>2, ProcKept DEF RequestOK
  <2>4. \/ Return(p)
        \/ Decision(pol, PolicyInput(i)) = "ALLOW" /\ proc' = [proc EXCEPT ![p] = r]
    BY <1>6, <2>1, <2>2 DEF SaveDecision, Evaluate
  <2> QED BY <1>2, <2>0, <2>3, <2>4
<1>7. ASSUME NEW p \in Procs, GetAllowDecision(p) PROVE ProcOK'
  <2>0. UNCHANGED server /\ RegisterOK(proc[p])
    BY <1>0, <1>7, RequestAt DEF GetAllowDecision, At
  <2>1. PICK d, n, w : d = proc[p].decision /\ n = proc[p].nonce /\ w = proc[p].window   OBVIOUS
  <2>2. d \in Issued /\ n \in NonceTexts   BY <2>0, <2>1 DEF RegisterOK
  <2>3. PICK asked, pol : asked = decisions[d].asked /\ pol = decisions[d].policy   OBVIOUS
  <2>4. PICK cfg : cfg = SessionConfig(asked, n, w, pol, Domain(server.cfg))   OBVIOUS
  <2>5. PICK r : r = [pc |-> "lock", decision |-> d, cfg |-> cfg, agent |-> asked.agent]   OBVIOUS
  <2>6. CASE /\ Keeps /\ decisions[d].decision = "ALLOW" /\ PolicyMatches(d) /\ ValidateV1(cfg)
             /\ proc' = [proc EXCEPT ![p] = r]
    <3>1. /\ cfg.nonce = n /\ cfg.window = w /\ cfg.domain = Domain(server.cfg) /\ cfg.policy = pol
      BY <2>4 DEF SessionConfig
    <3>2. AllowedFor(d, cfg)   BY <2>2, <2>3, <2>4, <2>6, <3>1 DEF AllowedFor
    <3>3. AuthorizeOK(r)
      BY <2>0, <2>2, <2>3, <2>5, <2>6, <3>1, <3>2
      DEF AuthorizeOK, RegisterOK, PolicyMatches
    <3> QED BY <1>0, <2>0, <2>6, <3>3, RequestKept, ProcKept DEF RequestOK
  <2>7. (CHOOSE x \in intents : x.hash = decisions[d].hash).intent = asked
    BY <1>0, <2>2, <2>3, JoinFinds
  <2>8. \/ Return(p)
        \/ /\ Keeps /\ decisions[d].decision = "ALLOW" /\ PolicyMatches(d) /\ ValidateV1(cfg)
           /\ proc' = [proc EXCEPT ![p] = r]
    BY <1>7, <2>1, <2>3, <2>4, <2>5, <2>7 DEF GetAllowDecision
  <2> QED BY <1>2, <2>0, <2>6, <2>8
<1>8. ASSUME NEW p \in Procs, LockDecision(p) \/ ConsumeDecision(p) \/ InsertSession(p) PROVE ProcOK'
  <2>0. UNCHANGED server /\ AuthorizeOK(proc[p])
    BY <1>0, <1>8, RequestAt DEF LockDecision, ConsumeDecision, InsertSession, At
  <2>1. ASSUME NEW label \in {"lock", "consume", "session", "commit"}, Goto(p, label) PROVE ProcOK'
    <3>1. PICK r : r = [proc[p] EXCEPT !.pc = label]   OBVIOUS
    <3>2. AuthorizeOK(r)   BY <2>0, <3>1, AuthorizeOn
    <3> QED BY <1>0, <2>0, <2>1, <3>1, <3>2, GotoChanges, RequestKept, ProcKept DEF RequestOK
  <2>2. Return(p) \/ Goto(p, "consume") \/ Goto(p, "session") \/ Goto(p, "commit")
    BY <1>8 DEF LockDecision, ConsumeDecision, InsertSession, Refuse, Answer
  <2> QED BY <1>2, <2>0, <2>1, <2>2
<1>9. ASSUME NEW p \in Procs, Commit(p) \/ SaveReceipt(p) \/ Stop(p) PROVE ProcOK'
  BY <1>2, <1>9 DEF Commit, SaveReceipt, Stop, Answer
<1>10. ASSUME NEW env, NEW repo, NEW pol, Start(env, repo, pol) PROVE ProcOK'
  <2>1. ASSUME NEW p \in Procs PROVE proc[p] = Idle
    BY <1>0, <1>10 DEF Start, ProcOK, RequestOK, EvaluateOK, ReceiptOK, RegisterOK, AuthorizeOK, Serving
  <2> QED BY <1>0, <1>10, <2>1 DEF Start, ProcOK, RequestOK
<1>11. ASSUME Shutdown PROVE ProcOK'
  BY <1>11 DEF Shutdown, ProcOK, RequestOK
<1>12. ASSUME UNCHANGED vars PROVE ProcOK'
  <2>1. ASSUME NEW p \in Procs PROVE RequestOK(proc[p])'
    <3>1. PICK x : x = proc[p]   OBVIOUS
    <3>2. RequestOK(x)'   BY <1>0, <1>12, <3>1, RequestKept DEF ProcOK, vars
    <3> QED BY <1>12, <3>1, <3>2
            DEF vars, RequestOK, EvaluateOK, ReceiptOK, RegisterOK, AuthorizeOK
  <2> QED BY <1>0, <1>12, <2>1 DEF ProcOK, vars
<1> QED
  BY <1>3, <1>4, <1>5, <1>6, <1>7, <1>8, <1>9, <1>10, <1>11, <1>12 DEF Next, Handle

-----------------------------------------------------------------------------
(* The tables.                                                             *)

LEMMA IntentsStep == AuthInv /\ [Next]_vars => IntentsOK'
<1> SUFFICES ASSUME AuthInv, [Next]_vars PROVE IntentsOK'   OBVIOUS
<1>0. IntentsOK /\ ProcOK   BY DEF AuthInv
<1>1. ASSUME NEW p \in Procs, SaveIntent(p) PROVE IntentsOK'
  <2>1. PICK i, k : i = proc[p].intent /\ k = proc[p].key   OBVIOUS
  <2>2. i \in Intents   BY <1>0, <1>1, <2>1, RequestAt DEF SaveIntent, At, EvaluateOK
  <2>3. PICK new : new = [hash |-> IntentHash(i), intent |-> i, key |-> k]   OBVIOUS
  <2>4. new.hash = IntentHash(i) /\ new.intent = i /\ new.key = k   BY <2>3
  <2>5. CASE /\ intents' = intents \cup {new}
             /\ ~(\E row \in intents : row.hash = IntentHash(i)) /\ ~IntentConflicts(k)
    BY <1>0, <2>2, <2>4, <2>5 DEF IntentsOK, IntentConflicts
  <2>6. CASE UNCHANGED intents   BY <1>0, <2>6 DEF IntentsOK
  <2> QED BY <1>1, <2>1, <2>3, <2>5, <2>6 DEF SaveIntent
<1>2. ASSUME UNCHANGED intents PROVE IntentsOK'   BY <1>0, <1>2 DEF IntentsOK
<1> QED
  BY <1>1, <1>2
  DEF Next, vars, tables, StartEvaluate, StartRegister, Handle, Stop, Start, Shutdown,
      SaveReceipt, GetAllowDecision, LockDecision, ConsumeDecision, InsertSession, SaveDecision,
      Commit

\* The rows of a step.
LEMMA DecisionRows ==
    ASSUME AuthInv, DecisionStep
    PROVE  /\ decisions' = [d \in DecisionIds |-> decisions'[d]]
           /\ \A d \in Issued' :
                 /\ decisions'[d] \in DecisionRow(decisions'[d])
                 /\ \/ d \in Issued
                    \/ /\ decisions'[d].consumed = NotConsumed /\ SavedIntent(decisions'[d].asked)
                       /\ \E p \in Procs : At(p, "decide") /\ d = Cardinality(Issued) + 1
<1>0. /\ DecisionsOK /\ NumbersOK /\ ProcOK /\ ServerOK
      /\ decisions = [d \in DecisionIds |-> decisions[d]]
      /\ \A d \in Issued : decisions[d] \in DecisionRow(decisions[d])
      /\ \A d \in DecisionIds : d \in Issued <=> decisions[d] # NoRow
      /\ \A d \in DecisionIds : d \in Issued' <=> decisions'[d] # NoRow
      /\ Issued \subseteq DecisionIds /\ Issued' \subseteq DecisionIds
  BY DEF AuthInv, DecisionsOK, Issued
<1>1. CASE UNCHANGED decisions   BY <1>0, <1>1
<1>2. ASSUME NEW p \in Procs, At(p, "decide"), Keeps,
             decisions' = [decisions EXCEPT ![Cardinality(Issued) + 1] =
                                NewDecision(proc[p].intent, server.policy)]
      PROVE  /\ decisions' = [d \in DecisionIds |-> decisions'[d]]
             /\ \A d \in Issued' :
                 /\ decisions'[d] \in DecisionRow(decisions'[d])
                 /\ \/ d \in Issued
                    \/ /\ decisions'[d].consumed = NotConsumed /\ SavedIntent(decisions'[d].asked)
                       /\ d = Cardinality(Issued) + 1
  <2>1. PICK i, pol, n : i = proc[p].intent /\ pol = server.policy /\ n = Cardinality(Issued) + 1
    OBVIOUS
  <2>2. n \in DecisionIds   BY <1>0, <1>2, <2>1, NextNumber DEF Evaluating, At
  <2>3. i \in Intents /\ SavedIntent(i) /\ server # Down
    BY <1>0, <1>2, <2>1, RequestAt DEF At, EvaluateOK, Serving
  <2>4. pol \in Policies   BY <1>0, <2>1, <2>3 DEF ServerOK
  <2>5. PICK row : row = NewDecision(i, pol)   OBVIOUS
  <2>6. row \in DecisionRow(row) /\ row.consumed = NotConsumed /\ row.asked = i
    BY <2>3, <2>4, <2>5 DEF NewDecision, DecisionRow
  <2>7. /\ decisions' = [d \in DecisionIds |-> decisions'[d]] /\ decisions'[n] = row
        /\ \A d \in DecisionIds : d # n => decisions'[d] = decisions[d]
    BY <1>0, <1>2, <2>1, <2>2, <2>5, Updated
  <2> QED BY <1>0, <2>1, <2>3, <2>6, <2>7
<1>3. ASSUME NEW p \in Procs, At(p, "commit"),
             decisions' = [decisions EXCEPT ![proc[p].decision].consumed =
                                {SessionIdOf(proc[p].cfg)}]
      PROVE  /\ decisions' = [d \in DecisionIds |-> decisions'[d]]
             /\ \A d \in Issued' : decisions'[d] \in DecisionRow(decisions'[d]) /\ d \in Issued
  <2>1. PICK d0, x : d0 = proc[p].decision /\ x = {SessionIdOf(proc[p].cfg)}   OBVIOUS
  <2>2. d0 \in Issued   BY <1>0, <1>3, <2>1, RequestAt DEF At, AuthorizeOK
  <2>3. PICK row : row = [decisions[d0] EXCEPT !.consumed = x]   OBVIOUS
  <2>4. row \in DecisionRow(row)   BY <1>0, <2>2, <2>3 DEF DecisionRow
  <2>5. decisions' = [decisions EXCEPT ![d0] = row]   BY <1>0, <1>3, <2>1, <2>3
  <2>6. /\ decisions' = [d \in DecisionIds |-> decisions'[d]] /\ decisions'[d0] = row
        /\ \A d \in DecisionIds : d # d0 => decisions'[d] = decisions[d]
    BY <1>0, <2>2, <2>5, Updated
  <2> QED BY <1>0, <2>2, <2>4, <2>6
<1> QED BY <1>1, <1>2, <1>3 DEF DecisionStep

LEMMA DecisionsStep == AuthInv /\ [Next]_vars => DecisionsOK'
<1> SUFFICES ASSUME AuthInv, [Next]_vars PROVE DecisionsOK'   OBVIOUS
<1>0. DecisionsOK /\ Kept /\ DecisionStep   BY KeptStep, DecisionChange DEF AuthInv
<1>1. ASSUME NEW d \in Issued' PROVE SavedIntent(decisions[d].asked)'
  <2>1. CASE d \in Issued
    <3>1. PICK i : i = decisions[d].asked   OBVIOUS
    <3>2. SavedIntent(i)' /\ decisions'[d].asked = i
      BY <1>0, <2>1, <3>1, Rows, TermsKept DEF Kept, SameTerms
    <3> QED BY <3>2 DEF SavedIntent
  <2>2. CASE SavedIntent(decisions'[d].asked)
    <3>1. PICK i : i = decisions'[d].asked   OBVIOUS
    <3>2. SavedIntent(i)'   BY <1>0, <2>2, <3>1, TermsKept
    <3> QED BY <3>1, <3>2 DEF SavedIntent
  <2> QED BY <1>0, <2>1, <2>2, DecisionRows
<1> QED BY <1>0, <1>1, DecisionRows DEF DecisionsOK, DecisionRow

LEMMA ReceiptsStep == AuthInv /\ [Next]_vars => ReceiptsOK'
<1> SUFFICES ASSUME AuthInv, [Next]_vars PROVE ReceiptsOK'   OBVIOUS
<1>0. DecisionsOK /\ Kept /\ ReceiptsOK /\ ProcOK   BY KeptStep DEF AuthInv
<1>1. ASSUME NEW r \in receipts PROVE ReceiptFor(r.decision, r.signed.payload)'
  BY <1>0, TermsKept DEF ReceiptsOK
<1>2. ASSUME NEW p \in Procs, SaveReceipt(p) PROVE ReceiptsOK'
  <2>1. PICK d, pl, c : d = proc[p].decision /\ pl = proc[p].payload /\ c = server.cfg   OBVIOUS
  <2>2. PICK new : new = [decision |-> d, signed |-> SignReceipt(c, pl)]   OBVIOUS
  <2>3. new.decision = d /\ new.signed.payload = pl   BY <2>2 DEF SignReceipt
  <2>4. ReceiptOK(proc[p])   BY <1>0, <1>2, RequestAt DEF SaveReceipt, At
  <2>5. CASE Keeps /\ receipts' = receipts \cup {new}
    <3>1. ReceiptFor(d, pl)'   BY <1>0, <2>1, <2>4, <2>5, TermsKept DEF ReceiptOK
    <3> QED BY <1>1, <2>3, <2>5, <3>1 DEF ReceiptsOK
  <2>6. CASE UNCHANGED receipts   BY <1>1, <2>6 DEF ReceiptsOK
  <2> QED BY <1>2, <2>1, <2>2, <2>5, <2>6 DEF SaveReceipt
<1>3. ASSUME UNCHANGED receipts PROVE ReceiptsOK'   BY <1>1, <1>3 DEF ReceiptsOK
<1> QED
  BY <1>2, <1>3
  DEF Next, vars, tables, StartEvaluate, StartRegister, Handle, Stop, Start, Shutdown, SaveIntent,
      GetAllowDecision, LockDecision, ConsumeDecision, InsertSession, SaveDecision, Commit

\* All but a commit leave the sessions and what was consumed alone.
SessionStep ==
    \/ /\ UNCHANGED sessions
       /\ \A d \in Issued' : \/ decisions'[d].consumed = NotConsumed /\ d \notin Issued
                             \/ d \in Issued /\ decisions'[d].consumed = decisions[d].consumed
    \/ \E p \in Procs : Commit(p)

LEMMA SessionChange == AuthInv /\ [Next]_vars => SessionStep
<1> SUFFICES ASSUME AuthInv, [Next]_vars PROVE SessionStep   OBVIOUS
<1>0. DecisionsOK /\ Kept /\ DecisionStep /\ NumbersOK   BY KeptStep, DecisionChange DEF AuthInv
<1>1. ASSUME NEW p \in Procs, SaveDecision(p) PROVE SessionStep
  <2>1. UNCHANGED sessions   BY <1>1 DEF SaveDecision
  <2>2. ASSUME NEW d \in Issued', d \in Issued PROVE decisions'[d].consumed = decisions[d].consumed
    <3>1. d # Cardinality(Issued) + 1 /\ d \in DecisionIds
      BY <1>0, <1>1, <2>2, NextNumber DEF SaveDecision, At, Evaluating, Issued
    <3> QED BY <1>0, <1>1, <3>1 DEF SaveDecision, DecisionsOK
  <2> QED BY <1>0, <2>1, <2>2, DecisionRows DEF SessionStep
<1>2. ASSUME UNCHANGED <<decisions, sessions>> PROVE SessionStep
  BY <1>2 DEF SessionStep, Issued
<1> QED
  BY <1>1, <1>2
  DEF Next, vars, tables, StartEvaluate, StartRegister, Handle, Stop, Start, Shutdown, SaveIntent,
      SaveReceipt, GetAllowDecision, LockDecision, ConsumeDecision, InsertSession, BeforeCommit,
      SessionStep

\* What a commit writes.
LEMMA CommitWrites ==
    ASSUME AuthInv, NEW p \in Procs, Commit(p)
    PROVE  /\ AuthorizeOK(proc[p])
           /\ decisions'[proc[p].decision].consumed = {SessionIdOf(proc[p].cfg)}
           /\ \A d \in Issued : d # proc[p].decision => decisions'[d] = decisions[d]
           /\ Issued' \subseteq Issued
<1>0. DecisionsOK /\ ProcOK /\ DecisionStep
  BY DEF AuthInv, DecisionStep, Commit
<1>1. AuthorizeOK(proc[p])   BY <1>0, RequestAt DEF Commit, At
<1>2. PICK d0, x : d0 = proc[p].decision /\ x = {SessionIdOf(proc[p].cfg)}   OBVIOUS
<1>3. d0 \in Issued /\ d0 \in DecisionIds   BY <1>0, <1>1, <1>2, Rows DEF AuthorizeOK
<1>4. decisions' = [decisions EXCEPT ![d0] = [decisions[d0] EXCEPT !.consumed = x]]
  BY <1>0, <1>2, <1>3 DEF Commit, DecisionsOK
<1>5. /\ decisions'[d0] = [decisions[d0] EXCEPT !.consumed = x]
      /\ \A d \in DecisionIds : d # d0 => decisions'[d] = decisions[d]
  BY <1>0, <1>3, <1>4, Updated DEF DecisionsOK
<1>6. decisions'[d0].consumed = x   BY <1>0, <1>3, <1>5 DEF DecisionsOK, DecisionRow
<1> QED BY <1>1, <1>2, <1>3, <1>5, <1>6 DEF Issued

LEMMA SessionsStep == AuthInv /\ [Next]_vars => SessionsOK'
<1> SUFFICES ASSUME AuthInv, [Next]_vars PROVE SessionsOK'   OBVIOUS
<1>0. DecisionsOK /\ Kept /\ SessionsOK /\ ProcOK /\ LockedOK /\ SessionStep
  BY KeptStep, SessionChange DEF AuthInv
<1>1. ASSUME NEW s \in sessions
      PROVE  /\ s.id = SessionIdOf(s.cfg)
             /\ \E d \in Issued' : /\ AllowedFor(d, s.cfg)' /\ decisions'[d].consumed = {s.id}
                                   /\ s.agent = decisions'[d].asked.agent
  <2>1. PICK d \in Issued : /\ AllowedFor(d, s.cfg) /\ decisions[d].consumed = {s.id}
                            /\ s.agent = decisions[d].asked.agent
    BY <1>0 DEF SessionsOK
  <2>2. d \in Issued' /\ AllowedFor(d, s.cfg)'   BY <1>0, <2>1, TermsKept
  <2>3. decisions'[d].consumed = {s.id} /\ decisions'[d].asked = decisions[d].asked
    BY <1>0, <2>1 DEF Kept, SameTerms, NotConsumed
  <2> QED BY <1>0, <2>1, <2>2, <2>3 DEF SessionsOK
<1>2. ASSUME UNCHANGED sessions,
             \A d \in Issued' : \/ decisions'[d].consumed = NotConsumed /\ d \notin Issued
                                \/ d \in Issued /\ decisions'[d].consumed = decisions[d].consumed
      PROVE  SessionsOK'
  <2>1. ASSUME NEW s \in sessions'
        PROVE  /\ s.id = SessionIdOf(s.cfg)
               /\ \E d \in Issued' : /\ AllowedFor(d, s.cfg)' /\ decisions'[d].consumed = {s.id}
                                     /\ s.agent = decisions'[d].asked.agent
    BY <1>1, <1>2
  <2>2. \A r, t \in sessions' : r.id = t.id \/ Lane(r.cfg) = Lane(t.cfg) => r = t
    BY <1>0, <1>2 DEF SessionsOK
  <2>3. \A d \in Issued' : \/ decisions'[d].consumed = NotConsumed
                           \/ \E s \in sessions' : decisions'[d].consumed = {s.id}
    BY <1>0, <1>2 DEF SessionsOK
  <2>4. \A d, e \in Issued' : /\ decisions'[d].consumed = decisions'[e].consumed
                              /\ decisions'[d].consumed # NotConsumed
                              => d = e
    BY <1>0, <1>2 DEF SessionsOK
  <2> QED BY <2>1, <2>2, <2>3, <2>4 DEF SessionsOK
<1>3. ASSUME NEW p \in Procs, Commit(p) PROVE SessionsOK'
  <2>1. PICK d0, cfg, id, agent : /\ d0 = proc[p].decision /\ cfg = proc[p].cfg
                                  /\ id = SessionIdOf(cfg) /\ agent = proc[p].agent
    OBVIOUS
  <2>2. PICK new : new = [id |-> id, cfg |-> cfg, agent |-> agent]   OBVIOUS
  <2>3. /\ new.id = id /\ new.cfg = cfg /\ new.agent = agent
        /\ sessions' = sessions \cup {new}
    BY <1>3, <2>1, <2>2 DEF Commit
  <2>4. /\ AuthorizeOK(proc[p]) /\ decisions'[d0].consumed = {id} /\ Issued' \subseteq Issued
        /\ \A d \in Issued : d # d0 => decisions'[d] = decisions[d]
    BY <1>3, <2>1, CommitWrites
  <2>5. d0 \in Issued /\ AllowedFor(d0, cfg) /\ agent = decisions[d0].asked.agent
    BY <2>1, <2>4 DEF AuthorizeOK
  <2>6. /\ d0 \in Issued' /\ AllowedFor(d0, cfg)' /\ decisions'[d0].asked = decisions[d0].asked
    BY <1>0, <2>5, TermsKept DEF Kept, SameTerms
  <2>7. /\ \A d \in Issued : decisions[d].consumed # {id}
        /\ \A s \in sessions : Lane(s.cfg) # Lane(cfg)
    BY <1>0, <1>3, <2>1 DEF LockedOK, Commit, At, Consuming
  <2>8. ASSUME NEW s \in sessions'
        PROVE  /\ s.id = SessionIdOf(s.cfg)
               /\ \E d \in Issued' : /\ AllowedFor(d, s.cfg)' /\ decisions'[d].consumed = {s.id}
                                     /\ s.agent = decisions'[d].asked.agent
    BY <1>1, <2>1, <2>3, <2>4, <2>5, <2>6
  <2>9. \A s \in sessions : s.id # id   BY <1>0, <2>7 DEF SessionsOK
  <2>10. \A r, t \in sessions' : r.id = t.id \/ Lane(r.cfg) = Lane(t.cfg) => r = t
    BY <1>0, <2>3, <2>7, <2>9 DEF SessionsOK
  <2>11. \A d \in Issued' : \/ decisions'[d].consumed = NotConsumed
                            \/ \E s \in sessions' : decisions'[d].consumed = {s.id}
    BY <1>0, <2>3, <2>4 DEF SessionsOK
  <2>12. \A d, e \in Issued' : /\ decisions'[d].consumed = decisions'[e].consumed
                               /\ decisions'[d].consumed # NotConsumed
                               => d = e
    BY <1>0, <2>4, <2>7 DEF SessionsOK
  <2> QED BY <2>8, <2>10, <2>11, <2>12 DEF SessionsOK
<1> QED BY <1>0, <1>2, <1>3 DEF SessionStep

-----------------------------------------------------------------------------
(* The signatures.                                                         *)

\* The signature that answers request p.
Signed(p) ==
    [decision |-> proc[p].decision, cfg |-> proc[p].cfg,
     signature |-> SignRailguard(server.cfg, proc[p].cfg, NonceValue[proc[p].cfg.nonce])]

\* A step that answers a request has its decision consumed.
CosignStep ==
    \/ UNCHANGED cosigned
    \/ \E p \in Procs :
          /\ AuthorizeOK(proc[p])
          /\ decisions'[proc[p].decision].consumed = {SessionIdOf(proc[p].cfg)}
          /\ cosigned' = cosigned \cup {Signed(p)}

LEMMA CosignChange == AuthInv /\ [Next]_vars => CosignStep
<1> SUFFICES ASSUME AuthInv, [Next]_vars PROVE CosignStep   OBVIOUS
<1>1. ASSUME NEW p \in Procs, LockDecision(p), SameSession(proc[p].decision, SessionIdOf(proc[p].cfg)),
             Answer(p)
      PROVE  CosignStep
  <2>1. AuthorizeOK(proc[p])   BY <1>1, RequestAt DEF AuthInv, LockDecision, At
  <2>2. UNCHANGED decisions   BY <1>1 DEF LockDecision, tables
  <2> QED BY <1>1, <2>1, <2>2 DEF CosignStep, SameSession, Answer, Signed
<1>2. ASSUME NEW p \in Procs, LockDecision(p) PROVE CosignStep
  BY <1>1, <1>2 DEF LockDecision, CosignStep
<1>3. ASSUME NEW p \in Procs, Commit(p), Answer(p) PROVE CosignStep
  BY <1>3, CommitWrites DEF CosignStep, Answer, Signed
<1>4. ASSUME NEW p \in Procs, Commit(p) PROVE CosignStep
  BY <1>3, <1>4 DEF Commit, CosignStep
<1>5. ASSUME UNCHANGED cosigned PROVE CosignStep   BY <1>5 DEF CosignStep
<1> QED
  BY <1>2, <1>4, <1>5
  DEF Next, vars, tables, StartEvaluate, StartRegister, Handle, Stop, Start, Shutdown, SaveIntent,
      SaveReceipt, GetAllowDecision, ConsumeDecision, InsertSession, SaveDecision

LEMMA CosignedStep == AuthInv /\ [Next]_vars => CosignedOK'
<1> SUFFICES ASSUME AuthInv, [Next]_vars PROVE CosignedOK'   OBVIOUS
<1>0. DecisionsOK /\ Kept /\ CosignedOK /\ CosignStep
  BY KeptStep, CosignChange DEF AuthInv
<1>1. ASSUME NEW c \in cosigned
      PROVE  /\ AllowedFor(c.decision, c.cfg)'
             /\ decisions'[c.decision].consumed = {SessionIdOf(c.cfg)}
             /\ \E sc \in Configurations :
                   /\ Domain(sc) = c.cfg.domain
                   /\ c.signature.digest = TypedData(sc, c.cfg, NonceValue[c.cfg.nonce])
  <2>1. /\ AllowedFor(c.decision, c.cfg)
        /\ decisions[c.decision].consumed = {SessionIdOf(c.cfg)}
        /\ \E sc \in Configurations :
              /\ Domain(sc) = c.cfg.domain
              /\ c.signature.digest = TypedData(sc, c.cfg, NonceValue[c.cfg.nonce])
    BY <1>0 DEF CosignedOK
  <2>2. c.decision \in Issued /\ AllowedFor(c.decision, c.cfg)'
    BY <1>0, <2>1, TermsKept DEF AllowedFor
  <2> QED BY <1>0, <2>1, <2>2 DEF Kept, NotConsumed
<1>2. ASSUME NEW p \in Procs, AuthorizeOK(proc[p]), cosigned' = cosigned \cup {Signed(p)},
             decisions'[proc[p].decision].consumed = {SessionIdOf(proc[p].cfg)}
      PROVE  CosignedOK'
  <2>1. PICK d, cfg, sc : d = proc[p].decision /\ cfg = proc[p].cfg /\ sc = server.cfg   OBVIOUS
  <2>2. PICK new : new = [decision |-> d, cfg |-> cfg,
                          signature |-> SignRailguard(sc, cfg, NonceValue[cfg.nonce])]
    OBVIOUS
  <2>3. /\ new.decision = d /\ new.cfg = cfg
        /\ new.signature.digest = TypedData(sc, cfg, NonceValue[cfg.nonce])
    BY <2>2 DEF SignRailguard
  <2>4. AllowedFor(d, cfg)' /\ cfg.domain = Domain(sc) /\ sc \in Configurations
    BY <1>0, <1>2, <2>1, TermsKept DEF AuthorizeOK, AuthInv, ServerOK, Serving
  <2>5. cosigned' = cosigned \cup {new}   BY <1>2, <2>1, <2>2 DEF Signed
  <2>6. ASSUME NEW c \in cosigned'
        PROVE  /\ AllowedFor(c.decision, c.cfg)'
               /\ decisions'[c.decision].consumed = {SessionIdOf(c.cfg)}
               /\ \E x \in Configurations :
                     /\ Domain(x) = c.cfg.domain
                     /\ c.signature.digest = TypedData(x, c.cfg, NonceValue[c.cfg.nonce])
    BY <1>1, <1>2, <2>1, <2>3, <2>4, <2>5
  <2> QED BY <2>6 DEF CosignedOK
<1>3. ASSUME UNCHANGED cosigned PROVE CosignedOK'   BY <1>1, <1>3 DEF CosignedOK
<1> QED BY <1>0, <1>2, <1>3 DEF CosignStep

-----------------------------------------------------------------------------
(* The locks.                                                              *)

\* Request p goes on to the next statement of its transaction, which finds
\* nothing that is in its way.
Acquire(p) ==
    /\ UNCHANGED <<decisions, sessions>>
    /\ \A q \in Others(p) : proc'[q] = proc[q]
    /\ proc'[p].decision = proc[p].decision /\ proc'[p].cfg = proc[p].cfg
    /\ \/ /\ proc'[p].pc = "consume"
          /\ decisions[proc[p].decision].consumed = NotConsumed
          /\ \A q \in Others(p) : ~HoldsDecision(q, proc[p].decision)
       \/ /\ proc[p].pc = "consume" /\ proc'[p].pc = "session"
          /\ \A d \in Issued : decisions[d].consumed # {SessionIdOf(proc[p].cfg)}
          /\ \A q \in Others(p) : ~HoldsConsumed(q, SessionIdOf(proc[p].cfg))
       \/ /\ proc[p].pc = "session" /\ proc'[p].pc = "commit"
          /\ \A s \in sessions : Lane(s.cfg) # Lane(proc[p].cfg)
          /\ \A q \in Others(p) : ~HoldsLane(q, Lane(proc[p].cfg))

\* All others keep their locks or give them up.
LockStep ==
    \/ \A p \in Procs : proc'[p] = proc[p] \/ ~Holding(p)'
    \/ \E p \in Procs : Acquire(p)

LEMMA LockChange == AuthInv /\ [Next]_vars => LockStep
<1> SUFFICES ASSUME AuthInv, [Next]_vars PROVE LockStep   OBVIOUS
<1>0. ProcOK   BY DEF AuthInv
<1>1. ASSUME NEW p \in Procs, NEW r, proc' = [proc EXCEPT ![p] = r],
             r.pc \notin {"consume", "session", "commit"}
      PROVE  LockStep
  <2>1. proc'[p] = r /\ \A q \in Procs : q # p => proc'[q] = proc[q]
    BY <1>0, <1>1, Updated DEF ProcOK
  <2> QED BY <1>1, <2>1 DEF LockStep, Holding
<1>2. ASSUME NEW p \in Procs, Return(p) PROVE LockStep
  BY <1>1, <1>2 DEF Return, Idle
<1>3. ASSUME NEW p \in Procs, SaveIntent(p) PROVE LockStep
  <2>1. CASE Goto(p, "decide")
    <3>1. PICK r : r = [proc[p] EXCEPT !.pc = "decide"]   OBVIOUS
    <3>2. EvaluateOK(proc[p])   BY <1>0, <1>3, RequestAt DEF SaveIntent, At
    <3>3. r.pc = "decide"   BY <3>1, <3>2 DEF EvaluateOK
    <3>4. proc' = [proc EXCEPT ![p] = r]   BY <1>0, <2>1, <3>1, GotoChanges
    <3> QED BY <1>1, <3>3, <3>4
  <2> QED BY <1>2, <1>3, <2>1 DEF SaveIntent
<1>4. ASSUME NEW p \in Procs, NEW i, NEW k, StartEvaluate(p, i, k) PROVE LockStep
  <2>1. PICK r : r = [pc |-> "intent", intent |-> i, key |-> k]   OBVIOUS
  <2> QED BY <1>1, <1>4, <2>1 DEF StartEvaluate
<1>5. ASSUME NEW p \in Procs, NEW d, NEW n, NEW w, NEW key, StartRegister(p, d, n, w, key)
      PROVE  LockStep
  <2>1. PICK r : r = [pc |-> "decision", decision |-> d, nonce |-> n, window |-> w]   OBVIOUS
  <2> QED BY <1>1, <1>5, <2>1 DEF StartRegister
<1>6. ASSUME NEW p \in Procs, SaveDecision(p) PROVE LockStep
  <2>1. PICK r : r = [pc |-> "receipt", decision |-> Cardinality(Issued) + 1,
                      payload |-> Payload(proc[p].intent, Evaluate(server.policy, PolicyInput(proc[p].intent)))]
    OBVIOUS
  <2>2. r.pc = "receipt"   BY <2>1
  <2>3. Return(p) \/ proc' = [proc EXCEPT ![p] = r]   BY <1>6, <2>1 DEF SaveDecision
  <2> QED BY <1>1, <1>2, <2>2, <2>3
<1>7. ASSUME NEW p \in Procs, GetAllowDecision(p) PROVE LockStep
  <2>1. PICK d, row : d = proc[p].decision /\ row = (CHOOSE x \in intents : x.hash = decisions[d].hash)
    OBVIOUS
  <2>2. PICK r : r = [pc |-> "lock", decision |-> d,
                      cfg |-> SessionConfig(row.intent, proc[p].nonce, proc[p].window,
                                            decisions[d].policy, Domain(server.cfg)),
                      agent |-> row.intent.agent]
    OBVIOUS
  <2>3. r.pc = "lock"   BY <2>2
  <2>4. Return(p) \/ proc' = [proc EXCEPT ![p] = r]   BY <1>7, <2>1, <2>2 DEF GetAllowDecision
  <2> QED BY <1>1, <1>2, <2>3, <2>4
<1>8. ASSUME NEW p \in Procs, NEW label \in {"consume", "session", "commit"}, Goto(p, label),
             AuthorizeOK(proc[p])
      PROVE  /\ \A q \in Others(p) : proc'[q] = proc[q]
             /\ proc'[p].decision = proc[p].decision /\ proc'[p].cfg = proc[p].cfg
             /\ proc'[p].pc = label
  <2>1. PICK r : r = [proc[p] EXCEPT !.pc = label]   OBVIOUS
  <2>2. r.decision = proc[p].decision /\ r.cfg = proc[p].cfg /\ r.pc = label
    BY <1>8, <2>1, AuthorizeOn
  <2>3. proc'[p] = r /\ \A q \in Procs : q # p => proc'[q] = proc[q]
    BY <1>0, <1>8, <2>1, GotoChanges, Updated DEF ProcOK
  <2> QED BY <2>2, <2>3 DEF Others
<1>9. ASSUME NEW p \in Procs, LockDecision(p) PROVE LockStep
  <2>1. AuthorizeOK(proc[p])   BY <1>0, <1>9, RequestAt DEF LockDecision, At
  <2>2. CASE decisions[proc[p].decision].consumed = NotConsumed /\ Goto(p, "consume")
    <3>1. Acquire(p)   BY <1>8, <1>9, <2>1, <2>2 DEF Acquire, LockDecision, tables
    <3> QED BY <3>1 DEF LockStep
  <2> QED BY <1>2, <1>9, <2>2 DEF LockDecision, Answer, Refuse
<1>10. ASSUME NEW p \in Procs, ConsumeDecision(p) PROVE LockStep
  <2>1. AuthorizeOK(proc[p])   BY <1>0, <1>10, RequestAt DEF ConsumeDecision, At
  <2>2. CASE /\ Goto(p, "session") /\ UNCHANGED decisions
             /\ \A d \in Issued : decisions[d].consumed # {SessionIdOf(proc[p].cfg)}
    <3>1. Acquire(p)   BY <1>8, <1>10, <2>1, <2>2 DEF Acquire, ConsumeDecision, At
    <3> QED BY <3>1 DEF LockStep
  <2> QED BY <1>2, <1>10, <2>2 DEF ConsumeDecision, Refuse, BeforeCommit
<1>11. ASSUME NEW p \in Procs, InsertSession(p) PROVE LockStep
  <2>1. AuthorizeOK(proc[p])   BY <1>0, <1>11, RequestAt DEF InsertSession, At
  <2>2. CASE Goto(p, "commit") /\ ~LaneTaken(proc[p].cfg)
    <3>1. Acquire(p)   BY <1>8, <1>11, <2>1, <2>2 DEF Acquire, InsertSession, At, tables, LaneTaken
    <3> QED BY <3>1 DEF LockStep
  <2> QED BY <1>2, <1>11, <2>2 DEF InsertSession, Refuse
<1>12. ASSUME NEW p \in Procs, Commit(p) \/ SaveReceipt(p) \/ Stop(p) PROVE LockStep
  BY <1>2, <1>12 DEF Commit, SaveReceipt, Stop, Answer
<1>13. ASSUME Shutdown PROVE LockStep   BY <1>13 DEF Shutdown, LockStep, Holding, Idle
<1>14. ASSUME UNCHANGED proc PROVE LockStep   BY <1>14 DEF LockStep
<1> QED
  BY <1>3, <1>4, <1>5, <1>6, <1>7, <1>9, <1>10, <1>11, <1>12, <1>13, <1>14
  DEF Next, Handle, vars, Start

LEMMA LocksStep == AuthInv /\ [Next]_vars => LocksOK'
<1> SUFFICES ASSUME AuthInv, [Next]_vars PROVE LocksOK'   OBVIOUS
<1>0. LocksOK /\ LockStep   BY LockChange DEF AuthInv
<1>1. CASE \A p \in Procs : proc'[p] = proc[p] \/ ~Holding(p)'
  BY <1>0, <1>1 DEF LocksOK, Holding, Consuming, At
<1>2. ASSUME NEW p \in Procs, Acquire(p) PROVE LocksOK'
  <2>1. \A q, r \in Procs : q # p /\ r # p /\ q # r =>
            /\ Holding(q)' /\ Holding(r)' => proc'[q].decision # proc'[r].decision
            /\ Consuming(q)' /\ Consuming(r)' =>
                  SessionIdOf(proc'[q].cfg) # SessionIdOf(proc'[r].cfg)
            /\ At(q, "commit")' /\ At(r, "commit")' => Lane(proc'[q].cfg) # Lane(proc'[r].cfg)
    BY <1>0, <1>2 DEF LocksOK, Acquire, Others, Holding, Consuming, At
  <2>2. \A q \in Procs : q # p =>
            /\ Holding(p)' /\ Holding(q)' => proc'[p].decision # proc'[q].decision
            /\ Consuming(p)' /\ Consuming(q)' =>
                  SessionIdOf(proc'[p].cfg) # SessionIdOf(proc'[q].cfg)
            /\ At(p, "commit")' /\ At(q, "commit")' => Lane(proc'[p].cfg) # Lane(proc'[q].cfg)
    BY <1>0, <1>2
    DEF LocksOK, Acquire, Others, Holding, Consuming, At, HoldsDecision, HoldsConsumed, HoldsLane
  <2> QED BY <2>1, <2>2 DEF LocksOK
<1> QED BY <1>0, <1>1, <1>2 DEF LockStep

LEMMA LockedStep == AuthInv /\ [Next]_vars => LockedOK'
<1> SUFFICES ASSUME AuthInv, [Next]_vars PROVE LockedOK'   OBVIOUS
<1>0. /\ LocksOK /\ LockStep /\ LockedOK /\ SessionStep /\ ProcOK /\ DecisionsOK /\ Kept
  BY LockChange, SessionChange, KeptStep DEF AuthInv
<1>1. ASSUME NEW p \in Procs, proc'[p] = proc[p], Holding(p)
      PROVE  /\ decisions'[proc[p].decision].consumed = NotConsumed
             /\ Consuming(p) => \A d \in Issued' : decisions'[d].consumed # {SessionIdOf(proc[p].cfg)}
             /\ At(p, "commit") => \A s \in sessions' : Lane(s.cfg) # Lane(proc[p].cfg)
  <2>1. PICK d0, cfg, id : d0 = proc[p].decision /\ cfg = proc[p].cfg /\ id = SessionIdOf(cfg)
    OBVIOUS
  <2>2. d0 \in Issued /\ d0 \in Issued'
    BY <1>0, <1>1, <2>1, RequestAt, TermsKept DEF Holding, AuthorizeOK
  <2>3. /\ decisions[d0].consumed = NotConsumed
        /\ Consuming(p) => \A d \in Issued : decisions[d].consumed # {id}
        /\ At(p, "commit") => \A s \in sessions : Lane(s.cfg) # Lane(cfg)
    BY <1>0, <1>1, <2>1 DEF LockedOK
  <2>4. ASSUME NEW q \in Procs, Commit(q)
        PROVE  /\ decisions'[d0].consumed = NotConsumed
               /\ Consuming(p) => \A d \in Issued' : decisions'[d].consumed # {id}
               /\ At(p, "commit") => \A s \in sessions' : Lane(s.cfg) # Lane(cfg)
    <3>1. proc'[q] = Idle
      BY <1>0, <2>4, Updated DEF Commit, Answer, Return, ProcOK
    <3>2. q # p   BY <1>1, <3>1 DEF Holding, Idle
    <3>3. PICK e0, ecfg : e0 = proc[q].decision /\ ecfg = proc[q].cfg   OBVIOUS
    <3>4. At(q, "commit") /\ Holding(q) /\ Consuming(q)   BY <2>4 DEF Commit, At, Holding, Consuming
    <3>5. /\ d0 # e0
          /\ Consuming(p) => id # SessionIdOf(ecfg)
          /\ At(p, "commit") => Lane(cfg) # Lane(ecfg)
      BY <1>0, <1>1, <2>1, <3>2, <3>3, <3>4 DEF LocksOK
    <3>6. /\ decisions'[e0].consumed = {SessionIdOf(ecfg)} /\ Issued' \subseteq Issued
          /\ \A d \in Issued : d # e0 => decisions'[d] = decisions[d]
      BY <2>4, <3>3, CommitWrites
    <3>7. PICK new : new = [id |-> SessionIdOf(ecfg), cfg |-> ecfg, agent |-> proc[q].agent]   OBVIOUS
    <3>8. sessions' = sessions \cup {new} /\ new.cfg = ecfg   BY <2>4, <3>3, <3>7 DEF Commit
    <3> QED BY <2>2, <2>3, <3>5, <3>6, <3>8
  <2>5. ASSUME UNCHANGED sessions,
               \A d \in Issued' : \/ decisions'[d].consumed = NotConsumed /\ d \notin Issued
                                  \/ d \in Issued /\ decisions'[d].consumed = decisions[d].consumed
        PROVE  /\ decisions'[d0].consumed = NotConsumed
               /\ Consuming(p) => \A d \in Issued' : decisions'[d].consumed # {id}
               /\ At(p, "commit") => \A s \in sessions' : Lane(s.cfg) # Lane(cfg)
    BY <2>2, <2>3, <2>5 DEF NotConsumed
  <2> QED BY <1>0, <2>1, <2>4, <2>5 DEF SessionStep
<1>2. ASSUME NEW p \in Procs, \/ proc'[p] = proc[p]
                              \/ ~Holding(p)'
      PROVE  /\ Holding(p)' => decisions'[proc'[p].decision].consumed = NotConsumed
             /\ Consuming(p)' =>
                   \A d \in Issued' : decisions'[d].consumed # {SessionIdOf(proc'[p].cfg)}
             /\ At(p, "commit")' => \A s \in sessions' : Lane(s.cfg) # Lane(proc'[p].cfg)
  <2>1. CASE ~Holding(p)'   BY <2>1 DEF Holding, Consuming, At
  <2>2. CASE proc'[p] = proc[p] /\ Holding(p)'
    <3>1. Holding(p) /\ (Consuming(p)' <=> Consuming(p)) /\ (At(p, "commit")' <=> At(p, "commit"))
      BY <2>2 DEF Holding, Consuming, At
    <3> QED BY <1>1, <2>2, <3>1
  <2> QED BY <1>2, <2>1, <2>2
<1>3. CASE \A p \in Procs : proc'[p] = proc[p] \/ ~Holding(p)'
  BY <1>2, <1>3 DEF LockedOK
<1>4. ASSUME NEW p \in Procs, Acquire(p) PROVE LockedOK'
  <2>1. UNCHANGED <<decisions, sessions>> /\ Issued' = Issued   BY <1>4 DEF Acquire, Issued
  <2>2. /\ Holding(p)' => decisions[proc[p].decision].consumed = NotConsumed
        /\ Consuming(p)' => \A d \in Issued : decisions[d].consumed # {SessionIdOf(proc[p].cfg)}
        /\ At(p, "commit")' => \A s \in sessions : Lane(s.cfg) # Lane(proc[p].cfg)
    BY <1>0, <1>4 DEF LockedOK, Acquire, Holding, Consuming, At
  <2>3. proc'[p].decision = proc[p].decision /\ proc'[p].cfg = proc[p].cfg   BY <1>4 DEF Acquire
  <2>4. /\ Holding(p)' => decisions'[proc'[p].decision].consumed = NotConsumed
        /\ Consuming(p)' =>
              \A d \in Issued' : decisions'[d].consumed # {SessionIdOf(proc'[p].cfg)}
        /\ At(p, "commit")' => \A s \in sessions' : Lane(s.cfg) # Lane(proc'[p].cfg)
    BY <2>1, <2>2, <2>3
  <2>5. \A q \in Procs : q # p => proc'[q] = proc[q]   BY <1>4 DEF Acquire, Others
  <2> QED BY <1>2, <2>4, <2>5 DEF LockedOK
<1> QED BY <1>0, <1>3, <1>4 DEF LockStep

-----------------------------------------------------------------------------
(* The numbers of decisions.                                               *)

\* A step that begins an evaluation, one that ends it with a decision, and all
\* others.
NumberStep ==
    \/ \E p \in Procs :
          /\ Cardinality(Issued) + Cardinality(Evaluating) < MaxDecisions
          /\ Evaluating' \subseteq Evaluating \cup {p} /\ Issued' = Issued
    \/ \E p \in Evaluating :
          /\ Evaluating' \subseteq Evaluating \ {p}
          /\ Issued' \in {Issued, Issued \cup {Cardinality(Issued) + 1}}
    \/ Evaluating' \subseteq Evaluating /\ Issued' = Issued

LEMMA NumberChange == AuthInv /\ [Next]_vars => NumberStep
<1> SUFFICES ASSUME AuthInv, [Next]_vars PROVE NumberStep   OBVIOUS
<1>0. ProcOK /\ DecisionsOK /\ NumbersOK /\ Kept   BY KeptStep DEF AuthInv
<1>1. ASSUME NEW p \in Procs, NEW r, proc' = [proc EXCEPT ![p] = r]
      PROVE  /\ Evaluating' \subseteq Evaluating \cup {p}
             /\ r.pc \notin {"intent", "decide"} => Evaluating' \subseteq Evaluating \ {p}
  <2>1. proc'[p] = r /\ \A q \in Procs : q # p => proc'[q] = proc[q]
    BY <1>0, <1>1, Updated DEF ProcOK
  <2> QED BY <2>1 DEF Evaluating
<1>2. ASSUME UNCHANGED decisions PROVE Issued' = Issued   BY <1>2 DEF Issued
<1>3. ASSUME NEW p \in Procs, Return(p) PROVE Evaluating' \subseteq Evaluating \ {p}
  <2>1. PICK r : r = Idle   OBVIOUS
  <2>2. r.pc \notin {"intent", "decide"} /\ proc' = [proc EXCEPT ![p] = r]
    BY <1>3, <2>1 DEF Return, Idle
  <2> QED BY <1>1, <2>2
<1>4. ASSUME NEW p \in Procs, NEW i, NEW k, StartEvaluate(p, i, k) PROVE NumberStep
  BY <1>1, <1>2, <1>4 DEF StartEvaluate, NumberStep, tables
<1>5. ASSUME NEW p \in Procs, NEW d, NEW n, NEW w, NEW key, StartRegister(p, d, n, w, key)
      PROVE  NumberStep
  <2>1. PICK r : r = [pc |-> "decision", decision |-> d, nonce |-> n, window |-> w]   OBVIOUS
  <2>2. r.pc \notin {"intent", "decide"} /\ proc' = [proc EXCEPT ![p] = r]
    BY <1>5, <2>1 DEF StartRegister
  <2>3. Evaluating' \subseteq Evaluating \ {p}   BY <1>1, <2>2
  <2> QED BY <1>2, <1>5, <2>3 DEF StartRegister, NumberStep, tables
<1>6. ASSUME NEW p \in Procs, SaveIntent(p) PROVE NumberStep
  <2>1. p \in Evaluating   BY <1>6 DEF SaveIntent, At, Evaluating
  <2>2. Evaluating' \subseteq Evaluating
    BY <1>0, <1>1, <1>3, <1>6, <2>1, GotoChanges DEF SaveIntent
  <2> QED BY <1>2, <1>6, <2>2 DEF SaveIntent, NumberStep
<1>7. ASSUME NEW p \in Procs, SaveDecision(p) PROVE NumberStep
  <2>1. p \in Evaluating   BY <1>7 DEF SaveDecision, At, Evaluating
  <2>2. PICK r : r = [pc |-> "receipt", decision |-> Cardinality(Issued) + 1,
                      payload |-> Payload(proc[p].intent, Evaluate(server.policy, PolicyInput(proc[p].intent)))]
    OBVIOUS
  <2>3. r.pc = "receipt"   BY <2>2
  <2>4. Return(p) \/ proc' = [proc EXCEPT ![p] = r]   BY <1>7, <2>2 DEF SaveDecision
  <2>5. Evaluating' \subseteq Evaluating \ {p}   BY <1>1, <1>3, <2>3, <2>4
  <2>6. PICK d, row : /\ d = Cardinality(Issued) + 1
                      /\ row = NewDecision(proc[p].intent, server.policy)
    OBVIOUS
  <2>7. UNCHANGED decisions \/ decisions' = [decisions EXCEPT ![d] = row]
    BY <1>7, <2>6 DEF SaveDecision, NewDecision, Evaluate
  <2>8. ASSUME decisions' = [decisions EXCEPT ![d] = row] PROVE Issued' = Issued \cup {d}
    <3>1. d \in DecisionIds   BY <1>0, <2>1, <2>6, NextNumber DEF Evaluating
    <3>2. decisions'[d] = row /\ \A e \in DecisionIds : e # d => decisions'[e] = decisions[e]
      BY <1>0, <2>8, <3>1, Updated DEF DecisionsOK
    <3>3. row # NoRow   BY <2>6 DEF NewDecision, NoRow, Decision
    <3> QED BY <3>1, <3>2, <3>3 DEF Issued
  <2> QED BY <1>2, <2>1, <2>5, <2>6, <2>7, <2>8 DEF NumberStep
<1>8. ASSUME NEW p \in Procs, GetAllowDecision(p) PROVE NumberStep
  <2>1. PICK d, row : d = proc[p].decision /\ row = (CHOOSE x \in intents : x.hash = decisions[d].hash)
    OBVIOUS
  <2>2. PICK r : r = [pc |-> "lock", decision |-> d,
                      cfg |-> SessionConfig(row.intent, proc[p].nonce, proc[p].window,
                                            decisions[d].policy, Domain(server.cfg)),
                      agent |-> row.intent.agent]
    OBVIOUS
  <2>3. r.pc = "lock"   BY <2>2
  <2>4. Return(p) \/ proc' = [proc EXCEPT ![p] = r]   BY <1>8, <2>1, <2>2 DEF GetAllowDecision
  <2>5. Evaluating' \subseteq Evaluating   BY <1>1, <1>3, <2>3, <2>4
  <2> QED BY <1>2, <1>8, <2>5 DEF GetAllowDecision, NumberStep, tables
<1>9. ASSUME NEW p \in Procs, LockDecision(p) \/ ConsumeDecision(p) \/ InsertSession(p) PROVE NumberStep
  <2>1. AuthorizeOK(proc[p])
    BY <1>0, <1>9, RequestAt DEF LockDecision, ConsumeDecision, InsertSession, At
  <2>2. ASSUME NEW label \in {"consume", "session", "commit"}, Goto(p, label)
        PROVE  Evaluating' \subseteq Evaluating
    <3>1. PICK r : r = [proc[p] EXCEPT !.pc = label]   OBVIOUS
    <3>2. r.pc = label   BY <2>1, <3>1, AuthorizeOn
    <3>3. proc' = [proc EXCEPT ![p] = r]   BY <1>0, <2>2, <3>1, GotoChanges
    <3> QED BY <1>1, <3>2, <3>3
  <2>3. Return(p) \/ Goto(p, "consume") \/ Goto(p, "session") \/ Goto(p, "commit")
    BY <1>9 DEF LockDecision, ConsumeDecision, InsertSession, Refuse, Answer
  <2>4. UNCHANGED decisions
    BY <1>9 DEF LockDecision, ConsumeDecision, InsertSession, BeforeCommit, tables
  <2> QED BY <1>2, <1>3, <2>2, <2>3, <2>4 DEF NumberStep
<1>10. ASSUME NEW p \in Procs, Commit(p) PROVE NumberStep
  <2>1. Issued' \subseteq Issued /\ Issued \subseteq Issued'   BY <1>0, <1>10, CommitWrites, TermsKept
  <2> QED BY <1>3, <1>10, <2>1 DEF Commit, Answer, NumberStep
<1>11. ASSUME NEW p \in Procs, SaveReceipt(p) \/ Stop(p) PROVE NumberStep
  BY <1>2, <1>3, <1>11 DEF SaveReceipt, Stop, NumberStep, tables
<1>12. ASSUME Shutdown PROVE NumberStep
  BY <1>2, <1>12 DEF Shutdown, NumberStep, Evaluating, Idle, tables
<1>13. ASSUME UNCHANGED <<proc, decisions>> PROVE NumberStep
  BY <1>2, <1>13 DEF NumberStep, Evaluating
<1> QED
  BY <1>4, <1>5, <1>6, <1>7, <1>8, <1>9, <1>10, <1>11, <1>12, <1>13
  DEF Next, Handle, vars, tables, Start

LEMMA NumbersStep == AuthInv /\ [Next]_vars => NumbersOK'
<1> SUFFICES ASSUME AuthInv, [Next]_vars PROVE NumbersOK'   OBVIOUS
<1>0. NumbersOK /\ NumberStep   BY NumberChange DEF AuthInv
<1>1. PICK n \in 0 .. MaxDecisions : Issued = 1 .. n   BY <1>0 DEF NumbersOK
<1>2. PICK E : E = Evaluating   OBVIOUS
<1>3. IsFiniteSet(E) /\ Cardinality(E) \in Nat   BY <1>0, <1>2, FS_CardinalityType DEF NumbersOK
<1>4. ASSUME NEW m \in 0 .. MaxDecisions PROVE Cardinality(1 .. m) = m
  BY <1>4, ConstantTypes, FS_Interval
<1>5. n + Cardinality(E) <= MaxDecisions   BY <1>0, <1>1, <1>2, <1>4 DEF NumbersOK
<1>6. ASSUME NEW m \in 0 .. MaxDecisions, Issued' = 1 .. m, NEW F, IsFiniteSet(F),
             Evaluating' \subseteq F, m + Cardinality(F) <= MaxDecisions
      PROVE  NumbersOK'
  <2>1. PICK G : G = Evaluating'   OBVIOUS
  <2>2. /\ IsFiniteSet(G) /\ Cardinality(G) <= Cardinality(F)
        /\ Cardinality(G) \in Nat /\ Cardinality(F) \in Nat
    BY <1>6, <2>1, FS_Subset, FS_CardinalityType
  <2>3. m + Cardinality(G) <= MaxDecisions   BY <1>6, <2>2, ConstantTypes
  <2> QED BY <1>4, <1>6, <2>1, <2>2, <2>3 DEF NumbersOK
<1>7. ASSUME NEW p \in Procs, Cardinality(Issued) + Cardinality(Evaluating) < MaxDecisions,
             Evaluating' \subseteq Evaluating \cup {p}, Issued' = Issued
      PROVE  NumbersOK'
  <2>1. IsFiniteSet(E \cup {p}) /\ Cardinality(E \cup {p}) \in {Cardinality(E), Cardinality(E) + 1}
    BY <1>3, FS_AddElement
  <2>2. n + Cardinality(E) < MaxDecisions   BY <1>1, <1>2, <1>4, <1>7
  <2>3. n + Cardinality(E \cup {p}) <= MaxDecisions   BY <1>3, <2>1, <2>2, ConstantTypes
  <2> QED BY <1>1, <1>2, <1>6, <1>7, <2>1, <2>3
<1>8. ASSUME NEW p \in Evaluating, Evaluating' \subseteq Evaluating \ {p},
             Issued' \in {Issued, Issued \cup {Cardinality(Issued) + 1}}
      PROVE  NumbersOK'
  <2>1. IsFiniteSet(E \ {p}) /\ Cardinality(E \ {p}) = Cardinality(E) - 1
    BY <1>2, <1>3, <1>8, FS_RemoveElement
  <2>2. Cardinality(E \ {p}) \in Nat   BY <2>1, FS_CardinalityType
  <2>3. CASE Issued' = Issued
    <3>1. n + Cardinality(E \ {p}) <= MaxDecisions   BY <1>3, <1>5, <2>1, ConstantTypes
    <3> QED BY <1>1, <1>2, <1>6, <1>8, <2>1, <2>3, <3>1
  <2>4. CASE Issued' = Issued \cup {Cardinality(Issued) + 1}
    <3>1. (n + 1) + Cardinality(E \ {p}) <= MaxDecisions   BY <1>3, <1>5, <2>1, ConstantTypes
    <3>2. n + 1 \in 0 .. MaxDecisions   BY <2>2, <3>1, ConstantTypes
    <3>3. Issued' = 1 .. (n + 1)   BY <1>1, <1>4, <2>4, ConstantTypes
    <3> QED BY <1>2, <1>6, <1>8, <2>1, <3>1, <3>2, <3>3
  <2> QED BY <1>8, <2>3, <2>4
<1>9. ASSUME Evaluating' \subseteq Evaluating, Issued' = Issued PROVE NumbersOK'
  BY <1>1, <1>2, <1>3, <1>5, <1>6, <1>9
<1> QED BY <1>0, <1>7, <1>8, <1>9 DEF NumberStep

LEMMA InitAuth == Init => AuthInv
<1> SUFFICES ASSUME Init PROVE AuthInv   OBVIOUS
<1>1. Issued = {} /\ Evaluating = {}   BY DEF Init, Issued, Evaluating, Idle
<1>2. Issued = 1 .. 0 /\ 0 \in 0 .. MaxDecisions /\ stops \in 0 .. MaxStops
  BY <1>1, ConstantTypes DEF Init
<1>3. NumbersOK   BY <1>1, <1>2, FS_EmptySet, ConstantTypes DEF NumbersOK
<1>4. ProcOK   BY DEF Init, ProcOK, RequestOK
<1>5. LocksOK /\ LockedOK   BY DEF Init, LocksOK, LockedOK, Holding, Consuming, At, Idle
<1>6. ServerOK /\ IntentsOK /\ ReceiptsOK /\ CosignedOK
  BY DEF Init, ServerOK, IntentsOK, ReceiptsOK, CosignedOK
<1>7. DecisionsOK /\ SessionsOK   BY <1>1 DEF Init, DecisionsOK, SessionsOK
<1> QED BY <1>2, <1>3, <1>4, <1>5, <1>6, <1>7 DEF AuthInv

LEMMA AuthStep == AuthInv /\ [Next]_vars => AuthInv'
<1> SUFFICES ASSUME AuthInv, [Next]_vars PROVE AuthInv'   OBVIOUS
<1>1. ServerOK'   BY ServerStep DEF AuthInv
<1>2. stops' \in 0 .. MaxStops
  <2>1. stops \in 0 .. MaxStops   BY DEF AuthInv
  <2>2. stops' = stops \/ (stops < MaxStops /\ stops' = stops + 1)
    BY DEF Next, vars, tables, StartEvaluate, StartRegister, Handle, Stop, Start, Shutdown,
           SaveIntent, SaveReceipt, GetAllowDecision, LockDecision, ConsumeDecision, InsertSession,
           SaveDecision, Commit
  <2> QED BY <2>1, <2>2, ConstantTypes
<1> QED
  BY <1>1, <1>2, IntentsStep, DecisionsStep, NumbersStep, ReceiptsStep, SessionsStep, CosignedStep,
     ProcStep, LocksStep, LockedStep
  DEF AuthInv

LEMMA AuthAlways == Spec => []AuthInv
BY InitAuth, AuthStep, PTL DEF Spec

-----------------------------------------------------------------------------
(* The theorems.                                                           *)

\* The types of the tables and of the requests in progress, and the unique
\* keys of payment_intents and sessions.
THEOREM TypeCorrect == Spec => []TypeOK
<1>1. AuthInv => TypeOK
  <2> SUFFICES ASSUME AuthInv PROVE TypeOK   OBVIOUS
  <2>0. /\ ServerOK /\ IntentsOK /\ DecisionsOK /\ ReceiptsOK /\ SessionsOK /\ ProcOK
        /\ stops \in 0 .. MaxStops
    BY DEF AuthInv
  <2>1. server # Down => server.policy \in Policies /\ Validate(server.cfg)
    BY <2>0 DEF ServerOK
  <2>2. ASSUME NEW d \in Issued PROVE decisions[d] \in Row(decisions[d].consumed)
    <3>1. decisions[d] \in DecisionRow(decisions[d])   BY <2>0 DEF DecisionsOK
    <3>2. decisions[d].asked \in Intents   BY <3>1 DEF DecisionRow
    <3>3. IntentHash(decisions[d].asked) \in {IntentHash(i) : i \in Intents}   BY <3>2
    <3>4. Decision(decisions[d].policy, PolicyInput(decisions[d].asked)) \in {"ALLOW", "BLOCK"}
      BY DEF Decision
    <3>5. {} \in SUBSET {"WITHIN_LIMITS"}   OBVIOUS
    <3> QED BY <3>1, <3>3, <3>4, <3>5 DEF DecisionRow, Row
  <2>3. \A r \in receipts : decisions[r.decision].decision = "ALLOW"
    BY <2>0 DEF ReceiptsOK, ReceiptFor
  <2>4. ASSUME NEW p \in Procs
        PROVE  proc[p].pc \in {"idle", "intent", "decide", "receipt", "decision", "lock", "consume",
                               "session", "commit"}
    BY <2>0, RequestAt DEF Idle
  <2> QED BY <2>0, <2>1, <2>2, <2>3, <2>4 DEF TypeOK, IntentsOK, SessionsOK
<1> QED BY <1>1, AuthAlways, PTL

\* A decision that was consumed has its session and a session its decision,
\* wherever requests end and whenever the process is shut down: nothing that
\* AuthorizeSession writes is seen without the rest.
THEOREM ConsumedTogether == Spec => []ConsumedHasSession
<1>1. AuthInv => ConsumedHasSession
  <2> SUFFICES ASSUME AuthInv PROVE ConsumedHasSession   OBVIOUS
  <2>1. \A s \in sessions : \E d \in Issued : decisions[d].consumed = {s.id}
    BY DEF AuthInv, SessionsOK
  <2>2. ASSUME NEW d \in Issued PROVE decisions[d].consumed \subseteq {s.id : s \in sessions}
    <3>1. CASE decisions[d].consumed = NotConsumed   BY <3>1 DEF NotConsumed
    <3>2. ASSUME NEW s \in sessions, decisions[d].consumed = {s.id}
          PROVE  decisions[d].consumed \subseteq {r.id : r \in sessions}
      BY <3>2
    <3> QED BY <3>1, <3>2 DEF AuthInv, SessionsOK
  <2> QED BY <2>1, <2>2 DEF ConsumedHasSession
<1> QED BY <1>1, AuthAlways, PTL

\* No two decisions are consumed for one session.
LEMMA ConsumedOnce ==
    ASSUME SessionsOK, NEW d \in Issued, NEW e \in Issued, NEW x,
           decisions[d].consumed = {x}, decisions[e].consumed = {x}
    PROVE  d = e
<1>1. PICK c : c = {x}   OBVIOUS
<1>2. c # NotConsumed   BY <1>1 DEF NotConsumed
<1>3. decisions[d].consumed = c /\ decisions[e].consumed = c   BY <1>1
<1>4. \A a, b \in Issued : /\ decisions[a].consumed = decisions[b].consumed
                           /\ decisions[a].consumed # NotConsumed
                           => a = b
  BY DEF SessionsOK
<1> QED BY <1>2, <1>3, <1>4

\* One decision is good for one session, and one session for one decision.  An
\* account has one session per nonce key where no two texts of the request are
\* the same number: the table compares texts, and registerSession does not see
\* to it that a number is written in one way.
THEOREM OneDecision ==
    ASSUME \A m, n \in NonceTexts : NonceValue[m] = NonceValue[n] => m = n
    PROVE  Spec => []OneDecisionOneSession
<1>1. AuthInv => OneDecisionOneSession
  <2> SUFFICES ASSUME AuthInv PROVE OneDecisionOneSession   OBVIOUS
  <2>0. SessionsOK /\ CosignedOK   BY DEF AuthInv
  <2>1. ASSUME NEW a \in cosigned, NEW b \in cosigned
        PROVE  a.decision = b.decision <=> SessionIdOf(a.cfg) = SessionIdOf(b.cfg)
    <3>1. PICK x, y : x = SessionIdOf(a.cfg) /\ y = SessionIdOf(b.cfg)   OBVIOUS
    <3>2. /\ a.decision \in Issued /\ b.decision \in Issued
          /\ decisions[a.decision].consumed = {x} /\ decisions[b.decision].consumed = {y}
      BY <2>0, <3>1 DEF CosignedOK, AllowedFor
    <3>3. a.decision = b.decision => x = y   BY <3>2
    <3>4. x = y => a.decision = b.decision   BY <2>0, <3>2, ConsumedOnce
    <3> QED BY <3>1, <3>3, <3>4
  <2>2. ASSUME NEW r \in sessions, NEW s \in sessions, r.cfg.account = s.cfg.account,
               NonceValue[r.cfg.nonce] = NonceValue[s.cfg.nonce]
        PROVE  r.id = s.id
    <3>1. r.cfg.nonce \in NonceTexts /\ s.cfg.nonce \in NonceTexts
      BY <2>0 DEF SessionsOK, AllowedFor
    <3>2. r.cfg.nonce = s.cfg.nonce   BY <2>2, <3>1
    <3>3. Lane(r.cfg) = Lane(s.cfg)   BY <2>2, <3>2 DEF Lane
    <3>4. r = s   BY <2>0, <3>3 DEF SessionsOK
    <3> QED BY <3>4
  <2> QED BY <2>1, <2>2 DEF OneDecisionOneSession
<1> QED BY <1>1, AuthAlways, PTL

\* What an ALLOW says of the amount and of the chain.
LEMMA AllowBounds ==
    ASSUME NEW pol, NEW i \in Intent, Decision(pol, PolicyInput(i)) = "ALLOW"
    PROVE  0 < i.amount /\ i.amount <= i.maxPer /\ i.chain = PolicyChain
<1>1. Allowed(pol, PolicyInput(i))   BY DEF Decision
<1>2. /\ PolicyInput(i).amount = {i.amount} /\ PolicyInput(i).maxPer = LimitOf(i.maxPer)
      /\ PolicyInput(i).chain = i.chain
  BY DEF PolicyInput
<1>3. \E a \in {i.amount} : a > 0   BY <1>1, <1>2 DEF Allowed
<1>4. Within(PolicyInput(i), LimitOf(i.maxPer))   BY <1>1, <1>2 DEF Allowed
<1>5. \E a \in {i.amount}, l \in {i.maxPer} : a <= l   BY <1>2, <1>4 DEF Within, LimitOf
<1>6. i.chain = PolicyChain   BY <1>1, <1>2 DEF Allowed
<1> QED BY <1>3, <1>5, <1>6 DEF Intent

\* A signature that SignGate has answered is for a decision that was consumed
\* for this very session, and says what the policy allowed; the amount is
\* within the signed limits and a receipt of the decision tells of the same
\* payment.  The allowed and receipted chain is the policy's, the signed one is
\* the CHAIN_ID of one of the environments; that the two are the same is not
\* proved, as it does not hold.
THEOREM CosignedAllowed == Spec => []CosignedIsAllowed
<1>1. AuthInv => CosignedIsAllowed
  <2> SUFFICES ASSUME AuthInv, NEW c \in cosigned
               PROVE  LET row == decisions[c.decision]
                      IN  /\ row.consumed = {SessionIdOf(c.cfg)}
                          /\ \E s \in sessions : s.id = SessionIdOf(c.cfg) /\ s.agent = row.asked.agent
                          /\ Decision(c.cfg.policy, PolicyInput(row.asked)) = "ALLOW"
                          /\ c.cfg = SessionConfig(row.asked, c.cfg.nonce, c.cfg.window, row.policy,
                                                     c.signature.digest.domain)
                          /\ row.asked.chain = PolicyChain
                          /\ c.signature.digest.domain \in {Domain(Load(e)) : e \in Environments}
                          /\ 0 < row.asked.amount /\ row.asked.amount <= c.cfg.maxPer
                          /\ c.cfg.maxPer <= c.cfg.maxTotal
                          /\ \A r \in GetReceipt(c.decision) :
                                /\ r.decision = "ALLOW" /\ r.payload.agent = row.asked.agent
                                /\ r.payload.chain = row.asked.chain
                                /\ r.payload.policy = c.signature.digest.policy
                                /\ r.payload.token = c.signature.digest.token
                                /\ r.payload.recipient = c.signature.digest.recipient
                                /\ r.payload.amount <= c.signature.digest.maxPer
    BY DEF CosignedIsAllowed
  <2>0. SessionsOK /\ CosignedOK /\ DecisionsOK /\ ReceiptsOK   BY DEF AuthInv
  <2>1. PICK row, id, cfg, asked, pol : /\ row = decisions[c.decision] /\ cfg = c.cfg
                                        /\ id = SessionIdOf(cfg)
                                        /\ asked = row.asked /\ pol = row.policy
    OBVIOUS
  <2>2. AllowedFor(c.decision, cfg) /\ row.consumed = {id}   BY <2>0, <2>1 DEF CosignedOK
  <2>3. /\ c.decision \in Issued /\ row.decision = "ALLOW"
        /\ cfg = SessionConfig(asked, cfg.nonce, cfg.window, pol, cfg.domain) /\ ValidateV1(cfg)
    BY <2>1, <2>2 DEF AllowedFor
  <2>4. row.decision = Decision(pol, PolicyInput(asked)) /\ asked \in Intent
    BY <2>0, <2>1, <2>3, Rows, ConstantTypes
  <2>5. /\ cfg.policy = pol /\ cfg.maxPer = asked.maxPer /\ cfg.maxTotal = asked.maxTotal
        /\ cfg.token = asked.token /\ cfg.recipient = asked.recipient
    BY <2>3 DEF SessionConfig
  <2>6. \E x \in Configurations :
           /\ Domain(x) = cfg.domain
           /\ c.signature.digest = TypedData(x, cfg, NonceValue[cfg.nonce])
    BY <2>0, <2>1 DEF CosignedOK
  <2>7. /\ c.signature.digest.domain = cfg.domain /\ c.signature.digest.policy = pol
        /\ c.signature.digest.token = asked.token /\ c.signature.digest.recipient = asked.recipient
        /\ c.signature.digest.maxPer = asked.maxPer
        /\ cfg.domain \in {Domain(Load(e)) : e \in Environments}
    BY <2>5, <2>6 DEF TypedData, Configurations
  <2>8. 0 < asked.amount /\ asked.amount <= asked.maxPer /\ asked.chain = PolicyChain
    BY <2>3, <2>4, AllowBounds
  <2>9. asked.maxPer <= asked.maxTotal   BY <2>3, <2>4, <2>5 DEF ValidateV1, Intent
  <2>10. \E s \in sessions : s.id = id /\ s.agent = asked.agent
    <3>1. PICK s \in sessions : row.consumed = {s.id}
      BY <2>0, <2>1, <2>2, <2>3 DEF SessionsOK, NotConsumed
    <3>2. PICK d \in Issued : decisions[d].consumed = {s.id} /\ s.agent = decisions[d].asked.agent
      BY <2>0 DEF SessionsOK
    <3>3. d = c.decision   BY <2>0, <2>1, <2>3, <3>1, <3>2 DEF SessionsOK, NotConsumed
    <3>4. s.id = id   BY <2>2, <3>1
    <3> QED BY <2>1, <3>2, <3>3, <3>4
  <2>11. ASSUME NEW r \in GetReceipt(c.decision)
         PROVE  /\ r.decision = "ALLOW" /\ r.payload.agent = asked.agent
                /\ r.payload.policy = pol /\ r.payload.token = asked.token
                /\ r.payload.recipient = asked.recipient /\ r.payload.amount = asked.amount
                /\ r.payload.chain = asked.chain
    <3>1. PICK x \in receipts : /\ x.decision = c.decision
                                /\ r = [decision |-> row.decision, payload |-> x.signed.payload]
      BY <2>1 DEF GetReceipt
    <3>2. x.signed.payload = Payload(asked, Evaluate(pol, PolicyInput(asked)))
      BY <2>0, <2>1, <3>1 DEF ReceiptsOK, ReceiptFor
    <3>3. r.decision = "ALLOW" /\ r.payload = Payload(asked, Evaluate(pol, PolicyInput(asked)))
      BY <2>3, <3>1, <3>2
    <3>4. Evaluate(pol, PolicyInput(asked)).policy = pol   BY DEF Evaluate
    <3>5. PICK out : out = Evaluate(pol, PolicyInput(asked))   OBVIOUS
    <3> QED BY <3>3, <3>4, <3>5 DEF Payload
  <2> QED BY <2>1, <2>2, <2>3, <2>4, <2>5, <2>7, <2>8, <2>9, <2>10, <2>11
<1> QED BY <1>1, AuthAlways, PTL

\* A budget request goes to the reservation service only for a session that
\* SignGate has registered, and for the agent, the intent and the limits of the
\* decision that was consumed for it; a process without a store is a local one.
THEOREM ReservedGranted == Spec => []ReservedIsGranted
<1>1. AuthInv => ReservedIsGranted
  <2> SUFFICES ASSUME AuthInv, NEW id \in {s.id : s \in sessions} \cup {NoSession},
                      NEW o \in Orders, NEW key \in ApiKeys, NEW maxTotal \in Admitted(id, o, key)
               PROVE  \/ server.cfg.local /\ ~Keeps
                      \/ \E d \in Issued :
                            /\ decisions[d].decision = "ALLOW"
                            /\ decisions[d].consumed = {id}
                            /\ decisions[d].asked = o.intent /\ o.agent = o.intent.agent
                            /\ o.amount <= o.intent.maxPer
                            /\ maxTotal = o.intent.maxTotal
    BY DEF ReservedIsGranted
  <2>0. ServerOK /\ SessionsOK /\ DecisionsOK   BY DEF AuthInv
  <2>1. server # Down   BY DEF Admitted
  <2>2. CASE ~Keeps   BY <2>0, <2>1, <2>2 DEF ServerOK, Keeps
  <2>3. CASE Keeps
    <3>1. PICK snap \in GetSessionReserveSnapshot(id) :
             /\ maxTotal = snap.maxTotal /\ o.agent = snap.agent
             /\ snap.hash \subseteq {IntentHash(o.intent)} /\ o.amount <= snap.maxPer
      BY DEF Admitted
    <3>2. PICK s \in sessions :
             /\ s.id = id
             /\ snap = [agent |-> s.agent, maxPer |-> s.cfg.maxPer, maxTotal |-> s.cfg.maxTotal,
                        window |-> s.cfg.window,
                        hash |-> {decisions[d].hash : d \in {d \in ConsumedFor(id) :
                                      \A e \in ConsumedFor(id) : e <= d}}]
      BY <2>3, <3>1 DEF GetSessionReserveSnapshot
    <3>3. PICK d \in Issued : /\ AllowedFor(d, s.cfg) /\ decisions[d].consumed = {id}
                              /\ s.agent = decisions[d].asked.agent
      BY <2>0, <3>2 DEF SessionsOK
    <3>4. ConsumedFor(id) = {d}
      <4>1. d \in ConsumedFor(id)   BY <3>3 DEF ConsumedFor, AllowedFor
      <4>2. ASSUME NEW e \in ConsumedFor(id) PROVE e = d
        BY <2>0, <3>3, ConsumedOnce DEF ConsumedFor
      <4> QED BY <4>1, <4>2
    <3>5. d <= d   BY <2>0, Rows DEF DecisionIds
    <3>6. decisions[d].hash \in snap.hash   BY <3>2, <3>4, <3>5
    <3>7. IntentHash(decisions[d].asked) = IntentHash(o.intent)   BY <2>0, <3>1, <3>6, Rows
    <3>8. decisions[d].asked \in Intent /\ o.intent \in Intent
      BY <2>0, Rows, ConstantTypes, AuthorizationAssumption
    <3>9. decisions[d].asked = o.intent   BY <3>7, <3>8, HashInjective
    <3>10. s.cfg.maxPer = o.intent.maxPer /\ s.cfg.maxTotal = o.intent.maxTotal
      BY <3>3, <3>9 DEF AllowedFor, SessionConfig
    <3>11. /\ maxTotal = s.cfg.maxTotal /\ o.agent = s.agent /\ o.amount <= s.cfg.maxPer
      BY <3>1, <3>2
    <3> QED BY <3>3, <3>9, <3>10, <3>11 DEF AllowedFor
  <2> QED BY <2>2, <2>3
<1> QED BY <1>1, AuthAlways, PTL

\* A new signature is by the key, for the chain and the adapter and under the
\* policy of the process that answers, whatever other processes ran before on the same store,
\* and a process in production signs nothing that the chain cannot use.
THEOREM SignedConfigured == Spec => SignedAsConfigured
<1>1. AuthInv /\ [Next]_vars =>
        [\A c \in cosigned' \ cosigned :
            /\ Keeps
            /\ c.cfg.policy = server.policy
            /\ c.signature.key # NoKey
            /\ c.signature.digest.domain = Domain(server.cfg) /\ c.cfg.domain = Domain(server.cfg)
            /\ ~server.cfg.local =>
                  /\ ~requireAPIKey(server.cfg, DevAPIKey)
                  /\ ~isZeroAddress(c.signature.digest.domain.adapter)]_vars
  <2> SUFFICES ASSUME AuthInv, [Next]_vars, NEW c \in cosigned' \ cosigned
               PROVE  /\ Keeps
                      /\ c.cfg.policy = server.policy
                      /\ c.signature.key # NoKey
                      /\ c.signature.digest.domain = Domain(server.cfg)
                      /\ c.cfg.domain = Domain(server.cfg)
                      /\ ~server.cfg.local =>
                            /\ ~requireAPIKey(server.cfg, DevAPIKey)
                            /\ ~isZeroAddress(c.signature.digest.domain.adapter)
    OBVIOUS
  <2>1. PICK p \in Procs : AuthorizeOK(proc[p]) /\ c = Signed(p)
    BY CosignChange DEF CosignStep
  <2>2. PICK cfg, sc : cfg = proc[p].cfg /\ sc = server.cfg   OBVIOUS
  <2>3. /\ c.cfg = cfg /\ c.signature.key = sc.signerKey /\ c.signature.digest.domain = Domain(sc)
    BY <2>1, <2>2 DEF Signed, SignRailguard, TypedData
  <2>4. /\ server # Down /\ Keeps /\ CosigningConfigured(sc) /\ cfg.policy = server.policy
        /\ cfg.domain = Domain(sc)
    BY <2>1, <2>2 DEF AuthorizeOK, Serving
  <2>5. Validate(sc)   BY <2>2, <2>4 DEF AuthInv, ServerOK
  <2>6. ~sc.local => ~requireAPIKey(sc, DevAPIKey) /\ ~isZeroAddress(sc.adapter)
    BY <2>5 DEF Validate, requireAPIKey
  <2>7. Domain(sc).adapter = sc.adapter   BY DEF Domain
  <2> QED BY <2>2, <2>3, <2>4, <2>6, <2>7 DEF CosigningConfigured
<1> QED BY <1>1, AuthAlways, PTL DEF SignedAsConfigured, Spec
=============================================================================

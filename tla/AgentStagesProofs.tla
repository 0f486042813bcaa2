-------------------------- MODULE AgentStagesProofs --------------------------
(***************************************************************************)
(* Proofs about the language model in a sync: a mock is never taken for a  *)
(* real result, a batch is completed only when it is whole, and a cohort   *)
(* counts what its provider was asked for, for any number of symbols,      *)
(* retries, syncs, switches and crashes.                                   *)
(***************************************************************************)
EXTENDS AgentStages, TLAPS

CallType == call \in [Callers -> Calls] /\ cohorts \in Seq([provider : Providers, at : Nat])
            /\ patch \in [step : {"idle", "stored"}, provider : Providers]

LEMMA ProvidersAndCodes ==
  /\ "minimax" \in Providers /\ "mock" \in Providers
  /\ "ready" \in Codes /\ "mock" \in Codes /\ "missing_key" \in Codes /\ "failed" \in Codes
BY DEF Providers, Codes

LEMMA BlankCalls ==
  ASSUME CallType
  PROVE  /\ Now \in Nat /\ NoCall \in Calls /\ Ask \in Calls
         /\ [Ask EXCEPT !.at = Now] \in Calls
<1>1. Now \in Nat
  BY DEF CallType, Now
<1>2. NoCall \in Calls
  BY StagesAssumption, ProvidersAndCodes DEF NoCall, Calls
<1>3. Ask \in Calls
  BY <1>2 DEF Ask, Calls
<1>4. [Ask EXCEPT !.at = Now] \in Calls
  BY <1>1, <1>3 DEF Calls
<1> QED BY <1>1, <1>2, <1>3, <1>4

\* One call is replaced by another one.
LEMMA DoneType ==
  ASSUME CallType, NEW c \in Callers, NEW source \in Providers, NEW code \in Codes,
         NEW valid \in BOOLEAN, Done(c, source, code, valid)
  PROVE  call' \in [Callers -> Calls]
<1>1. call[c].at \in Nat
  BY DEF CallType, Calls
<1>2. [step |-> "done", attempt |-> 0, source |-> source, code |-> code, valid |-> valid,
       at |-> call[c].at] \in Calls
  BY <1>1, StagesAssumption DEF Calls
<1> QED BY <1>2 DEF Done, CallType

LEMMA StepType ==
  ASSUME CallType, NEW c \in Callers,
         NEW step \in {"none", "ready", "open", "done", "asked"}
  PROVE  [call EXCEPT ![c].step = step] \in [Callers -> Calls]
<1>1. [call[c] EXCEPT !.step = step] \in Calls
  BY DEF CallType, Calls
<1> QED BY <1>1 DEF CallType

LEMMA AttemptType ==
  ASSUME CallType, NEW c \in Callers, call[c].attempt < Retries
  PROVE  [call EXCEPT ![c].attempt = @ + 1] \in [Callers -> Calls]
<1>1. call[c].attempt + 1 \in 0..Retries
  BY StagesAssumption DEF CallType, Calls
<1>2. [call[c] EXCEPT !.attempt = @ + 1] \in Calls
  BY <1>1 DEF CallType, Calls
<1> QED BY <1>2 DEF CallType

\* The calls, the switch and the cohorts are well-formed.
LEMMA CallTypeInvariant == Spec => []CallType
<1>1. Init => CallType
  BY BlankCalls, StagesAssumption, ProvidersAndCodes DEF Init, CallType, Calls, NoCall
<1>2. CallType /\ [Next]_vars => CallType'
  <2> SUFFICES ASSUME CallType, [Next]_vars PROVE CallType'
    OBVIOUS
  <2> USE DEF switching, store
  <2>0. /\ Now \in Nat /\ NoCall \in Calls /\ Ask \in Calls
        /\ [Ask EXCEPT !.at = Now] \in Calls /\ "sync" \in Callers /\ Symbols \subseteq Callers
        /\ [c \in Callers |-> NoCall] \in [Callers -> Calls]
    BY BlankCalls DEF Callers
  <2>1. CASE BeginSync
    BY <2>0, <2>1 DEF BeginSync, CallType
  <2>2. CASE StartAgents
    BY <2>0, <2>2 DEF StartAgents, CallType
  <2>3. CASE AgentsReturn \/ SelectChallengers \/ SlotIsEmpty
             \/ (\E p \in proposals : ObservePaper(p))
             \/ \E type \in {"failure_mode", "novelty"} : EndSync(type)
    BY <2>3 DEF AgentsReturn, SelectChallengers, SlotIsEmpty, ObservePaper, EndSync, CallType
  <2>4. CASE AskJudgement
    BY <2>0, <2>4 DEF AskJudgement, CallType
  <2>5. CASE SyncRaises
    BY <2>0, <2>5 DEF SyncRaises, CallType
  <2>6. ASSUME NEW c \in Callers, StartCall(c) PROVE CallType'
    <3>1. CASE provider = "minimax" /\ hasKey
      BY <2>6, <3>1, StepType DEF StartCall, CallType
    <3>2. CASE ~(provider = "minimax" /\ hasKey)
      BY <2>6, <3>2, DoneType, ProvidersAndCodes DEF StartCall, CallType
    <3> QED BY <3>1, <3>2
  <2>7. ASSUME NEW c \in Callers, NEW valid \in BOOLEAN, Answer(c, valid) PROVE CallType'
    BY <2>7, DoneType, ProvidersAndCodes DEF Answer, CallType
  <2>8. ASSUME NEW c \in Callers, NEW retryable \in BOOLEAN, FailAttempt(c, retryable)
        PROVE CallType'
    <3>1. CASE retryable /\ call[c].attempt < Retries
      BY <2>8, <3>1, AttemptType DEF FailAttempt, CallType
    <3>2. CASE ~(retryable /\ call[c].attempt < Retries)
      BY <2>8, <3>2, DoneType, ProvidersAndCodes DEF FailAttempt, CallType
    <3> QED BY <3>1, <3>2
  <2>9. ASSUME NEW s \in Symbols, AskReview(s) PROVE CallType'
    <3>1. s \in Callers /\ s # "sync"
      BY <2>0, StagesAssumption
    <3>2. [call EXCEPT ![s].step = "asked"] \in [Callers -> Calls]
      BY <3>1, StepType
    <3>3. call' = [[call EXCEPT ![s].step = "asked"] EXCEPT !["sync"] = Ask]
      BY <2>0, <2>9, <3>1 DEF AskReview, CallType
    <3>4. call' \in [Callers -> Calls]
      BY <2>0, <3>2, <3>3
    <3> QED BY <2>9, <3>4 DEF AskReview, CallType
  <2>10. ASSUME NEW s \in Symbols, Materialize(s) PROVE CallType'
    BY <2>0, <2>10 DEF Materialize, CallType
  <2>11. ASSUME NEW p \in Providers, SwitchTo(p) PROVE CallType'
    BY <2>11 DEF SwitchTo, CallType
  <2>12. CASE RecordSwitch
    <3>1. CohortStarted \in [provider : Providers, at : Nat]
      BY <2>0 DEF CohortStarted, CallType
    <3>2. patch' \in [step : {"idle", "stored"}, provider : Providers]
      BY <2>12 DEF RecordSwitch, CallType
    <3> QED BY <2>12, <3>1, <3>2 DEF RecordSwitch, CallType
  <2>13. CASE Crash
    <3>1. patch' \in [step : {"idle", "stored"}, provider : Providers]
      BY <2>13 DEF Crash, CallType
    <3> QED BY <2>0, <2>13, <3>1 DEF Crash, CallType
  <2>14. CASE UNCHANGED vars
    BY <2>14 DEF vars, CallType
  <2> QED
    BY <2>1, <2>2, <2>3, <2>4, <2>5, <2>6, <2>7, <2>8, <2>9, <2>10, <2>11, <2>12, <2>13, <2>14
    DEF Next
<1> QED BY <1>1, <1>2, PTL DEF Spec

-----------------------------------------------------------------------------
\* Between the start of the agents and the completion of the batch the sync has pending
\* symbols; a symbol that is not pending has no call any more.

Underway == {"agents", "review", "debate", "judge"}

NothingPending == stage \notin Underway => pending = {}
CallsArePending == \A s \in Symbols : call[s].step # "none" \/ call[s].valid => s \in pending
PendingSymbols == pending \subseteq Symbols

\* A call that holds a blueprint was answered by the provider.
ValidIsAnswered ==
  \A s \in Symbols : call[s].valid =>
     /\ call[s].step \notin {"none", "ready", "open"}
     /\ call[s].source = "minimax" /\ call[s].code = "ready"
     /\ <<syncs, s>> \in answered

\* A symbol that the sync is done with has its proposal.
DoneHasProposal ==
  stage \in Underway => \A s \in Symbols \ pending : \E p \in proposals : p.id = <<syncs, s>>

StageInv ==
  /\ NothingPending /\ CallsArePending /\ PendingSymbols /\ ValidIsAnswered /\ DoneHasProposal

LEMMA NoCallFields == NoCall.step = "none" /\ NoCall.valid = FALSE
BY DEF NoCall

LEMMA AskFields ==
  /\ Ask.step = "ready" /\ Ask.valid = FALSE
  /\ [Ask EXCEPT !.at = Now].step = "ready" /\ [Ask EXCEPT !.at = Now].valid = FALSE
BY DEF Ask, NoCall

\* A step of the gateway on the call of c, which only an answer makes valid.
LEMMA GatewayStep ==
  ASSUME CallType, StageInv, NEW c \in Callers, call[c].step \in {"ready", "open"},
         call' \in [Callers -> Calls], \A d \in Callers : d # c => call'[d] = call[d],
         call'[c].step # "none",
         call'[c].valid => /\ call'[c].step = "done" /\ call'[c].source = "minimax"
                           /\ call'[c].code = "ready"
                           /\ (c \in Symbols => <<syncs, c>> \in answered'),
         answered \subseteq answered',
         UNCHANGED <<stage, pending, proposals, syncs>>
  PROVE  StageInv'
<1>1. Symbols \subseteq Callers
  BY DEF Callers
<1>2. c \in Symbols => c \in pending
  BY DEF StageInv, CallsArePending
<1>3. CallsArePending'
  BY <1>1, <1>2 DEF StageInv, CallsArePending
<1>4. ValidIsAnswered'
  BY <1>1 DEF StageInv, ValidIsAnswered
<1> QED
  BY <1>3, <1>4 DEF StageInv, NothingPending, PendingSymbols, DoneHasProposal

\* The stages end and no call is left.
LEMMA Emptied ==
  ASSUME StageInv, stage' \notin Underway, pending' = {}, call' = [c \in Callers |-> NoCall]
  PROVE  StageInv'
<1>1. \A s \in Symbols : call'[s].step = "none" /\ call'[s].valid = FALSE
  BY NoCallFields DEF Callers
<1> QED
  BY <1>1
  DEF StageInv, NothingPending, CallsArePending, PendingSymbols, ValidIsAnswered, DoneHasProposal

LEMMA StageInvariant == Spec => []StageInv
<1>1. Init => StageInv
  BY NoCallFields
  DEF Init, Callers, Underway, StageInv, NothingPending, CallsArePending, PendingSymbols,
      ValidIsAnswered, DoneHasProposal
<1>2. CallType /\ StageInv /\ [Next]_vars => StageInv'
  <2> SUFFICES ASSUME CallType, StageInv, [Next]_vars PROVE StageInv'
    OBVIOUS
  <2> USE DEF switching, store
  <2>0. "sync" \in Callers /\ Symbols \subseteq Callers /\ "sync" \notin Symbols
    BY StagesAssumption DEF Callers
  <2>1. CASE BeginSync
    <3>1. pending = {} /\ stage' = "analyst" /\ pending' = pending
      BY <2>1 DEF BeginSync, StageInv, NothingPending, Underway
    <3>2. \A s \in Symbols : call'[s] = call[s] /\ call[s].step = "none" /\ ~call[s].valid
      BY <2>0, <2>1, <3>1 DEF BeginSync, CallType, StageInv, CallsArePending, Calls
    <3> QED
      BY <3>1, <3>2 DEF StageInv, NothingPending, CallsArePending, PendingSymbols,
                        ValidIsAnswered, DoneHasProposal, Underway
  <2>2. CASE StartAgents
    <3>1. pending' = Symbols /\ stage' = "agents"
      BY <2>2 DEF StartAgents
    <3>2. \A s \in Symbols : call'[s].valid = FALSE
      BY <2>0, <2>2, AskFields DEF StartAgents
    <3> QED
      BY <3>1, <3>2 DEF StageInv, NothingPending, CallsArePending, PendingSymbols,
                        ValidIsAnswered, DoneHasProposal, Underway
  <2>3. CASE AgentsReturn
    BY <2>3 DEF AgentsReturn, StageInv, NothingPending, CallsArePending, PendingSymbols,
                ValidIsAnswered, DoneHasProposal, Underway
  <2>4. CASE SelectChallengers \/ SlotIsEmpty \/ (\E p \in proposals : ObservePaper(p))
             \/ \E type \in {"failure_mode", "novelty"} : EndSync(type)
    <3>1. /\ pending = {} /\ pending' = {} /\ call' = call /\ syncs' = syncs
          /\ answered' = answered /\ stage' \in {"paper", "final", "idle"}
      BY <2>4 DEF SelectChallengers, SlotIsEmpty, ObservePaper, EndSync, StageInv,
                  NothingPending, Underway
    <3> QED
      BY <3>1 DEF StageInv, NothingPending, CallsArePending, PendingSymbols, ValidIsAnswered,
                  DoneHasProposal, Underway
  <2>5. CASE AskJudgement
    <3>1. /\ stage = "debate" /\ stage' = "judge" /\ pending' = pending /\ syncs' = syncs
          /\ answered' = answered /\ proposals' = proposals
          /\ \A s \in Symbols : call'[s] = call[s]
      BY <2>0, <2>5 DEF AskJudgement, CallType
    <3> QED
      BY <3>1 DEF StageInv, NothingPending, CallsArePending, PendingSymbols, ValidIsAnswered,
                  DoneHasProposal, Underway
  <2>6. CASE SyncRaises \/ Crash
    BY <2>6, Emptied DEF SyncRaises, Crash, Underway
  <2>7. ASSUME NEW c \in Callers, StartCall(c) PROVE StageInv'
    <3>1. CASE provider = "minimax" /\ hasKey
      <4>1. /\ call'[c] = [call[c] EXCEPT !.step = "open"] /\ call[c].step = "ready"
            /\ \A d \in Callers : d # c => call'[d] = call[d]
        BY <2>7, <3>1 DEF StartCall, CallType
      <4>2. call'[c].step = "open" /\ call'[c].valid = call[c].valid
        BY <2>7, <4>1 DEF CallType, Calls
      <4>3. /\ \A s \in Symbols : s # c => call'[s] = call[s]
            /\ (c \in Symbols => c \in pending /\ ~call[c].valid)
        BY <2>0, <4>1 DEF StageInv, CallsArePending, ValidIsAnswered
      <4>4. UNCHANGED <<stage, pending, proposals, syncs, answered>>
        BY <2>7 DEF StartCall
      <4>5. CallsArePending'
        BY <4>3, <4>4 DEF StageInv, CallsArePending
      <4>6. ValidIsAnswered'
        BY <4>2, <4>3, <4>4 DEF StageInv, ValidIsAnswered
      <4> QED
        BY <4>4, <4>5, <4>6 DEF StageInv, NothingPending, PendingSymbols, DoneHasProposal
    <3>2. CASE ~(provider = "minimax" /\ hasKey)
      <4>1. PICK code \in Codes : Done(c, "mock", code, FALSE)
        BY <2>7, <3>2, ProvidersAndCodes DEF StartCall
      <4>2. call' \in [Callers -> Calls]
        BY <4>1, DoneType, ProvidersAndCodes
      <4>3. /\ call'[c].step = "done" /\ ~call'[c].valid
            /\ \A d \in Callers : d # c => call'[d] = call[d]
        BY <2>7, <4>1 DEF Done, CallType
      <4> QED BY <2>7, <4>2, <4>3, GatewayStep DEF StartCall
    <3> QED BY <3>1, <3>2
  <2>8. ASSUME NEW c \in Callers, NEW valid \in BOOLEAN, Answer(c, valid) PROVE StageInv'
    <3>1. call' \in [Callers -> Calls]
      BY <2>8, DoneType, ProvidersAndCodes DEF Answer
    <3>2. /\ call'[c].step = "done" /\ call'[c].source = "minimax" /\ call'[c].code = "ready"
          /\ call'[c].valid = valid
          /\ \A d \in Callers : d # c => call'[d] = call[d]
      BY <2>8 DEF Answer, Done, CallType
    <3>3. /\ answered \subseteq answered'
          /\ (valid /\ c \in Symbols => <<syncs, c>> \in answered')
      BY <2>8 DEF Answer
    <3> QED BY <2>8, <3>1, <3>2, <3>3, GatewayStep DEF Answer
  <2>9. ASSUME NEW c \in Callers, NEW retryable \in BOOLEAN, FailAttempt(c, retryable)
        PROVE  StageInv'
    <3>1. CASE retryable /\ call[c].attempt < Retries
      <4>1. call' = [call EXCEPT ![c].attempt = @ + 1]
        BY <2>9, <3>1 DEF FailAttempt
      <4>2. \A d \in Callers : /\ call'[d].step = call[d].step /\ call'[d].valid = call[d].valid
                               /\ call'[d].source = call[d].source
                               /\ call'[d].code = call[d].code
        BY <4>1 DEF CallType, Calls
      <4> QED
        BY <2>0, <2>9, <4>2
        DEF FailAttempt, StageInv, NothingPending, CallsArePending, PendingSymbols,
            ValidIsAnswered, DoneHasProposal
    <3>2. CASE ~(retryable /\ call[c].attempt < Retries)
      <4>1. Done(c, "mock", "failed", FALSE)
        BY <2>9, <3>2 DEF FailAttempt
      <4>2. call' \in [Callers -> Calls]
        BY <4>1, DoneType, ProvidersAndCodes
      <4>3. /\ call'[c].step = "done" /\ ~call'[c].valid
            /\ \A d \in Callers : d # c => call'[d] = call[d]
        BY <2>9, <4>1 DEF Done, CallType
      <4> QED BY <2>9, <4>2, <4>3, GatewayStep DEF FailAttempt
    <3> QED BY <3>1, <3>2
  <2>10. ASSUME NEW s \in Symbols, AskReview(s) PROVE StageInv'
    <3>1. /\ \A t \in Symbols : t # s => call'[t] = call[t]
          /\ call'[s] = [call[s] EXCEPT !.step = "asked"]
      BY <2>0, <2>10 DEF AskReview, CallType
    <3>2. /\ call'[s].step = "asked" /\ call'[s].valid = call[s].valid
          /\ call'[s].source = call[s].source /\ call'[s].code = call[s].code
      BY <2>0, <2>10, <3>1 DEF CallType, Calls
    <3>3. /\ s \in pending /\ stage = "review" /\ stage' = "debate"
          /\ UNCHANGED <<pending, proposals, syncs, answered>>
      BY <2>10 DEF AskReview
    <3>4. CallsArePending'
      BY <3>1, <3>2, <3>3 DEF StageInv, CallsArePending
    <3>5. ValidIsAnswered'
      <4>1. ASSUME NEW t \in Symbols, t # s, call'[t].valid
            PROVE  /\ call'[t].step \notin {"none", "ready", "open"}
                   /\ call'[t].source = "minimax" /\ call'[t].code = "ready"
                   /\ <<syncs', t>> \in answered'
        BY <3>1, <3>3, <4>1 DEF StageInv, ValidIsAnswered
      <4>2. ASSUME call'[s].valid
            PROVE  /\ call'[s].source = "minimax" /\ call'[s].code = "ready"
                   /\ <<syncs', s>> \in answered'
        BY <3>2, <3>3, <4>2 DEF StageInv, ValidIsAnswered
      <4> QED BY <3>2, <4>1, <4>2 DEF ValidIsAnswered
    <3> QED
      BY <3>3, <3>4, <3>5 DEF StageInv, NothingPending, PendingSymbols, DoneHasProposal, Underway
  <2>11. ASSUME NEW s \in Symbols, Materialize(s) PROVE StageInv'
    <3>1. /\ \A t \in Symbols : t # s => call'[t] = call[t]
          /\ call'[s] = NoCall
      BY <2>0, <2>11 DEF Materialize, CallType
    <3>2. /\ pending' = pending \ {s} /\ stage' = "review" /\ stage \in Underway
          /\ proposals \subseteq proposals' /\ (\E p \in proposals' : p.id = <<syncs, s>>)
          /\ syncs' = syncs /\ answered' = answered
      BY <2>11 DEF Materialize, Underway
    <3>3. CallsArePending' /\ ValidIsAnswered'
      BY <3>1, <3>2, NoCallFields DEF StageInv, CallsArePending, ValidIsAnswered
    <3>4. DoneHasProposal'
      BY <3>2 DEF StageInv, DoneHasProposal
    <3> QED
      BY <3>2, <3>3, <3>4 DEF StageInv, NothingPending, PendingSymbols, Underway
  <2>12. CASE RecordSwitch \/ \E p \in Providers : SwitchTo(p)
    BY <2>12 DEF RecordSwitch, SwitchTo, StageInv, NothingPending, CallsArePending,
                 PendingSymbols, ValidIsAnswered, DoneHasProposal
  <2>13. CASE UNCHANGED vars
    BY <2>13 DEF vars, StageInv, NothingPending, CallsArePending,
                 PendingSymbols, ValidIsAnswered, DoneHasProposal
  <2> QED
    BY <2>1, <2>2, <2>3, <2>4, <2>5, <2>6, <2>7, <2>8, <2>9, <2>10, <2>11, <2>12, <2>13
    DEF Next
<1> QED BY <1>1, <1>2, CallTypeInvariant, PTL DEF Spec

-----------------------------------------------------------------------------
\* Types.

Counters ==
  /\ hasKey \in BOOLEAN /\ provider \in Providers
  /\ stage \in {"idle", "analyst", "agents", "review", "debate", "judge", "paper", "final"}
  /\ syncs \in 0..MaxSyncs /\ (stage # "idle" => syncs > 0)
  /\ crashes \in 0..MaxCrashes

Stored ==
  /\ proposals \subseteq [id : Nat \X Symbols, at : Nat, source : Providers, code : Codes,
                          judge : Providers]
  /\ DOMAIN batches \subseteq 1..syncs
  /\ \A b \in DOMAIN batches : batches[b] \in {"running", "completed"}
  /\ answered \subseteq Nat \X Symbols

LEMMA CountersInvariant == Spec => []Counters
<1> USE StagesAssumption, ProvidersAndCodes DEF switching, store, Counters
<1>1. Init => Counters
  BY DEF Init
<1>2. Counters /\ [Next]_vars => Counters'
  <2> SUFFICES ASSUME Counters, [Next]_vars PROVE Counters'
    OBVIOUS
  <2>1. CASE BeginSync
    BY <2>1 DEF BeginSync
  <2>2. CASE Crash
    BY <2>2 DEF Crash
  <2>3. ASSUME NEW p \in Providers, SwitchTo(p) PROVE Counters'
    BY <2>3 DEF SwitchTo
  <2>4. CASE StartAgents \/ AgentsReturn \/ AskJudgement \/ SyncRaises
    BY <2>4 DEF StartAgents, AgentsReturn, AskJudgement, SyncRaises
  <2>5. CASE \E c \in Callers :
               \/ StartCall(c)
               \/ \E valid \in BOOLEAN : Answer(c, valid)
               \/ \E retryable \in BOOLEAN : FailAttempt(c, retryable)
    BY <2>5 DEF StartCall, Answer, FailAttempt
  <2>6. CASE \E s \in Symbols : AskReview(s) \/ Materialize(s)
    BY <2>6 DEF AskReview, Materialize
  <2>7. CASE SelectChallengers \/ SlotIsEmpty \/ (\E p \in proposals : ObservePaper(p))
             \/ \E type \in {"failure_mode", "novelty"} : EndSync(type)
    BY <2>7 DEF SelectChallengers, SlotIsEmpty, ObservePaper, EndSync
  <2>8. CASE RecordSwitch \/ UNCHANGED vars
    BY <2>8 DEF RecordSwitch, vars
  <2> QED BY <2>1, <2>2, <2>3, <2>4, <2>5, <2>6, <2>7, <2>8 DEF Next
<1> QED BY <1>1, <1>2, PTL DEF Spec

LEMMA BlueprintType ==
  ASSUME CallType, NEW s \in Symbols
  PROVE  Blueprint(s).source \in Providers /\ Blueprint(s).code \in Codes
BY ProvidersAndCodes DEF CallType, Calls, Callers, Blueprint, Normalized, Fallback

LEMMA StoredInvariant == Spec => []Stored
<1>1. Init => Stored
  BY DEF Init, Stored
<1>2. Counters /\ CallType /\ Stored /\ [Next]_vars => Stored'
  <2> SUFFICES ASSUME Counters, CallType, Stored, [Next]_vars PROVE Stored'
    OBVIOUS
  <2>0. syncs \in Nat
    BY StagesAssumption DEF Counters
  <2> USE DEF switching, store
  <2>1. ASSUME NEW s \in Symbols, Materialize(s) PROVE Stored'
    <3> DEFINE new == [id |-> <<syncs, s>>, at |-> call[s].at, source |-> Blueprint(s).source,
                       code |-> Blueprint(s).code,
                       judge |-> IF Blueprint(s).source = "mock" THEN "mock"
                                 ELSE call["sync"].source]
    <3>1. call[s].at \in Nat /\ call["sync"].source \in Providers
      BY DEF CallType, Calls, Callers
    <3>2. new \in [id : Nat \X Symbols, at : Nat, source : Providers, code : Codes,
                   judge : Providers]
      BY <2>0, <3>1, BlueprintType, ProvidersAndCodes
    <3>3. /\ proposals' = proposals \cup {new} /\ batches' = batches
          /\ answered' = answered /\ syncs' = syncs
      BY <2>1 DEF Materialize
    <3> QED BY <3>2, <3>3 DEF Stored
  <2>2. CASE StartAgents \/ SelectChallengers
    <3>1. /\ \E state \in {"running", "completed"} : batches' = With(syncs, state)
          /\ syncs' = syncs /\ syncs \in 1..syncs
          /\ proposals' = proposals /\ answered' = answered
      BY <2>0, <2>2 DEF StartAgents, SelectChallengers, Counters
    <3> QED BY <3>1 DEF With, Stored
  <2>3. CASE BeginSync
    BY <2>0, <2>3 DEF BeginSync, Stored
  <2>4. ASSUME NEW c \in Callers, NEW valid \in BOOLEAN, Answer(c, valid) PROVE Stored'
    BY <2>0, <2>4 DEF Answer, Stored
  <2>5. CASE ~(\E s \in Symbols : Materialize(s)) /\ ~StartAgents /\ ~SelectChallengers
             /\ ~BeginSync /\ ~(\E c \in Callers, valid \in BOOLEAN : Answer(c, valid))
    <3>1. UNCHANGED <<proposals, batches, answered, syncs>>
      BY <2>5
      DEF Next, AgentsReturn, AskJudgement, SyncRaises, StartCall, FailAttempt, AskReview,
          ObservePaper, SlotIsEmpty, EndSync, SwitchTo, RecordSwitch, Crash, vars
    <3> QED BY <3>1 DEF Stored
  <2> QED BY <2>1, <2>2, <2>3, <2>4, <2>5
<1> QED BY <1>1, <1>2, CountersInvariant, CallTypeInvariant, PTL DEF Spec

LEMMA AstrayInvariant == Spec => [](astray \in BOOLEAN)
<1>1. Init => astray \in BOOLEAN
  BY DEF Init
<1>2. astray \in BOOLEAN /\ [Next]_vars => (astray \in BOOLEAN)'
  BY Zenon
  DEF Next, BeginSync, StartAgents, AgentsReturn, AskJudgement, SyncRaises, StartCall, Answer,
      FailAttempt, AskReview, Materialize, SelectChallengers, ObservePaper, SlotIsEmpty, EndSync,
      SwitchTo, RecordSwitch, Crash, vars, switching, store
<1> QED BY <1>1, <1>2, PTL DEF Spec

\* Every variable has its type, and the batches are those of the syncs that have begun.
THEOREM TypeInvariant == Spec => []TypeOK
<1>1. Counters /\ CallType /\ Stored /\ StageInv /\ astray \in BOOLEAN => TypeOK
  BY DEF Counters, CallType, Stored, StageInv, PendingSymbols, TypeOK
<1> QED
  BY <1>1, CountersInvariant, CallTypeInvariant, StoredInvariant, StageInvariant,
     AstrayInvariant, PTL

-----------------------------------------------------------------------------
\* The theorems.

\* A mock is never taken for a real result: whatever is switched, fails or dies while the
\* agents run, a proposal that is said to come from the provider was answered by it.
THEOREM MocksAreMarked == Spec => []MockIsMarked
<1>1. Init => MockIsMarked
  BY DEF Init, MockIsMarked
<1>2. StageInv /\ MockIsMarked /\ [Next]_vars => MockIsMarked'
  <2> SUFFICES ASSUME StageInv, MockIsMarked, [Next]_vars PROVE MockIsMarked'
    OBVIOUS
  <2>1. ASSUME NEW s \in Symbols, Materialize(s) PROVE MockIsMarked'
    <3> DEFINE new == [id |-> <<syncs, s>>, at |-> call[s].at, source |-> Blueprint(s).source,
                       code |-> Blueprint(s).code,
                       judge |-> IF Blueprint(s).source = "mock" THEN "mock"
                                 ELSE call["sync"].source]
    <3>1. proposals' = proposals \cup {new} /\ answered' = answered
      BY <2>1 DEF Materialize
    <3>2. Blueprint(s).source = "minimax" => call[s].valid /\ Blueprint(s).code = call[s].code
      BY DEF Blueprint, Normalized, Fallback
    <3>3. new.source = "minimax" => new.id \in answered /\ new.code = "ready"
      BY <3>2 DEF StageInv, ValidIsAnswered
    <3> QED BY <3>1, <3>3 DEF MockIsMarked
  <2>2. CASE ~(\E s \in Symbols : Materialize(s))
    <3>1. proposals' = proposals /\ answered \subseteq answered'
      BY <2>2
      DEF Next, BeginSync, StartAgents, AgentsReturn, AskJudgement, SyncRaises, StartCall, Answer,
          FailAttempt, AskReview, SelectChallengers, ObservePaper, SlotIsEmpty, EndSync, SwitchTo,
          RecordSwitch, Crash, vars, store, switching
    <3> QED BY <3>1 DEF MockIsMarked
  <2> QED BY <2>1, <2>2
<1> QED BY <1>1, <1>2, StageInvariant, PTL DEF Spec

\* A batch is completed only when every one of its symbols has a proposal.
THEOREM CompletedBatchesAreWhole == Spec => []CompletedBatchIsWhole
<1>1. Init => CompletedBatchIsWhole
  BY DEF Init, CompletedBatchIsWhole
<1>2. StageInv /\ CompletedBatchIsWhole /\ [Next]_vars => CompletedBatchIsWhole'
  <2> SUFFICES ASSUME StageInv, CompletedBatchIsWhole, [Next]_vars PROVE CompletedBatchIsWhole'
    OBVIOUS
  <2>1. CASE StartAgents
    <3>1. proposals' = proposals /\ batches' = With(syncs, "running")
      BY <2>1 DEF StartAgents
    <3> QED BY <3>1 DEF With, CompletedBatchIsWhole
  <2>2. CASE SelectChallengers
    <3>1. proposals' = proposals /\ batches' = With(syncs, "completed")
      BY <2>2 DEF SelectChallengers
    <3>2. \A s \in Symbols : \E p \in proposals : p.id = <<syncs, s>>
      BY <2>2 DEF SelectChallengers, StageInv, DoneHasProposal, Underway
    <3> QED BY <3>1, <3>2 DEF With, CompletedBatchIsWhole
  <2>3. CASE ~StartAgents /\ ~SelectChallengers
    <3>1. batches' = batches /\ proposals \subseteq proposals'
      BY <2>3
      DEF Next, BeginSync, AgentsReturn, AskJudgement, SyncRaises, StartCall, Answer,
          FailAttempt, AskReview, Materialize, ObservePaper, SlotIsEmpty, EndSync, SwitchTo,
          RecordSwitch, Crash, vars, store, switching
    <3> QED BY <3>1 DEF CompletedBatchIsWhole
  <2> QED BY <2>1, <2>2, <2>3
<1> QED BY <1>1, <1>2, StageInvariant, PTL DEF Spec

-----------------------------------------------------------------------------
\* Cohorts.  The provider that was selected when a symbol was stamped is that of the
\* cohort of the stamp; before the first switch it is the selected one.

ProviderAt(a) == IF a = 0 THEN provider ELSE cohorts[a].provider
Known(a) == a # 0 \/ (cohorts = <<>> /\ patch.step = "idle")

CohortsAreDated == \A i \in DOMAIN cohorts : cohorts[i].at = i

\* What is stored is what the open switch, or else the last recorded one, asked for.
SwitchIsTrue ==
  IF patch.step = "stored" THEN provider = patch.provider
  ELSE cohorts # <<>> => cohorts[Len(cohorts)].provider = provider

\* What a call, or a proposal, with that code and source says of its provider.
Agrees(code, source, a) ==
  Known(a) => /\ code = "mock" <=> ProviderAt(a) = "mock"
              /\ code = "mock" => source = "mock"

CallIsTrue(r) ==
  r.step # "none" =>
    /\ r.at <= Now
    /\ r.step = "ready" => r.at = Now /\ patch.step = "idle"
    /\ r.step = "open" /\ Known(r.at) => ProviderAt(r.at) = "minimax"
    /\ r.step \in {"done", "asked"} => Agrees(r.code, r.source, r.at)

ProposalIsTrue(p) == p.at <= Now /\ Agrees(p.code, p.source, p.at)

CallsAreTrue == \A s \in Symbols : CallIsTrue(call[s])
ProposalsAreTrue == \A p \in proposals : ProposalIsTrue(p)

CohortInv == ~astray => SwitchIsTrue /\ CallsAreTrue /\ ProposalsAreTrue

\* As long as nothing goes astray, a step changes nothing in what is known of the past.
PastStands ==
  /\ ~astray
  /\ Now' \in Nat /\ Now' >= Now
  /\ \A a \in 0..Now : Known(a)' => Known(a) /\ ProviderAt(a)' = ProviderAt(a)

LEMMA SwitchStep ==
  ASSUME CallType, provider \in Providers, CohortInv, ~astray',
         \/ UNCHANGED <<provider, patch, cohorts>> /\ (astray => astray')
         \/ \E p \in Providers : SwitchTo(p)
         \/ RecordSwitch \/ Crash
  PROVE  PastStands /\ SwitchIsTrue'
<1>0. cohorts \in Seq([provider : Providers, at : Nat]) /\ Now = Len(cohorts) /\ Now \in Nat
      /\ DOMAIN cohorts = 1..Now
  BY DEF CallType, Now
<1>1. CASE UNCHANGED <<provider, patch, cohorts>> /\ (astray => astray')
  <2>1. PastStands
    BY <1>0, <1>1 DEF PastStands, Known, ProviderAt, Now
  <2>2. ~astray /\ SwitchIsTrue
    BY <1>1 DEF CohortInv
  <2> QED BY <1>1, <2>1, <2>2 DEF CohortInv, SwitchIsTrue
<1>2. ASSUME NEW p \in Providers, SwitchTo(p) PROVE PastStands /\ SwitchIsTrue'
  <2>1. /\ ~astray /\ ~Refused(p) /\ patch.step = "idle" /\ cohorts' = cohorts
        /\ provider' = p /\ patch' = [step |-> "stored", provider |-> p]
    BY <1>2 DEF SwitchTo
  <2>2. PastStands
    BY <1>0, <2>1 DEF PastStands, Known, ProviderAt, Now
  <2> QED BY <2>1, <2>2 DEF CohortInv, SwitchIsTrue
<1>3. CASE RecordSwitch
  <2>1. /\ ~astray /\ patch.step = "stored" /\ provider' = provider
        /\ cohorts' = Append(cohorts, [provider |-> patch.provider, at |-> Now + 1])
        /\ patch'.step = "idle"
    BY <1>3 DEF RecordSwitch, CohortStarted, CallType
  <2>2. patch.provider \in Providers /\ [provider |-> patch.provider, at |-> Now + 1]
                                           \in [provider : Providers, at : Nat]
    BY <1>0 DEF CallType
  <2>3. /\ Len(cohorts') = Now + 1 /\ cohorts' # <<>> /\ DOMAIN cohorts' = 1..(Now + 1)
        /\ \A i \in 1..Now : cohorts'[i] = cohorts[i]
        /\ cohorts'[Now + 1] = [provider |-> patch.provider, at |-> Now + 1]
    BY <1>0, <2>1, <2>2
  <2>4. PastStands
    <3>1. Now' = Now + 1 /\ Now' \in Nat /\ Now' >= Now
      BY <1>0, <2>3 DEF Now
    <3>2. ASSUME NEW a \in 0..Now, Known(a)' PROVE Known(a) /\ ProviderAt(a)' = ProviderAt(a)
      <4>1. a # 0
        BY <2>3, <3>2 DEF Known
      <4>2. a \in 1..Now
        BY <1>0, <4>1
      <4> QED BY <2>3, <4>1, <4>2 DEF Known, ProviderAt
    <3> QED BY <2>1, <3>1, <3>2 DEF PastStands
  <2>5. SwitchIsTrue'
    <3>1. provider = patch.provider
      BY <2>1 DEF CohortInv, SwitchIsTrue
    <3> QED BY <1>0, <2>1, <2>3, <3>1 DEF SwitchIsTrue
  <2> QED BY <2>4, <2>5
<1>4. CASE Crash
  <2>1. ~astray /\ patch.step = "idle" /\ provider' = provider /\ cohorts' = cohorts
        /\ patch'.step = "idle"
    BY <1>4 DEF Crash, CallType
  <2>2. PastStands
    BY <1>0, <2>1 DEF PastStands, Known, ProviderAt, Now
  <2> QED BY <2>1, <2>2 DEF CohortInv, SwitchIsTrue
<1> QED BY <1>1, <1>2, <1>3, <1>4

\* What was true of a call that is past asking, or of a proposal, stays true.
LEMMA AgreesStays ==
  ASSUME PastStands, NEW code, NEW source, NEW a \in 0..Now, Agrees(code, source, a)
  PROVE  Agrees(code, source, a)'
BY DEF PastStands, Agrees

LEMMA CallStays ==
  ASSUME CallType, PastStands, NEW s \in Symbols, CallIsTrue(call[s]), call'[s] = call[s],
         call[s].step = "ready" => Now' = Now /\ patch'.step = "idle"
  PROVE  CallIsTrue(call[s])'
<1>1. call[s].at \in Nat /\ Now \in Nat /\ Now' >= Now
  BY BlankCalls DEF CallType, Calls, Callers, PastStands
<1>2. Now' \in Nat
  BY DEF PastStands
<1>3. CASE call[s].step = "none"
  BY <1>3 DEF CallIsTrue
<1>4. CASE call[s].step # "none"
  <2>1. call[s].at \in 0..Now
    BY <1>1, <1>4 DEF CallIsTrue
  <2>2. call[s].step \in {"done", "asked"} => Agrees(call[s].code, call[s].source, call[s].at)'
    BY <1>4, <2>1, AgreesStays DEF CallIsTrue, PastStands, Agrees
  <2> QED BY <1>1, <1>2, <1>4, <2>1, <2>2 DEF CallIsTrue, PastStands
<1> QED BY <1>3, <1>4

LEMMA DatedInvariant == Spec => []CohortsAreDated
<1>1. Init => CohortsAreDated
  BY DEF Init, CohortsAreDated
<1>2. CallType /\ CohortsAreDated /\ [Next]_vars => CohortsAreDated'
  <2> SUFFICES ASSUME CallType, CohortsAreDated, [Next]_vars PROVE CohortsAreDated'
    OBVIOUS
  <2>1. CASE RecordSwitch
    <3>1. cohorts' = Append(cohorts, CohortStarted) /\ CohortStarted.at = Len(cohorts) + 1
      BY <2>1 DEF RecordSwitch, CohortStarted, Now
    <3> QED BY <3>1 DEF CohortsAreDated, CallType
  <2>2. CASE ~RecordSwitch
    <3>1. cohorts' = cohorts
      BY <2>2
      DEF Next, BeginSync, StartAgents, AgentsReturn, AskJudgement, SyncRaises, StartCall, Answer,
          FailAttempt, AskReview, Materialize, SelectChallengers, ObservePaper, SlotIsEmpty,
          EndSync, SwitchTo, Crash, vars, store, switching
    <3> QED BY <3>1 DEF CohortsAreDated
  <2> QED BY <2>1, <2>2
<1> QED BY <1>1, <1>2, CallTypeInvariant, PTL DEF Spec

\* The call of one caller moves on while nothing is switched.
LEMMA CallMoves ==
  ASSUME CallType, PastStands, UNCHANGED <<patch, cohorts>>, NEW c \in Callers,
         CallsAreTrue,
         \A d \in Callers : d # c => call'[d] = call[d],
         c \in Symbols => CallIsTrue(call[c])'
  PROVE  CallsAreTrue'
<1> SUFFICES ASSUME NEW s \in Symbols PROVE CallIsTrue(call[s])'
  BY DEF CallsAreTrue
<1>1. CASE s = c
  BY <1>1
<1>2. CASE s # c
  <2>1. call'[s] = call[s] /\ Now' = Now
    BY <1>2 DEF Callers, Now
  <2>2. CallIsTrue(call[s])
    BY DEF CallsAreTrue
  <2>3. call[s].step = "ready" => patch'.step = "idle"
    BY <2>2 DEF CallIsTrue
  <2> QED BY <2>1, <2>2, <2>3, CallStays
<1> QED BY <1>1, <1>2

LEMMA CohortInvariant == Spec => []CohortInv
<1>1. Init => CohortInv
  <2> SUFFICES ASSUME Init PROVE CohortInv
    OBVIOUS
  <2>1. \A s \in Symbols : call[s].step = "none"
    BY NoCallFields DEF Init, Callers
  <2> QED
    BY <2>1 DEF Init, CohortInv, SwitchIsTrue, CallsAreTrue, CallIsTrue, ProposalsAreTrue
<1>2. Counters /\ CallType /\ Stored /\ StageInv /\ CohortInv /\ [Next]_vars => CohortInv'
  <2> SUFFICES ASSUME Counters, CallType, Stored, StageInv, CohortInv, [Next]_vars, ~astray'
               PROVE  SwitchIsTrue' /\ CallsAreTrue' /\ ProposalsAreTrue'
    BY DEF CohortInv
  <2> USE DEF switching, store
  <2>1. PastStands /\ SwitchIsTrue'
    <3>1. CASE (\E p \in Providers : SwitchTo(p)) \/ RecordSwitch \/ Crash
      BY <3>1, SwitchStep DEF Counters
    <3>2. CASE ~((\E p \in Providers : SwitchTo(p)) \/ RecordSwitch \/ Crash)
      <4>1. UNCHANGED <<provider, patch, cohorts>> /\ (astray => astray')
        <5>1. UNCHANGED <<provider, patch, cohorts>>
          BY <3>2
          DEF Next, BeginSync, StartAgents, AgentsReturn, AskJudgement, SyncRaises, StartCall,
              Answer, FailAttempt, AskReview, Materialize, SelectChallengers, ObservePaper,
              SlotIsEmpty, EndSync, vars
        <5>2. CASE StartAgents
          BY <5>1, <5>2 DEF StartAgents
        <5>3. CASE ~StartAgents
          <6>1. astray' = astray
            BY <3>2, <5>3
            DEF Next, BeginSync, AgentsReturn, AskJudgement, SyncRaises, StartCall,
                Answer, FailAttempt, AskReview, Materialize, SelectChallengers, ObservePaper,
                SlotIsEmpty, EndSync, vars
          <6> QED BY <5>1, <6>1
        <5> QED BY <5>2, <5>3
      <4> QED BY <4>1, SwitchStep DEF Counters
    <3> QED BY <3>1, <3>2
  <2>2. ~astray /\ SwitchIsTrue /\ CallsAreTrue /\ ProposalsAreTrue
    BY <2>1 DEF PastStands, CohortInv
  <2>3. "sync" \in Callers /\ Symbols \subseteq Callers /\ "sync" \notin Symbols
    BY StagesAssumption DEF Callers
  <2>4. CallsAreTrue'
    <3>1. CASE BeginSync \/ AskJudgement
      <4>1. UNCHANGED <<patch, cohorts>> /\ \A d \in Callers : d # "sync" => call'[d] = call[d]
        BY <3>1 DEF BeginSync, AskJudgement, CallType
      <4> QED BY <2>1, <2>2, <2>3, <4>1, CallMoves
    <3>2. CASE \/ AgentsReturn \/ SelectChallengers \/ SlotIsEmpty \/ UNCHANGED vars
               \/ (\E p \in proposals : ObservePaper(p))
               \/ \E type \in {"failure_mode", "novelty"} : EndSync(type)
      <4>1. UNCHANGED <<patch, cohorts, call>>
        BY <3>2 DEF AgentsReturn, SelectChallengers, SlotIsEmpty, ObservePaper, EndSync, vars
      <4> QED BY <2>1, <2>2, <2>3, <4>1, CallMoves
    <3>3. CASE StartAgents
      <4>1. patch.step = "idle" /\ UNCHANGED <<patch, cohorts>>
        BY <3>3 DEF StartAgents, CallType
      <4>2. ASSUME NEW s \in Symbols PROVE call'[s] = [Ask EXCEPT !.at = Now]
        BY <2>3, <3>3 DEF StartAgents
      <4>3. /\ [Ask EXCEPT !.at = Now].step = "ready" /\ [Ask EXCEPT !.at = Now].at = Now
            /\ Now \in Nat /\ Now' = Now
        BY <4>1, BlankCalls DEF Ask, NoCall, Now
      <4>4. ASSUME NEW s \in Symbols PROVE CallIsTrue(call[s])'
        <5>1. call'[s].step = "ready" /\ call'[s].at = Now'
          BY <4>2, <4>3
        <5>2. patch'.step = "idle" /\ Now' \in Nat
          BY <4>1, <4>3
        <5> QED BY <5>1, <5>2 DEF CallIsTrue
      <4> QED BY <4>4 DEF CallsAreTrue
    <3>4. CASE SyncRaises \/ Crash
      <4>1. \A s \in Symbols : call'[s].step = "none"
        BY <2>3, <3>4, NoCallFields DEF SyncRaises, Crash
      <4> QED BY <4>1 DEF CallsAreTrue, CallIsTrue
    <3>5. ASSUME NEW c \in Callers, StartCall(c) PROVE CallsAreTrue'
      <4>1. UNCHANGED <<provider, patch, cohorts>> /\ call[c].step = "ready"
            /\ \A d \in Callers : d # c => call'[d] = call[d]
        BY <3>5 DEF StartCall, Done, CallType
      <4>2. ASSUME c \in Symbols PROVE CallIsTrue(call[c])'
        <5>1. call[c].at = Now /\ patch.step = "idle" /\ call[c].at <= Now
          BY <2>2, <4>1, <4>2 DEF CallsAreTrue, CallIsTrue
        <5>2. Known(Now)' /\ ProviderAt(Now)' = provider
          BY <2>2, <4>1, <5>1 DEF SwitchIsTrue, Known, ProviderAt, Now, CallType
        <5>3. CASE provider = "minimax" /\ hasKey
          <6>1. call'[c] = [call[c] EXCEPT !.step = "open"]
            BY <3>5, <5>3 DEF StartCall, CallType
          <6>2. call'[c].step = "open" /\ call'[c].at = call[c].at
            BY <6>1 DEF CallType, Calls
          <6> QED BY <4>1, <5>1, <5>2, <5>3, <6>2 DEF CallIsTrue, Now
        <5>4. CASE ~(provider = "minimax" /\ hasKey)
          <6>1. /\ call'[c].step = "done" /\ call'[c].at = call[c].at /\ call'[c].source = "mock"
                /\ call'[c].code = IF provider = "mock" THEN "mock" ELSE "missing_key"
            BY <3>5, <5>4 DEF StartCall, Done, CallType
          <6> QED BY <4>1, <5>1, <5>2, <6>1 DEF CallIsTrue, Agrees, Now
        <5> QED BY <5>3, <5>4
      <4> QED BY <2>1, <2>2, <4>1, <4>2, CallMoves
    <3>6. ASSUME NEW c \in Callers, NEW valid \in BOOLEAN, Answer(c, valid) PROVE CallsAreTrue'
      <4>1. UNCHANGED <<provider, patch, cohorts>> /\ call[c].step = "open"
            /\ \A d \in Callers : d # c => call'[d] = call[d]
        BY <3>6 DEF Answer, Done, CallType
      <4>2. call'[c].step = "done" /\ call'[c].at = call[c].at /\ call'[c].code = "ready"
        BY <3>6 DEF Answer, Done, CallType
      <4>3. c \in Symbols => CallIsTrue(call[c])'
        BY <2>2, <4>1, <4>2 DEF CallsAreTrue, CallIsTrue, Agrees, Known, ProviderAt, Now
      <4> QED BY <2>1, <2>2, <4>1, <4>3, CallMoves
    <3>7. ASSUME NEW c \in Callers, NEW retryable \in BOOLEAN, FailAttempt(c, retryable)
          PROVE  CallsAreTrue'
      <4>1. UNCHANGED <<provider, patch, cohorts>> /\ call[c].step = "open"
            /\ \A d \in Callers : d # c => call'[d] = call[d]
        BY <3>7 DEF FailAttempt, Done, CallType
      <4>2. /\ call'[c].at = call[c].at
            /\ \/ call'[c].step = "open"
               \/ call'[c].step = "done" /\ call'[c].code = "failed"
        <5>1. CASE retryable /\ call[c].attempt < Retries
          <6>1. call'[c] = [call[c] EXCEPT !.attempt = @ + 1]
            BY <3>7, <5>1 DEF FailAttempt, CallType
          <6>2. call[c] \in Calls
            BY DEF CallType
          <6>3. call'[c].at = call[c].at /\ call'[c].step = call[c].step
            BY <6>1, <6>2 DEF Calls
          <6> QED BY <4>1, <6>3
        <5>2. CASE ~(retryable /\ call[c].attempt < Retries)
          BY <3>7, <5>2 DEF FailAttempt, Done, CallType
        <5> QED BY <5>1, <5>2
      <4>3. c \in Symbols => CallIsTrue(call[c])'
        BY <2>2, <4>1, <4>2 DEF CallsAreTrue, CallIsTrue, Agrees, Known, ProviderAt, Now
      <4> QED BY <2>1, <2>2, <4>1, <4>3, CallMoves
    <3>8. ASSUME NEW t \in Symbols, AskReview(t) PROVE CallsAreTrue'
      <4>1. UNCHANGED <<provider, patch, cohorts>>
            /\ call' = [call EXCEPT !["sync"] = Ask, ![t].step = "asked"]
        BY <3>8 DEF AskReview
      <4>2. call[t].step \in {"done", "asked"}
        <5>1. call[t].valid
          BY <3>8 DEF AskReview, Blueprint, Fallback
        <5> QED BY <2>3, <5>1 DEF StageInv, ValidIsAnswered, CallType, Calls
      <4>3. /\ \A d \in Symbols : d # t => call'[d] = call[d]
            /\ call'[t] = [call[t] EXCEPT !.step = "asked"]
        BY <2>3, <4>1 DEF CallType
      <4>4. /\ call'[t].step = "asked" /\ call'[t].at = call[t].at
            /\ call'[t].code = call[t].code /\ call'[t].source = call[t].source
        BY <2>3, <4>3 DEF CallType, Calls
      <4>5. CallIsTrue(call[t])'
        BY <2>2, <4>1, <4>2, <4>4 DEF CallsAreTrue, CallIsTrue, Agrees, Known, ProviderAt, Now
      <4>6. ASSUME NEW s \in Symbols, s # t PROVE CallIsTrue(call[s])'
        <5>1. CallIsTrue(call[s]) /\ call'[s] = call[s]
          BY <2>2, <4>3, <4>6 DEF CallsAreTrue
        <5>2. UNCHANGED <<provider, patch, cohorts>>
          BY <4>1
        <5> QED BY <5>1, <5>2 DEF CallIsTrue, Agrees, Known, ProviderAt, Now
      <4> QED BY <4>5, <4>6 DEF CallsAreTrue
    <3>9. ASSUME NEW t \in Symbols, Materialize(t) PROVE CallsAreTrue'
      <4>1. /\ UNCHANGED <<provider, patch, cohorts>> /\ call'[t].step = "none"
            /\ \A d \in Symbols : d # t => call'[d] = call[d]
        BY <2>3, <3>9, NoCallFields DEF Materialize, CallType
      <4>2. ASSUME NEW s \in Symbols, s # t PROVE CallIsTrue(call[s])'
        BY <2>2, <4>1, <4>2 DEF CallsAreTrue, CallIsTrue, Agrees, Known, ProviderAt, Now
      <4>3. CallIsTrue(call[t])'
        BY <4>1 DEF CallIsTrue
      <4> QED BY <4>2, <4>3 DEF CallsAreTrue
    <3>10. CASE RecordSwitch \/ \E p \in Providers : SwitchTo(p)
      <4>1. /\ \A s \in Symbols : call'[s] = call[s] /\ call[s].step # "ready"
        BY <2>2, <3>10 DEF RecordSwitch, SwitchTo, CallsAreTrue, CallIsTrue
      <4> QED BY <2>1, <2>2, <4>1, CallStays DEF CallsAreTrue
    <3> QED
      BY <3>1, <3>2, <3>3, <3>4, <3>5, <3>6, <3>7, <3>8, <3>9, <3>10 DEF Next
  <2>5. ProposalsAreTrue'
    <3>0. Now \in Nat /\ Now' \in Nat /\ Now' >= Now
      BY <2>1, BlankCalls DEF PastStands
    <3>1. ASSUME NEW p \in proposals, p.at \in Nat PROVE ProposalIsTrue(p)'
      <4>1. p.at \in 0..Now /\ Agrees(p.code, p.source, p.at)
        BY <2>2, <3>0, <3>1 DEF ProposalsAreTrue, ProposalIsTrue
      <4> QED BY <2>1, <3>0, <4>1, AgreesStays DEF ProposalIsTrue
    <3>2. CASE \E s \in Symbols : Materialize(s)
      <4>1. PICK s \in Symbols : Materialize(s)
        BY <3>2
      <4>2. /\ call[s].step \in {"done", "asked"} /\ call[s].at \in Nat
            /\ call[s].at <= Now /\ Agrees(call[s].code, call[s].source, call[s].at)
        <5>1. call[s].step \in {"done", "asked"}
          BY <4>1 DEF Materialize
        <5>2. CallIsTrue(call[s])
          BY <2>2 DEF CallsAreTrue
        <5>3. call[s].at \in Nat
          BY <2>3 DEF CallType, Calls
        <5> QED BY <5>1, <5>2, <5>3 DEF CallIsTrue
      <4>3. Agrees(Blueprint(s).code, Blueprint(s).source, call[s].at)
        BY <4>2 DEF Agrees, Blueprint, Normalized, Fallback
      <4>4. ASSUME NEW p \in proposals', p \notin proposals PROVE ProposalIsTrue(p)'
        <5>1. p.code = Blueprint(s).code /\ p.source = Blueprint(s).source /\ p.at = call[s].at
          BY <4>1, <4>4 DEF Materialize
        <5>2. p.at \in 0..Now /\ Agrees(p.code, p.source, p.at)
          BY <3>0, <4>2, <4>3, <5>1
        <5> QED BY <2>1, <3>0, <5>2, AgreesStays DEF ProposalIsTrue
      <4>5. ASSUME NEW p \in proposals PROVE ProposalIsTrue(p)'
        BY <3>1 DEF Stored
      <4> QED BY <4>4, <4>5 DEF ProposalsAreTrue
    <3>3. CASE ~(\E s \in Symbols : Materialize(s))
      <4>1. proposals' = proposals
        BY <3>3
        DEF Next, BeginSync, StartAgents, AgentsReturn, AskJudgement, SyncRaises, StartCall,
            Answer, FailAttempt, AskReview, SelectChallengers, ObservePaper, SlotIsEmpty,
            EndSync, SwitchTo, RecordSwitch, Crash, vars
      <4>2. \A p \in proposals : p.at \in Nat
        BY DEF Stored
      <4> QED BY <3>1, <4>1, <4>2 DEF ProposalsAreTrue
    <3> QED BY <3>2, <3>3
  <2> QED BY <2>1, <2>4, <2>5
<1> QED
  BY <1>1, <1>2, CountersInvariant, CallTypeInvariant, StoredInvariant, StageInvariant, PTL
  DEF Spec

\* A window is open while one cohort lasts.
WindowOf(w, a) == /\ Known(a) /\ a \in 0..Now
                  /\ w.provider = ProviderAt(a) /\ w.from = a /\ w.to = a + 1

LEMMA LastThreeElements ==
  ASSUME NEW S, NEW w \in Seq(S), NEW i \in DOMAIN LastThree(w)
  PROVE  \E j \in DOMAIN w : LastThree(w)[i] = w[j]
<1>1. CASE Len(w) > 3
  <2>1. LastThree(w) = SubSeq(w, Len(w) - 2, Len(w))
    BY <1>1 DEF LastThree
  <2>2. i \in 1..3 /\ LastThree(w)[i] = w[Len(w) - 3 + i] /\ Len(w) - 3 + i \in DOMAIN w
    BY <1>1, <2>1
  <2> QED BY <2>2
<1>2. CASE ~(Len(w) > 3)
  <2>1. LastThree(w) = SubSeq(w, 1, Len(w))
    BY <1>2 DEF LastThree
  <2>2. i \in DOMAIN w /\ LastThree(w)[i] = w[i]
    BY <2>1
  <2> QED BY <2>2
<1> QED BY <1>1, <1>2

LEMMA WindowsAreCohorts ==
  ASSUME CallType, provider \in Providers, CohortsAreDated, SwitchIsTrue, patch.step = "idle",
         NEW i \in DOMAIN Windows
  PROVE  \E a \in 0..Now : WindowOf(Windows[i], a)
<1> DEFINE W == [provider : Providers, from : Nat, to : Nat]
           recorded == [k \in DOMAIN cohorts |->
                          [provider |-> cohorts[k].provider, from |-> cohorts[k].at,
                           to |-> IF k < Len(cohorts) THEN cohorts[k + 1].at ELSE Now + 1]]
           first == [provider |-> provider, from |-> 0, to |-> Now + 1]
<1>1. /\ cohorts \in Seq([provider : Providers, at : Nat]) /\ Now = Len(cohorts) /\ Now \in Nat
      /\ DOMAIN cohorts = 1..Now
  BY DEF CallType, Now
<1>2. ASSUME NEW k \in 1..Now
      PROVE  recorded[k] = [provider |-> cohorts[k].provider, from |-> k, to |-> k + 1]
  <2>0. \A l \in 1..Now : cohorts[l].at = l
    BY <1>1 DEF CohortsAreDated
  <2>1. cohorts[k].at = k /\ (k < Now => k + 1 \in 1..Now /\ cohorts[k + 1].at = k + 1)
    <3>1. k \in Int /\ 1 <= k /\ k <= Now /\ (k < Now => k + 1 \in 1..Now)
      BY <1>1
    <3> QED BY <2>0, <3>1
  <2>2. (IF k < Len(cohorts) THEN cohorts[k + 1].at ELSE Now + 1) = k + 1
    BY <1>1, <2>1
  <2> QED BY <1>1, <2>1, <2>2
<1>3. recorded \in Seq(W) /\ Len(recorded) = Now /\ DOMAIN recorded = 1..Now
  <2>1. ASSUME NEW k \in 1..Now PROVE recorded[k] \in W
    <3>1. cohorts[k] \in [provider : Providers, at : Nat]
      <4> DEFINE S == [provider : Providers, at : Nat]
      <4>1. cohorts \in Seq(S) /\ k \in 1..Len(cohorts)
        BY <1>1
      <4> HIDE DEF S, recorded
      <4>2. cohorts[k] \in S
        BY <4>1
      <4> QED BY <4>2 DEF S
    <3>2. k \in Nat /\ k + 1 \in Nat /\ cohorts[k].provider \in Providers
      BY <1>1, <3>1
    <3>3. [provider |-> cohorts[k].provider, from |-> k, to |-> k + 1] \in W
      BY <3>2
    <3> HIDE DEF recorded, W
    <3> QED BY <1>2, <3>3
  <2>2. recorded = [k \in 1..Now |-> recorded[k]]
    BY <1>1
  <2> HIDE DEF recorded, W
  <2>3. recorded \in [1..Now -> W]
    BY <2>1, <2>2
  <2>4. recorded \in Seq(W) /\ DOMAIN recorded = 1..Now
    BY <1>1, <2>3
  <2> QED BY <1>1, <2>4
<1>4. CASE cohorts # <<>>
  <2>1. Windows = LastThree(recorded)
    BY <1>4 DEF SwitchIsTrue, Windows
  <2>2. PICK j \in 1..Now : Windows[i] = recorded[j]
    <3>1. recorded \in Seq(W) /\ DOMAIN recorded = 1..Now /\ i \in DOMAIN LastThree(recorded)
      BY <1>3, <2>1
    <3> HIDE DEF recorded, W
    <3>2. PICK j \in DOMAIN recorded : LastThree(recorded)[i] = recorded[j]
      BY <3>1, LastThreeElements
    <3> QED BY <2>1, <3>1, <3>2
  <2>3. j \in 0..Now /\ j # 0
    BY <1>1
  <2>4. WindowOf(Windows[i], j)
    <3>1. Windows[i] = [provider |-> cohorts[j].provider, from |-> j, to |-> j + 1]
      BY <1>2, <2>2
    <3> QED BY <2>3, <3>1 DEF WindowOf, Known, ProviderAt
  <2> QED BY <2>3, <2>4
<1>5. CASE cohorts = <<>>
  <2>1. Now = 0 /\ recorded = <<>>
    BY <1>1, <1>3, <1>5
  <2>2. Windows = LastThree(Append(recorded, first))
    BY <1>5 DEF Windows
  <2>3. /\ Append(recorded, first) = <<first>> /\ <<first>> \in Seq({first})
        /\ DOMAIN <<first>> = 1..1 /\ <<first>>[1] = first
    BY <2>1
  <2>4. Windows[i] = first
    <3> HIDE DEF recorded, first
    <3>1. Windows = LastThree(<<first>>)
      BY <2>2, <2>3
    <3>2. \E j \in DOMAIN <<first>> : LastThree(<<first>>)[i] = <<first>>[j]
      BY <2>3, <3>1, LastThreeElements
    <3> QED BY <2>3, <3>1, <3>2
  <2>5. WindowOf(Windows[i], 0)
    BY <1>5, <2>1, <2>4 DEF WindowOf, Known, ProviderAt
  <2> QED BY <1>1, <2>5
<1> QED BY <1>4, <1>5

\* A cohort counts what its provider was asked for: what it counts as a fallback came of a call
\* that failed or was of no use, and all that is counted for the mock was meant to be a mock,
\* unless a switch went astray.
THEOREM CohortsHold == Spec => []CohortsAreTrue
<1>1. Counters /\ CallType /\ Stored /\ CohortsAreDated /\ CohortInv => CohortsAreTrue
  <2> SUFFICES ASSUME Counters, CallType, Stored, CohortsAreDated, CohortInv, ~astray,
                      patch.step = "idle", NEW i \in DOMAIN Windows
               PROVE  /\ \A p \in Fallbacks(Windows[i]) : p.code # "mock"
                      /\ Windows[i].provider = "mock" =>
                            Counted(Windows[i]) = {p \in Reals(Windows[i]) : p.code = "mock"}
    BY DEF CohortsAreTrue
  <2>1. SwitchIsTrue /\ ProposalsAreTrue
    BY DEF CohortInv
  <2>2. PICK a \in 0..Now : WindowOf(Windows[i], a)
    BY <2>1, WindowsAreCohorts DEF Counters
  <2>3. ASSUME NEW p \in Counted(Windows[i])
        PROVE  /\ p.code = "mock" <=> Windows[i].provider = "mock"
               /\ p.code = "mock" => p.source = "mock"
    <3>1. p \in proposals /\ p.at \in Nat /\ a \in Nat
      BY BlankCalls DEF Counted, Stored
    <3>2. p.at = a
      BY <2>2, <3>1 DEF Counted, WindowOf
    <3>3. Agrees(p.code, p.source, a)
      BY <2>1, <3>1, <3>2 DEF ProposalsAreTrue, ProposalIsTrue
    <3> QED BY <2>2, <3>3 DEF Agrees, WindowOf
  <2> QED BY <2>3 DEF Fallbacks, Reals
<1> QED
  BY <1>1, CountersInvariant, CallTypeInvariant, StoredInvariant, DatedInvariant,
     CohortInvariant, PTL
=============================================================================

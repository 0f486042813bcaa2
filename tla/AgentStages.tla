----------------------------- MODULE AgentStages -----------------------------
(***************************************************************************)
(* The language model in a sync.  The market analyst, one strategy agent   *)
(* per research symbol in threads of their own, and the debate and the     *)
(* risk judgement of each blueprint ask the gateway, which answers from    *)
(* the provider that is selected at that moment, or with a mock when it    *)
(* fails.  Blueprints become proposals; those that do not come from a mock *)
(* are observed by the knowledge base, whose suggestions are refreshed at  *)
(* the end of the sync.  A PATCH request may switch the provider at any    *)
(* time; the audit records of the switches divide time into cohorts, by    *)
(* which the proposals of the providers are compared.                      *)
(*                                                                         *)
(* Each strategy agent returns one blueprint, all of one knowledge family. *)
(* The selected provider is in the key-value file and visible at once.     *)
(* Time is counted in committed switches.  An operator whose name ends in  *)
(* _Bug is a plausible mistake in the definition that follows it.          *)
(***************************************************************************)
EXTENDS Integers, Sequences, FiniteSets

CONSTANTS
  Symbols,      \* the research symbols
  Retries,      \* llm.retry_attempts
  EnoughProposals,  \* how many observed proposals make a suggestion
  MaxSyncs, MaxSwitches, MaxCrashes   \* bounds

ASSUME StagesAssumption ==
  /\ "sync" \notin Symbols /\ Retries \in Nat /\ EnoughProposals \in Nat \ {0}
  /\ MaxSyncs \in Nat /\ MaxSwitches \in Nat /\ MaxCrashes \in Nat

Providers == {"minimax", "mock"}
Codes == {"ready", "mock", "missing_key", "failed"}
Callers == Symbols \cup {"sync"}

VARIABLES
  hasKey,     \* is MINIMAX_API_KEY configured?
  provider,   \* the stored provider
  patch,      \* the PATCH request: where it stands, and the provider it asks for
  cohorts,    \* the committed provider_cohort_started records
  stage,      \* of the sync
  pending,    \* the symbols whose blueprint the sync has not turned into a proposal yet
  call,       \* per caller: its call of the gateway, and the result
  proposals, observations, suggestions,
  batches,    \* per research batch, named by its sync: running or completed
  syncs, crashes,
  answered,   \* history: the <<sync, symbol>> whose strategy agent was answered with a blueprint
  astray      \* history: has something separated a switch from its record, or from a stamp?

switching == <<patch, cohorts>>
store == <<proposals, observations, suggestions, batches>>
vars == <<hasKey, provider, switching, stage, pending, call, store, syncs, crashes,
          answered, astray>>

NoCall == [step |-> "none", attempt |-> 0, source |-> "mock", code |-> "mock",
           valid |-> FALSE, at |-> 0]

Now == Len(cohorts)

Init ==
  /\ hasKey \in BOOLEAN /\ provider \in Providers
  /\ patch = [step |-> "idle", provider |-> "mock"] /\ cohorts = <<>>
  /\ stage = "idle" /\ pending = {} /\ call = [c \in Callers |-> NoCall]
  /\ proposals = {} /\ observations = {} /\ suggestions = <<>> /\ batches = <<>>
  /\ syncs = 0 /\ crashes = 0 /\ answered = {} /\ astray = FALSE

-----------------------------------------------------------------------------
\* LLMGateway.invoke_json.

Ask == [NoCall EXCEPT !.step = "ready"]

Done(c, source, code, valid) ==
  call' = [call EXCEPT ![c] = [step |-> "done", attempt |-> 0, source |-> source, code |-> code,
                               valid |-> valid, at |-> call[c].at]]

\* The provider is read once per call; without a key, or with the mock, nobody is asked.
StartCall(c) ==
  /\ call[c].step = "ready"
  /\ IF provider = "minimax" /\ hasKey
     THEN call' = [call EXCEPT ![c].step = "open"]
     ELSE Done(c, "mock", IF provider = "mock" THEN "mock" ELSE "missing_key", FALSE)
  /\ UNCHANGED <<hasKey, provider, switching, stage, pending, store, syncs, crashes, answered, astray>>

\* The provider answers; `valid`: the answer has what the stage needs.
Answer(c, valid) ==
  /\ call[c].step = "open"
  /\ Done(c, "minimax", "ready", valid)
  /\ answered' = IF valid /\ c \in Symbols THEN answered \cup {<<syncs, c>>} ELSE answered
  /\ UNCHANGED <<hasKey, provider, switching, stage, pending, store, syncs, crashes, astray>>

\* An attempt fails, in a way that is worth another one or not: the mock answers at last.
FailAttempt(c, retryable) ==
  /\ call[c].step = "open"
  /\ IF retryable /\ call[c].attempt < Retries
     THEN call' = [call EXCEPT ![c].attempt = @ + 1]
     ELSE Done(c, "mock", "failed", FALSE)
  /\ UNCHANGED <<hasKey, provider, switching, stage, pending, store, syncs, crashes, answered, astray>>

-----------------------------------------------------------------------------
\* The stages of a sync.

With(batch, state) == [b \in DOMAIN batches \cup {batch} |-> IF b = batch THEN state ELSE batches[b]]

BeginSync ==
  /\ stage = "idle" /\ syncs < MaxSyncs
  /\ syncs' = syncs + 1 /\ stage' = "analyst"
  /\ call' = [call EXCEPT !["sync"] = Ask]
  /\ UNCHANGED <<hasKey, provider, switching, pending, store, crashes, answered, astray>>

\* run_market_analyst is through: the batch begins, the symbols are stamped, and their
\* agents start.
StartAgents ==
  /\ stage = "analyst" /\ call["sync"].step = "done"
  /\ stage' = "agents" /\ pending' = Symbols
  /\ batches' = With(syncs, "running")
  /\ call' = [c \in Callers |-> IF c \in Symbols THEN [Ask EXCEPT !.at = Now] ELSE NoCall]
  /\ astray' = (astray \/ patch.step = "stored")
  /\ UNCHANGED <<hasKey, provider, switching, proposals, observations, suggestions, syncs, crashes,
                 answered>>

\* All agents have returned.
AgentsReturn ==
  /\ stage = "agents" /\ \A s \in Symbols : call[s].step = "done"
  /\ stage' = "review"
  /\ UNCHANGED <<hasKey, provider, switching, pending, call, store, syncs, crashes, answered, astray>>

\* The blueprint of the answer, or, when nothing is left of it, the fallback.
Normalized(s) == [source |-> call[s].source, code |-> call[s].code]
Fallback(s) == [source |-> "mock", code |-> call[s].code]

Blueprint_Bug(s) == Normalized(s)
Blueprint(s) == IF call[s].valid THEN Normalized(s) ELSE Fallback(s)

\* run_research_debate and run_risk_judgment ask for what does not come from a mock.
AskReview(s) ==
  /\ stage = "review" /\ s \in pending /\ Blueprint(s).source # "mock"
  /\ stage' = "debate" /\ call' = [call EXCEPT !["sync"] = Ask, ![s].step = "asked"]
  /\ UNCHANGED <<hasKey, provider, switching, pending, store, syncs, crashes, answered, astray>>

AskJudgement ==
  /\ stage = "debate" /\ call["sync"].step = "done"
  /\ stage' = "judge" /\ call' = [call EXCEPT !["sync"] = Ask]
  /\ UNCHANGED <<hasKey, provider, switching, pending, store, syncs, crashes, answered, astray>>

Observed(p) == p.code # "mock"

\* materialize_proposals_and_decisions for one symbol, and the commit that follows.
Materialize(s) ==
  LET p == [id |-> <<syncs, s>>, at |-> call[s].at, source |-> Blueprint(s).source,
            code |-> Blueprint(s).code,
            judge |-> IF Blueprint(s).source = "mock" THEN "mock" ELSE call["sync"].source] IN
  /\ s \in pending
  /\ \/ stage = "review" /\ call[s].step = "done" /\ Blueprint(s).source = "mock"
     \/ stage = "judge" /\ call[s].step = "asked" /\ call["sync"].step = "done"
  /\ proposals' = proposals \cup {p}
  /\ observations' = IF Observed(p)
                     THEN observations \cup {[of |-> p.id, kind |-> k] : k \in {"proposal", "backtest"}}
                     ELSE observations
  /\ stage' = "review" /\ pending' = pending \ {s}
  /\ call' = [call EXCEPT ![s] = NoCall, !["sync"] = NoCall]
  /\ UNCHANGED <<hasKey, provider, switching, suggestions, batches, syncs, crashes, answered, astray>>

\* The batch ends with the symbols of some blueprints still to come.
SelectChallengers_Bug ==
  /\ stage = "review" /\ pending # Symbols /\ call["sync"].step = "none"
  /\ stage' = "paper"
  /\ batches' = With(syncs, "completed")
  /\ UNCHANGED <<hasKey, provider, switching, pending, call, proposals, observations, suggestions,
                 syncs, crashes, answered, astray>>

\* Every symbol is through: the batch is completed, which the next stage commits (what dies
\* before that dies here in front of this step).
SelectChallengers ==
  /\ stage = "review" /\ pending = {}
  /\ stage' = "paper"
  /\ batches' = With(syncs, "completed")
  /\ UNCHANGED <<hasKey, provider, switching, pending, call, proposals, observations, suggestions,
                 syncs, crashes, answered, astray>>

\* The paper cycle of the primary slot is recorded for its strategy, if it has one.
ObservePaper(p) ==
  /\ stage = "paper"
  /\ stage' = "final"
  /\ observations' = IF Observed(p)
                     THEN observations \cup {[of |-> p.id, kind |-> "paper"]}
                     ELSE observations
  /\ UNCHANGED <<hasKey, provider, switching, pending, call, proposals, suggestions, batches,
                 syncs, crashes, answered, astray>>

SlotIsEmpty ==
  /\ stage = "paper"
  /\ stage' = "final"
  /\ UNCHANGED <<hasKey, provider, switching, pending, call, store, syncs, crashes, answered, astray>>

\* _refresh_knowledge_suggestions, for the one family.  Whether the observations look fragile,
\* and so what the suggestion is about, is left open.
Refreshed(type) ==
  LET count(k) == Cardinality({o \in observations : o.kind = k})
      n == count("proposal")
      new == [proposals |-> n, backtests |-> count("backtest"), papers |-> count("paper")]
  IN IF n < EnoughProposals THEN suggestions
     ELSE [t \in DOMAIN suggestions \cup {type} |-> IF t = type THEN new ELSE suggestions[t]]

EndSync(type) ==
  /\ stage = "final"
  /\ suggestions' = Refreshed(type)
  /\ stage' = "idle"
  /\ UNCHANGED <<hasKey, provider, switching, pending, call, proposals, observations, batches, syncs,
                 crashes, answered, astray>>

\* An answer of another shape than the stage expects raises, or something else does.
SyncRaises ==
  /\ stage # "idle"
  /\ \A c \in Callers : call[c].step \notin {"ready", "open"}
  /\ stage' = "idle" /\ pending' = {} /\ call' = [c \in Callers |-> NoCall]
  /\ UNCHANGED <<hasKey, provider, switching, store, syncs, crashes, answered, astray>>

-----------------------------------------------------------------------------
\* set_runtime_llm_provider.

Refused(p) == p = "minimax" /\ ~hasKey

\* The provider is stored at once, unless the key is missing.
SwitchTo(p) ==
  /\ patch.step = "idle" /\ Len(cohorts) < MaxSwitches
  /\ IF Refused(p)
     THEN UNCHANGED provider
     ELSE provider' = p
  /\ patch' = [step |-> "stored", provider |-> p]
  /\ astray' = (astray \/ Refused(p) \/ \E s \in Symbols : call[s].step = "ready")
  /\ UNCHANGED <<hasKey, cohorts, stage, pending, call, store, syncs, crashes, answered>>

CohortStarted_Bug == [provider |-> IF patch.provider = "mock" THEN "minimax" ELSE "mock", at |-> Now + 1]
CohortStarted == [provider |-> patch.provider, at |-> Now + 1]

\* The audit records are committed, also of a switch that was refused.
RecordSwitch ==
  /\ patch.step = "stored"
  /\ cohorts' = Append(cohorts, CohortStarted)
  /\ patch' = [patch EXCEPT !.step = "idle"]
  /\ UNCHANGED <<hasKey, provider, stage, pending, call, store, syncs, crashes, answered, astray>>

\* The process dies: the sync is over, and so is a PATCH whose records are not committed.
Crash ==
  /\ crashes < MaxCrashes /\ crashes' = crashes + 1
  /\ stage' = "idle" /\ pending' = {} /\ call' = [c \in Callers |-> NoCall]
  /\ patch' = [patch EXCEPT !.step = "idle"]
  /\ astray' = (astray \/ patch.step = "stored")
  /\ UNCHANGED <<hasKey, provider, cohorts, store, syncs, answered>>

Next ==
  \/ BeginSync \/ StartAgents \/ AgentsReturn \/ AskJudgement \/ SyncRaises
  \/ \E c \in Callers :
       StartCall(c) \/ (\E valid \in BOOLEAN : Answer(c, valid))
                    \/ (\E retryable \in BOOLEAN : FailAttempt(c, retryable))
  \/ \E s \in Symbols : AskReview(s) \/ Materialize(s)
  \/ SelectChallengers \/ (\E p \in proposals : ObservePaper(p)) \/ SlotIsEmpty
  \/ \E type \in {"failure_mode", "novelty"} : EndSync(type)
  \/ \E p \in Providers : SwitchTo(p)
  \/ RecordSwitch \/ Crash

Spec == Init /\ [][Next]_vars

-----------------------------------------------------------------------------
\* Properties.

Calls ==
  [step : {"none", "ready", "open", "done", "asked"}, attempt : 0..Retries,
   source : Providers, code : Codes, valid : BOOLEAN, at : Nat]

TypeOK ==
  /\ hasKey \in BOOLEAN /\ provider \in Providers
  /\ patch \in [step : {"idle", "stored"}, provider : Providers]
  /\ cohorts \in Seq([provider : Providers, at : Nat])
  /\ stage \in {"idle", "analyst", "agents", "review", "debate", "judge", "paper", "final"}
  /\ pending \subseteq Symbols /\ call \in [Callers -> Calls]
  /\ proposals \subseteq [id : Nat \X Symbols, at : Nat, source : Providers, code : Codes,
                          judge : Providers]
  /\ DOMAIN batches \subseteq 1..syncs /\ \A b \in DOMAIN batches : batches[b] \in {"running", "completed"}
  /\ syncs \in 0..MaxSyncs /\ crashes \in 0..MaxCrashes
  /\ answered \subseteq Nat \X Symbols /\ astray \in BOOLEAN

(* A mock is never taken for a real result: a proposal said to come from   *)
(* the provider is one that the provider answered the strategy agent with, *)
(* and was not selected as a mock, whatever was switched or failed since   *)
(* the sync began.                                                         *)
MockIsMarked ==
  \A p \in proposals : p.source = "minimax" => p.id \in answered /\ p.code = "ready"

\* _provider_cohort_windows: the last three cohorts, and what a cohort counts.
LastThree(w) == SubSeq(w, IF Len(w) > 3 THEN Len(w) - 2 ELSE 1, Len(w))

Windows ==
  LET recorded == [i \in DOMAIN cohorts |->
                     [provider |-> cohorts[i].provider, from |-> cohorts[i].at,
                      to |-> IF i < Len(cohorts) THEN cohorts[i + 1].at ELSE Now + 1]]
  IN IF cohorts # <<>> /\ cohorts[Len(cohorts)].provider = provider THEN LastThree(recorded)
     ELSE LastThree(Append(recorded, [provider |-> provider, from |-> 0, to |-> Now + 1]))

Counted(w) == {p \in proposals : w.from <= p.at /\ p.at < w.to}
Reals(w) == {p \in Counted(w) : p.source = w.provider}
Fallbacks(w) == {p \in Counted(w) : p.source = "mock" /\ w.provider # "mock"}

(* A cohort counts what its provider was asked for: what it counts as a    *)
(* fallback of the provider came of a call that failed or was of no use,   *)
(* and all that is counted for the mock was meant to be a mock.  It is so  *)
(* at the end of every switch, unless a switch was refused but recorded,   *)
(* died between its two writes, or came between the stamp of a symbol and  *)
(* its call.                                                               *)
CohortsAreTrue ==
  ~astray /\ patch.step = "idle" =>
     \A i \in DOMAIN Windows :
        LET w == Windows[i] IN
        /\ \A p \in Fallbacks(w) : p.code # "mock"
        /\ w.provider = "mock" => Counted(w) = {p \in Reals(w) : p.code = "mock"}

(* A research batch is shown as completed only when each of its symbols has *)
(* its proposal, wherever the sync raised, and whatever the process lost.   *)
(* A batch of a sync that did not get that far is shown as running for ever. *)
CompletedBatchIsWhole ==
  \A b \in DOMAIN batches, s \in Symbols :
     batches[b] = "completed" => \E p \in proposals : p.id = <<b, s>>

(* The suggestions rest on real proposals: no more are counted than there  *)
(* are proposals that do not come from a mock.                             *)
SuggestionsCountReal ==
  \A t \in DOMAIN suggestions :
     suggestions[t].proposals <= Cardinality({p \in proposals : p.source # "mock"})
=============================================================================

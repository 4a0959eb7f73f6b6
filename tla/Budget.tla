------------------------------- MODULE Budget -------------------------------
(***************************************************************************)
(* The budget gate in front of every model call: the in-memory enforcer    *)
(* and the before/after callbacks that consult it and report to it.        *)
(*                                                                         *)
(* An invocation is one agent turn; it makes one model call after another  *)
(* under the same invocation id.  Before a call the enforcer charges the   *)
(* projected cost, remembers it as held and answers; after it the realised *)
(* cost replaces what was held.  Several invocations spend the budget of   *)
(* one identity, and the clock carries them across the dedup window and    *)
(* the end of the period.  A token in or out costs one unit.               *)
(***************************************************************************)
EXTENDS Integers, FiniteSetsExt

CONSTANTS
  Invs,          \* invocation ids
  Identities,
  Registered,    \* whether an enforcer is registered with the process
  ConfigOf(_),   \* tool_configs.budget of the agent's skill
  IdentityOf(_), \* the user's field the budget is keyed on, Absent without it
  CallsOf(_),    \* bound on the model calls of an invocation
  Requests,      \* model requests: their input, and their output limit or Absent
  DefaultOut,    \* _DEFAULT_MAX_OUTPUT_TOKENS
  Cap,           \* default_cap_usd; 0 is unconfigured
  Soft,          \* cap * soft_threshold
  Window,        \* dedup_window_seconds
  PeriodLength,  \* length of a period on the clock
  MaxTime,       \* bound on the clock
  MaxExcess,     \* bound on what a call costs beyond the worst estimate
  Absent         \* what is not there

ASSUME BudgetAssumption ==
  /\ Registered \in BOOLEAN
  /\ \A i \in Invs :
       /\ ConfigOf(i) = Absent \/ ConfigOf(i) \in [exempt : BOOLEAN, multiplier : Nat \ {0}]
       /\ IdentityOf(i) \in Identities \cup {Absent} /\ CallsOf(i) \in Nat
  /\ Requests \subseteq [input : Nat, out : Nat \cup {Absent}] /\ DefaultOut \in Nat
  /\ Cap \in Nat /\ Soft \in 0..Cap
  /\ Window \in Nat /\ PeriodLength \in Nat \ {0} /\ MaxTime \in Nat
  /\ MaxExcess \in Nat

Periods == 0..(MaxTime \div PeriodLength)
Actions == {"allow", "warn", "block"}
Ledgers == Identities \X Periods

VARIABLES
  spend,    \* _spend: per identity and period
  dedup,    \* _dedup_cache: the last decision on an invocation and its time
  held,     \* _charged_per_inv: projection not yet reconciled, and its period
  pending,  \* the callbacks' own note of consultations awaiting a response
  call,     \* the model calls of each invocation
  used,     \* what the provider charged, per identity and period
  untold,   \* history: by how much calls whose cost was never recorded went
            \* beyond their estimates
  now       \* time_provider

budgetVars == <<spend, dedup, held, pending, call, used, untold, now>>

Decision == [action : Actions, at : 0..MaxTime]
Hold == [usd : Nat, period : Periods]

ASSUME AbsentAssumption == Absent \notin Decision \cup Hold

Phases == {"ready", "calling", "stopped"}

\* estimate is what the gate expects the call to cost at worst, warned the message in the session
\* state.
Call ==
  [phase : Phases, made : Nat, estimate : Nat, period : Periods, warned : BOOLEAN]

\* _period_key: calendar days, weeks or months, here periods of equal length.
PeriodKey(time) == time \div PeriodLength

\* The types of the state.
BudgetTypeOK ==
  /\ spend \in [Ledgers -> Nat]
  /\ dedup \in [Invs -> Decision \cup {Absent}]
  /\ held \in [Invs -> Hold \cup {Absent}]
  /\ pending \subseteq Invs
  /\ call \in [Invs -> Call]
  /\ used \in [Ledgers -> Nat] /\ untold \in [Ledgers -> Nat]
  /\ now \in 0..MaxTime

BudgetInit ==
  /\ spend = [l \in Ledgers |-> 0]
  /\ dedup = [i \in Invs |-> Absent]
  /\ held = [i \in Invs |-> Absent]
  /\ pending = {}
  /\ call = [i \in Invs |-> [phase |-> "ready", made |-> 0, estimate |-> 0,
                             period |-> 0, warned |-> FALSE]]
  /\ used = [l \in Ledgers |-> 0] /\ untold = [l \in Ledgers |-> 0]
  /\ now = 0

-----------------------------------------------------------------------------
(* InMemoryBudgetEnforcer *)

\* _decide, on the prior spend plus the projection.
Decided(total) ==
  IF Cap = 0 THEN "allow"
  ELSE IF total >= Cap THEN "block"
  ELSE IF total >= Soft THEN "warn" ELSE "allow"

\* _prune_dedup: only entries older than the window go.
Pruned == [i \in Invs |-> IF dedup[i] # Absent /\ dedup[i].at < now - Window
                          THEN Absent ELSE dedup[i]]

\* consult, under the lock, and its answer: a decision still in the cache is
\* repeated at no charge; else the projection is charged and held whatever the
\* decision is.
Consulted(i, projected, action) ==
  LET ledger == <<IdentityOf(i), PeriodKey(now)>> IN
  \/ /\ Pruned[i] # Absent
     /\ action = Pruned[i].action
     /\ dedup' = Pruned
     /\ UNCHANGED <<spend, held>>
  \/ /\ Pruned[i] = Absent
     /\ action = Decided(spend[ledger] + projected)
     /\ spend' = [spend EXCEPT ![ledger] = @ + projected]
     /\ held' = [held EXCEPT ![i] = [usd |-> projected, period |-> PeriodKey(now)]]
     /\ dedup' = [Pruned EXCEPT ![i] = [action |-> action, at |-> now]]

\* A record that settles on the ledger of the current period, unclamped.
RecordedNow(i, actual) ==
  IF held[i] = Absent THEN UNCHANGED <<spend, held>>
  ELSE /\ spend' = [spend EXCEPT ![<<IdentityOf(i), PeriodKey(now)>>] =
                      @ + actual - held[i].usd]
       /\ held' = [held EXCEPT ![i] = Absent]

\* A record that refunds what a call did not use, and charges no extra.
RecordedRefund(i, actual) ==
  IF held[i] = Absent THEN UNCHANGED <<spend, held>>
  ELSE /\ spend' = [spend EXCEPT ![<<IdentityOf(i), held[i].period>>] =
                      Max({0, @ + Min({0, actual - held[i].usd})})]
       /\ held' = [held EXCEPT ![i] = Absent]

\* record, under the lock: what is held gives way to the actual cost, be it less
\* or more, on the ledger it was held on; an invocation without a hold is ignored.
Recorded(i, actual) ==
  IF held[i] = Absent THEN UNCHANGED <<spend, held>>
  ELSE /\ spend' = [spend EXCEPT ![<<IdentityOf(i), held[i].period>>] =
                      Max({0, @ + actual - held[i].usd})]
       /\ held' = [held EXCEPT ![i] = Absent]

-----------------------------------------------------------------------------
(* The callbacks around a model call. *)

\* from_tool_configs: a skill without a budget block is exempt by its absence.
Budgeted(i) == ConfigOf(i) # Absent /\ ~ConfigOf(i).exempt

\* make_budget_callbacks: without an enforcer, a budget or the user's identity
\* the pair of callbacks does nothing, and the calls pass unseen.
Gated(i) == Registered /\ Budgeted(i) /\ IdentityOf(i) # Absent

\* _approx_input_tokens: never less than one.
InputTokens(request) == Max({1, request.input})

\* _read_max_output_tokens.
OutputTokens(request) == IF request.out = Absent THEN DefaultOut ELSE request.out

\* _estimate_projected_cost: the worst case of a request, as far as characters
\* tell its tokens; the call may cost more.
Estimated(request) == InputTokens(request) + OutputTokens(request)

\* _extract_actual_cost: nothing of a response whose usage is not told.
ActualCost(cost, metered) == IF metered THEN cost ELSE Absent

\* What a block leaves behind is no note, and the turn ends with
\* BudgetExceededError; a warning goes to the session state.
Answered(i, action, estimate) ==
  /\ pending' = IF action = "block" THEN pending \ {i} ELSE pending \cup {i}
  /\ call' = [call EXCEPT ![i] =
       [phase |-> IF action = "block" THEN "stopped" ELSE "calling",
        made |-> @.made + 1, estimate |-> estimate,
        period |-> PeriodKey(now), warned |-> @.warned \/ action = "warn"]]

\* _before: consult and note the consultation.
Before(i, request) ==
  /\ Gated(i)
  /\ call[i].phase = "ready" /\ call[i].made < CallsOf(i)
  /\ \E action \in Actions :
       /\ Consulted(i, Estimated(request) * ConfigOf(i).multiplier, action)
       /\ Answered(i, action, Estimated(request))
  /\ UNCHANGED <<used, untold, now>>

\* _noop_before.
BeforeUngated(i, request) ==
  /\ ~Gated(i)
  /\ call[i].phase = "ready" /\ call[i].made < CallsOf(i)
  /\ call' = [call EXCEPT ![i].phase = "calling", ![i].made = @ + 1,
                          ![i].estimate = Estimated(request), ![i].period = PeriodKey(now)]
  /\ UNCHANGED <<spend, dedup, held, pending, used, untold, now>>

\* A call is over: its estimate matters no more.
Over(i) ==
  call' = [call EXCEPT ![i].phase = "ready", ![i].estimate = 0, ![i].period = 0]

\* By how much a call costs more than was estimated.
Excess(i, cost) == Max({0, cost - call[i].estimate})

\* What the provider charges for the call that ends, whoever counts it and
\* whatever was estimated, and whether the enforcer is told.
Charged(i, cost, told) ==
  LET ledger == <<IdentityOf(i), call[i].period>> IN
  /\ call[i].phase = "calling"
  /\ Over(i)
  /\ used' = IF IdentityOf(i) = Absent THEN used ELSE [used EXCEPT ![ledger] = @ + cost]
  /\ untold' = IF IdentityOf(i) = Absent \/ told THEN untold
               ELSE [untold EXCEPT ![ledger] = @ + Excess(i, cost)]

\* A response is settled when it is noted and tells its usage.
Told(i, cost, metered) == i \in pending /\ ActualCost(cost, metered) # Absent

\* _after on the response that ends the call.
After(i, cost, metered) ==
  /\ Gated(i) /\ Charged(i, cost, Told(i, cost, metered))
  /\ IF Told(i, cost, metered)
     THEN Recorded(i, ActualCost(cost, metered)) ELSE UNCHANGED <<spend, held>>
  /\ pending' = pending \ {i}
  /\ UNCHANGED <<dedup, now>>

\* _noop_after.
AfterUngated(i, cost) ==
  /\ ~Gated(i) /\ Charged(i, cost, FALSE)
  /\ UNCHANGED <<spend, dedup, held, pending, now>>

\* _after on a partial streaming response, which carries no usage metadata: the
\* note is gone when the call's last response comes.
AfterPartial(i) ==
  /\ Gated(i) /\ call[i].phase = "calling"
  /\ pending' = pending \ {i}
  /\ UNCHANGED <<spend, dedup, held, call, used, untold, now>>

\* The model call raises: no response, no callback; the agent may call again.
Fail(i) ==
  /\ call[i].phase = "calling"
  /\ Over(i)
  /\ UNCHANGED <<spend, dedup, held, pending, used, untold, now>>

Tick ==
  /\ now < MaxTime
  /\ now' = now + 1
  /\ UNCHANGED <<spend, dedup, held, pending, call, used, untold>>

\* What calls really cost: a prompt has a token, and the estimate is no bound.
ActualCosts == 1..(MaxExcess + Max({Estimated(request) : request \in Requests}))

BudgetNext ==
  \/ \E i \in Invs :
       \/ \E request \in Requests : Before(i, request) \/ BeforeUngated(i, request)
       \/ \E cost \in ActualCosts :
            \/ \E metered \in BOOLEAN : After(i, cost, metered)
            \/ AfterUngated(i, cost)
       \/ AfterPartial(i)
       \/ Fail(i)
  \/ Tick

BudgetSpec == BudgetInit /\ [][BudgetNext]_budgetVars

-----------------------------------------------------------------------------
(* Properties *)

\* The units held on a ledger, numbered within each hold.
HeldUnits(ledger) ==
  UNION {{i} \X (1..held[i].usd) :
    i \in {j \in Invs : held[j] # Absent /\ IdentityOf(j) = ledger[1] /\ held[j].period = ledger[2]}}

\* A ledger carries at least what is still held on it: the refunds of calls that
\* overlap, cross the end of a period or outlive the dedup window never take
\* from another call's hold, so the clamp at zero of record() never hides a lost
\* amount (in_memory_enforcer.py:123-130).
HeldWithinSpend == \A ledger \in Ledgers : Cardinality(HeldUnits(ledger)) <= spend[ledger]

\* The units that the calls under way on a ledger are expected to cost at worst.
UnderWay(ledger) ==
  UNION {{i} \X (1..call[i].estimate) :
    i \in {j \in Invs : call[j].phase = "calling" /\ IdentityOf(j) = ledger[1]
                         /\ call[j].period = ledger[2]}}

\* An identity whose turns are all gated and make one model call each.
SingleCalls(identity) ==
  Cap > 0 /\ \A i \in Invs : IdentityOf(i) = identity => Gated(i) /\ CallsOf(i) = 1

\* i's call begins, and what its identity has really spent in the period, with the
\* calls now under way, is under the cap, but for what nobody told the enforcer.
LetIn(i) ==
  LET ledger == <<IdentityOf(i), PeriodKey(now)>> IN
  call[i].phase = "ready" /\ call'[i].phase = "calling"
    => used[ledger] + Cardinality(UnderWay(ledger)') < Cap + untold[ledger]

\* The gate knows the real spend ("Hard block at 100%"): whatever the calls of a
\* period cost, more than their estimates or less, and however they overlap, each
\* call it lets in fits under the cap beside what was really spent and is under way.
\* Only the excess of responses that did not tell their usage escapes it.
LetInUnderCap ==
  [][\A i \in Invs : SingleCalls(IdentityOf(i)) => LetIn(i)]_budgetVars

\* The same of every gated turn: the enforcer is "consulted before every LLM call to
\* decide allow / warn / block" (enforcer.py:70).
EveryCallUnderCap ==
  [][\A i \in Invs : Cap > 0 /\ Gated(i) => LetIn(i)]_budgetVars
=============================================================================

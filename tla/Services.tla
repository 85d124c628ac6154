------------------------------ MODULE Services ------------------------------
(***************************************************************************)
(* The services around the agent that share no state with one another: the *)
(* intake, the queue of human tasks, the watchers, the versions of the     *)
(* policy, the timing of retries, and the traffic control.  One of them is *)
(* picked and runs; the others rest.                                       *)
(***************************************************************************)
EXTENDS Intake, Hitl, Watchers, Policies, RetryTiming, CircuitBreaker, SpendGuard, RateLimits

VARIABLE service

servicesVars ==
  <<service, intakeVars, hitlVars, watcherVars, policyVars, timingVars, breakerVars, spendVars, rateVars>>

Service == {"intake", "hitl", "watchers", "policies", "timing", "breaker", "spend", "rate"}

ServicesInit ==
  /\ service \in Service
  /\ IntakeInit /\ HitlInit /\ WatchersInit /\ PoliciesInit /\ BreakerInit /\ SpendInit /\ RateInit
  /\ TimingInit /\ (service # "timing" => ask = CHOOSE a \in Asks : TRUE)

ServicesNext ==
  \/ service = "intake" /\ IntakeNext
     /\ UNCHANGED <<service, hitlVars, watcherVars, policyVars, timingVars, breakerVars, spendVars, rateVars>>
  \/ service = "hitl" /\ HitlNext
     /\ UNCHANGED <<service, intakeVars, watcherVars, policyVars, timingVars, breakerVars, spendVars, rateVars>>
  \/ service = "watchers" /\ WatchersNext
     /\ UNCHANGED <<service, intakeVars, hitlVars, policyVars, timingVars, breakerVars, spendVars, rateVars>>
  \/ service = "policies" /\ PoliciesNext
     /\ UNCHANGED <<service, intakeVars, hitlVars, watcherVars, timingVars, breakerVars, spendVars, rateVars>>
  \/ service = "timing" /\ TimingNext
     /\ UNCHANGED <<service, intakeVars, hitlVars, watcherVars, policyVars, breakerVars, spendVars, rateVars>>
  \/ service = "breaker" /\ BreakerNext
     /\ UNCHANGED <<service, intakeVars, hitlVars, watcherVars, policyVars, timingVars, spendVars, rateVars>>
  \/ service = "spend" /\ SpendNext
     /\ UNCHANGED <<service, intakeVars, hitlVars, watcherVars, policyVars, timingVars, breakerVars, rateVars>>
  \/ service = "rate" /\ RateNext
     /\ UNCHANGED <<service, intakeVars, hitlVars, watcherVars, policyVars, timingVars, breakerVars, spendVars>>

\* The watchers are seeded, time passes, and scans are started and run to their
\* end.  Time passes for the breaker, its callers come, and their calls do not
\* fail for ever.  Senders repeat what was not acknowledged, and handlers go on.
Fairness ==
  /\ WF_watcherVars(service = "watchers" /\ (seed_default_watchers \/ \E k \in Scanner : ScanStep(k)))
  /\ SF_watcherVars(service = "watchers" /\ TimePasses)
  /\ WF_breakerVars(service = "breaker" /\ BreakerProgress)
  /\ WF_intakeVars(service = "intake" /\ IntakeProgress)

ServicesSpec == ServicesInit /\ [][ServicesNext]_servicesVars /\ Fairness

TypeInvariant ==
  /\ IntakeType /\ HitlType /\ WatchersType /\ PoliciesType /\ TimingType
  /\ BreakerType /\ SpendType /\ RateType

=============================================================================

----------------------------- MODULE MCRunLifecycle -----------------------------
(***************************************************************************)
(* The run lifecycle with the code's policy and the answers its services   *)
(* can give, for TLC.                                                      *)
(***************************************************************************)
EXTENDS RunLifecycle, CheckAnswers, TLC

HandlerSymmetry == Permutations(Handler)
RunSymmetry == Permutations(Run) \union HandlerSymmetry

LOCAL Sure(t) == [tier |-> t, confidence |-> "confirmed", certainty |-> 99]
LOCAL Unsure(t) == [tier |-> t, confidence |-> "ambiguous", certainty |-> 60]

\* Services that confirm with certainty whenever they answer.
SureAnswers ==
    [c \in Check |-> [t \in Tier |-> {Sure(t)}]]

\* Verification needs the deep tier, the other checks the standard one.
SlowAnswers ==
    [c \in Check |-> [t \in Tier |->
        IF t = "deep" \/ (t = "standard" /\ c # "verification") THEN {Sure(t)} ELSE {Unsure(t)}]]

\* Groups a client may put together: they pay any set of services, the checks at
\* the opening tiers or at those a run settles at.
ComposedGroups ==
    LET final == [c \in Check |-> IF c = "verification" THEN "deep" ELSE "standard"]
    IN  [builtFor : {NoRun}, tiers : {OpeningTiers, final}, externals : SUBSET External]
--------------------------------------------------------------------------------
(* What the code's own texts say, and the code does not do. *)

\* What GET /:runId reports as nothingSettled (runs.ts) is true: "They were never
\* broadcast and never will be" (runStore.ts, abortRun).
NothingSettledIsTrue ==
    \A r \in store : GetRun(r).nothingSettled => \A m \in paid : m.run # r
================================================================================

------------------------------- MODULE MCFeeds -------------------------------
(***************************************************************************)
(* The components that run for ever, with the fairness of each: the        *)
(* publisher and its streams, the poll loops, the reward listener.  They   *)
(* share no state; a behaviour exercises the one its initial state names.  *)
(***************************************************************************)
EXTENDS RealtimeOutbox, EventPolling, RewardFeed

VARIABLE active  \* the component that runs

realtimeVars == vars
feedsVars == <<active, realtimeVars, pollVars, feedVars>>

\* Only the poll loops look at asText.
FeedsInit ==
  /\ active \in {"realtime", "polling", "rewards"} /\ Init /\ PollInit /\ FeedInit
  /\ asText => active = "polling"

FeedsNext ==
  \/ active = "realtime" /\ Next /\ UNCHANGED <<active, pollVars, feedVars>>
  \/ active = "polling" /\ PollNext /\ UNCHANGED <<active, realtimeVars, feedVars>>
  \/ active = "rewards" /\ FeedNext /\ UNCHANGED <<active, realtimeVars, pollVars>>

\* The fairness of the component that runs, as in RealtimeOutbox!Spec,
\* PollFairness and FeedFairness.
FeedsFairness ==
  /\ \A p \in Passes : WF_vars(active = "realtime" /\ Publish(p))
  /\ WF_pollVars(active = "polling" /\ \E l \in Loops : Launch(l))
  /\ \A l \in Loops : WF_pollVars(active = "polling" /\ PassStep(l))
  /\ WF_feedVars(active = "rewards" /\ FeedStep)

FeedsSpec == FeedsInit /\ [][FeedsNext]_feedsVars /\ FeedsFairness
=============================================================================

------------------------------- MODULE MCServices -------------------------------
(* The services of the HTTP API for TLC, in one run.  They share users and     *)
(* futures but no row, so one of them at a time takes steps; which one is      *)
(* chosen first, and for the two with many operations also which of these.     *)
EXTENDS Friendships, Accounts, MinigameTasks, MinigameConfig, ActivityLog, Rewards, TLC

CONSTANTS p, q, ann, ANN, bob, s1, s2, s3, d1

VARIABLE service

LowerCase(name) == IF name = ANN THEN ann ELSE name

\* A story of three quests, two of which count the same event, and a daily one.
Story == s1 :> None @@ s2 :> s1 @@ s3 :> s2 @@ d1 :> None
Order == s1 :> 0 @@ s2 :> 1 @@ s3 :> 2 @@ d1 :> 0
Counts == s1 :> "InviteCreated" @@ s2 :> "InviteCreated" @@ s3 :> "ItemPurchased"
          @@ d1 :> "InviteCreated"
Needs == s1 :> 1 @@ s2 :> 2 @@ s3 :> 1 @@ d1 :> 2

\* The futures are alike; users, versions and events are left as they are.
ServicesSymmetry == Permutations(Request)

TaskTopics ==
    [signins |-> {"signin", "story_signin_1", "signin_streak", "daily_signin"},
     rounds  |-> {"score", "perfectionist", "story_clear_1"},
     days    |-> {"score", "daily_play_5"}]
RewardTopics ==
    [shop   |-> {"purchase", "invite"},
     play   |-> {"purchase", "invite", "event", "quest", "level", "inbox_claim", "delete"}]

ServicesInit ==
    /\ FriendsInit /\ AccountsInit /\ TasksInit /\ ConfigInit /\ LogInit /\ RewardsInit
    /\ service \in {"friends", "accounts", "config", "log"}
           \cup DOMAIN TaskTopics \cup DOMAIN RewardTopics

TaskIsOf(topic) ==
    /\ topic = "rounds" => UNCHANGED today
    /\ \A r \in Request : task_call'[r] # None =>
         LET call == task_call'[r]
         IN  /\ (IF call.kind = "claim" THEN call.task ELSE call.kind) \in TaskTopics[topic]
             /\ topic = "days" /\ call.kind = "score" =>
                  call.level = (CHOOSE l \in Level : TRUE) /\ call.stars = 1

\* One player, but for the shop, where two compete.
TxIsOf(topic) ==
    \A r \in Request : tx'[r] # None =>
        tx'[r].op \in RewardTopics[topic] /\ (topic = "shop" \/ tx'[r].user = p)

FriendsStep == service = "friends" /\ FriendsNext
    /\ UNCHANGED <<service, accountVars, taskVars, configVars, logVars, rewardVars>>
AccountsStep == service = "accounts" /\ AccountsNext
    /\ UNCHANGED <<service, friendVars, taskVars, configVars, logVars, rewardVars>>
TasksStep == service \in DOMAIN TaskTopics /\ TasksNext /\ TaskIsOf(service)
    /\ UNCHANGED <<service, friendVars, accountVars, configVars, logVars, rewardVars>>
ConfigStep == service = "config" /\ ConfigNext
    /\ UNCHANGED <<service, friendVars, accountVars, taskVars, logVars, rewardVars>>
LogStep == service = "log" /\ LogNext
    /\ UNCHANGED <<service, friendVars, accountVars, taskVars, configVars, rewardVars>>
RewardsStep == service \in DOMAIN RewardTopics /\ RewardsNext /\ TxIsOf(service)
    /\ UNCHANGED <<service, friendVars, accountVars, taskVars, configVars, logVars>>

ServicesNext ==
    FriendsStep \/ AccountsStep \/ TasksStep \/ ConfigStep \/ LogStep \/ RewardsStep

servicesVars == <<friendVars, accountVars, taskVars, configVars, logVars, rewardVars, service>>
ServicesSpec == ServicesInit /\ [][ServicesNext]_servicesVars
===============================================================================

----------------------------- MODULE ReadRoutes -----------------------------
(***************************************************************************)
(* The routes of the API that only read: the permission each asks for, the *)
(* service it cannot do without, and whether it is about one thing.  The   *)
(* filters and the shape of what they answer are left out.                 *)
(***************************************************************************)
EXTENDS Access, TLC

\* What a route asks for and needs; named: it tells of one thing, which may not be there.
Route(permission, needs, named) == [permission |-> permission, needs |-> needs, named |-> named]

\* Anyone may read what the home page shows, but for the queue.
DashboardRoutes ==
  [health |-> Route("none", "nothing", FALSE), summary |-> Route("none", "database", FALSE),
   recent |-> Route("none", "database", FALSE)]

\* Counters in memory; a queue that does not answer is left out of them.
MetricsRoutes == [metrics |-> Route("none", "nothing", FALSE)]

QueueStatusRoutes == [queue |-> Route("queue:read", "queue", FALSE)]

PublisherReadRoutes ==
  [publishers |-> Route("publishers:read", "nothing", FALSE),
   publisher |-> Route("publishers:read", "nothing", TRUE)]

JobsRoutes ==
  [jobs |-> Route("jobs:read", "queue", FALSE), job |-> Route("jobs:read", "queue", TRUE)]

AssetsRoutes ==
  [assets |-> Route("assets:read", "assets", FALSE), asset |-> Route("assets:read", "assets", TRUE)]

ComposerReadRoutes ==
  [composerAssets |-> Route("composer:read", "assets", FALSE),
   composerAsset |-> Route("composer:read", "assets", TRUE)]

CalendarEventsRoutes == [events |-> Route("calendar:read", "queue", FALSE)]

CalendarTimelineRoutes == [timeline |-> Route("calendar:read", "queue", FALSE)]

ConfigReadRoutes ==
  [configs |-> Route("providers:read", "nothing", FALSE),
   config |-> Route("providers:read", "nothing", TRUE)]

ActivityRoutes ==
  [activity |-> Route("activity:read", "nothing", FALSE),
   activityEvent |-> Route("activity:read", "nothing", TRUE)]

\* What has been published, from its records; nobody has to be known to read it.
PublishingRoutes ==
  [publishingHealth |-> Route("none", "nothing", FALSE),
   history |-> Route("none", "database", FALSE), published |-> Route("none", "database", TRUE)]

AuthRoutes == [authHealth |-> Route("none", "nothing", FALSE), rbac |-> Route("none", "nothing", FALSE)]

NotificationListRoutes == [notifications |-> Route("notifications:read", "nothing", FALSE)]

Reading ==
  DashboardRoutes @@ MetricsRoutes @@ QueueStatusRoutes @@ PublisherReadRoutes @@ JobsRoutes
    @@ AssetsRoutes @@ ComposerReadRoutes @@ CalendarEventsRoutes @@ CalendarTimelineRoutes
    @@ ConfigReadRoutes @@ ActivityRoutes @@ NotificationListRoutes @@ PublishingRoutes
    @@ AuthRoutes

\* The services a process has been started with; the calendar is made of the queue, and the
\* assets are those of the default project in the database.
Services(redis) == {"nothing", "database", "assets"} \cup {s \in {"queue"} : redis}

\* The guard comes first, then what the route needs, then what it is about.
ReadAnswer(config, services, credential, read, there) ==
  LET verdict == Verdict(config, credential, Reading[read].permission) IN
  CASE verdict # "pass" -> verdict
    [] Reading[read].needs \notin services -> "503"
    [] Reading[read].named /\ ~there -> "404"
    [] OTHER -> "200"
=============================================================================

------------------------------ MODULE Dashboard ------------------------------
(***************************************************************************)
(* The operators' dashboard: a process of its own that renders pages from  *)
(* what it reads through the API and turns the forms operators send into   *)
(* calls of the API.  Which layout a page has is left out; what it reads,  *)
(* what it offers and what its handlers let through is kept.               *)
(***************************************************************************)
EXTENDS ReadRoutes, SequencesExt

LoadedDesk(env) ==
  [rbac |-> env.rbac, role |-> DefaultRole(env.role, "admin"), key |-> env.key]

Can(desk, permission) == ~desk.rbac \/ Grants(desk.role, permission)

-----------------------------------------------------------------------------
\* The client.  It sends its key with some of its reads only.

KeyedReads ==
  {"queue", "jobs", "job", "events", "timeline", "configs", "config", "activity",
   "activityEvent", "notifications"}

DeskCredential(desk, keyed) ==
  [token |-> NoToken, key |-> IF keyed THEN desk.key ELSE "none"]

\* Whatever else the API answers, the client takes for nothing.
Loads(config, services, desk, read, there) ==
  ReadAnswer(config, services, DeskCredential(desk, read \in KeyedReads), read, there) = "200"

\* Calls that change something carry the key, a health check does not.
KeyedCall(op) == op # "health"

-----------------------------------------------------------------------------
\* What each page reads.

HomeReads == <<"health", "summary", "recent", "metrics", "queue", "notifications">>
PublishersReads == <<"publishers", "publisher">>
ConfigReads == <<"configs", "config">>
JobsReads == <<"jobs">>
JobReads == <<"job">>
AssetsReads == <<"assets">>
AssetReads == <<"asset">>
ComposerReads == <<"composerAssets", "composerAsset">>
BulkReads == <<"composerAssets", "publishers">>
CalendarReads == <<"events", "timeline">>
ActivityReads == <<"activity", "activityEvent">>
NotificationsReads == <<"notifications">>

PageReads ==
  [home |-> HomeReads, publishers |-> PublishersReads, config |-> ConfigReads,
   jobs |-> JobsReads, job |-> JobReads, assets |-> AssetsReads, asset |-> AssetReads,
   composer |-> ComposerReads, bulk |-> BulkReads, calendar |-> CalendarReads,
   activity |-> ActivityReads, notifications |-> NotificationsReads]

\* A view of a page: what it could load, the pairs its controls are about, the choice that was
\* made on it and the one it asks to confirm.
NoChoice == [assets |-> << >>, publishers |-> << >>]

View(at, loaded, items) ==
  [at |-> at, loaded |-> loaded, items |-> items, chosen |-> NoChoice, asks |-> NoChoice]

NoView == View("none", {}, {})

-----------------------------------------------------------------------------
\* What each page offers.

QueueOperations(desk) ==
  IF Can(desk, "queue:write") THEN {"pause", "resume", "drain", "retry", "remove"} ELSE {}

JobOperations(desk, state) ==
  IF Can(desk, "queue:write")
  THEN {"remove"} \cup {op \in {"retry"} : state = "failed"} ELSE {}

PublisherOperations(view) == {op \in {"health"} : "publishers" \in view.loaded}

ConfigOperations(desk, view) ==
  {op \in {"check", "configure", "health"} :
     "configs" \in view.loaded /\ (op = "health" \/ Can(desk, "providers:write"))}

ComposerOperations(desk, view) ==
  {op \in {"publish"} : "composerAsset" \in view.loaded /\ Can(desk, "publishing:write")}

\* The form is there whoever looks at it.
BulkOperations == {"bulk"}

\* So is the button that marks everything read.
NotificationOperations(view) == {op \in {"read", "readAll"} : op = "readAll" \/ view.items # {}}

Offers(desk, view) ==
  CASE view.at = "home" -> QueueOperations(desk)
    [] view.at = "publishers" -> PublisherOperations(view)
    [] view.at = "config" -> ConfigOperations(desk, view)
    [] view.at = "job" -> UNION {JobOperations(desk, job[2]) : job \in view.items}
    [] view.at = "composer" -> ComposerOperations(desk, view)
    [] view.at = "bulk" -> BulkOperations
    [] view.at = "notifications" -> NotificationOperations(view)
    [] OTHER -> {}

-----------------------------------------------------------------------------
\* What the handlers let through.

HandlerPermission ==
  [pause |-> "queue:write", resume |-> "queue:write", drain |-> "queue:write",
   retry |-> "queue:write", remove |-> "queue:write",
   check |-> "providers:write", configure |-> "providers:write",
   publish |-> "publishing:write", bulk |-> "publishing:write",
   health |-> "none", read |-> "none", readAll |-> "none"]

Handles(desk, op) == HandlerPermission[op] = "none" \/ Can(desk, HandlerPermission[op])

\* The fields of a form in the order they were sent: of a name sent twice the last counts.
Fields(name, values) == [i \in DOMAIN values |-> [name |-> name, value |-> values[i]]]

ParsedForm(fields) ==
  FoldLeft(LAMBDA parsed, field : [parsed EXCEPT ![field.name] = <<field.value>>],
           NoChoice, fields)

ChoiceOf(assets, publishers) ==
  ParsedForm(Fields("assets", assets) \o Fields("publishers", publishers))

PairsOf(choice) == ToSet(choice.assets) \X ToSet(choice.publishers)
=============================================================================

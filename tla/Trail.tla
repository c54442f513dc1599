------------------------------- MODULE Trail --------------------------------
(***************************************************************************)
(* What the API process remembers of what was done: the audit events, the  *)
(* notices derived from them and the count of failed logins.  All of it is *)
(* kept in memory.  Events and notices are kept per correlation, in the    *)
(* order they were recorded; the order between correlations is left out.   *)
(***************************************************************************)
EXTENDS SequencesExt

AuthFailureThreshold == 3

\* good: what the event says of the thing it is about.
Event(type, about, good) == [type |-> type, about |-> about, good |-> good]

Plain(type) == Event(type, "none", TRUE)

NewTrail(correlations) ==
  [events |-> [c \in correlations |-> << >>],
   notices |-> [c \in correlations |-> << >>],
   streak |-> 0]

\* The reasons given for a failed publication never speak of exhausted retries.
AlwaysNoticed ==
  [type \in {"publishing.queued", "publishing.failed", "publishing.duplicate_skipped",
             "queue.pause", "queue.resume", "system.startup", "system.shutdown",
             "auth.rbac_denied"} |->
     CASE type = "publishing.queued" -> "publish.completed"
       [] type = "publishing.failed" -> "publish.failed"
       [] type = "publishing.duplicate_skipped" -> "publish.duplicate_skipped"
       [] type = "queue.pause" -> "queue.paused"
       [] type = "queue.resume" -> "queue.resumed"
       [] type = "auth.rbac_denied" -> "security.rbac_denied"
       [] OTHER -> type]

NoticedWhenBad ==
  [type \in {"provider.health_check", "provider.validation", "provider.config_updated"} |->
     IF type = "provider.health_check" THEN "provider.unhealthy" ELSE "provider.config_invalid"]

\* Every failed login is one of the actor "anonymous", so that all of them share a count.
Alarms(trail, event) ==
  event.type = "auth.login_failure" /\ trail.streak + 1 >= AuthFailureThreshold

StreakAfter(trail, event) ==
  IF event.type # "auth.login_failure" THEN trail.streak
  ELSE IF Alarms(trail, event) THEN 0 ELSE trail.streak + 1

NoticeType(trail, event) ==
  CASE event.type \in DOMAIN AlwaysNoticed -> AlwaysNoticed[event.type]
    [] event.type \in DOMAIN NoticedWhenBad /\ ~event.good -> NoticedWhenBad[event.type]
    [] Alarms(trail, event) -> "security.auth_failures"
    [] OTHER -> "none"

Notice(type, about) == [type |-> type, about |-> about, read |-> FALSE]

NoticesOf(trail, event) ==
  IF NoticeType(trail, event) = "none" THEN << >>
  ELSE <<Notice(NoticeType(trail, event), event.about)>>

\* Recording never fails the caller.
Recorded(trail, c, event) ==
  [events |-> [trail.events EXCEPT ![c] = Append(@, event)],
   notices |-> [trail.notices EXCEPT ![c] = @ \o NoticesOf(trail, event)],
   streak |-> StreakAfter(trail, event)]

RecordedAll(trail, c, events) ==
  FoldLeft(LAMBDA t, event : Recorded(t, c, event), trail, events)

-----------------------------------------------------------------------------
\* The list: how many notices are unread, and reading them.

Unread(trail) ==
  UNION {{<<c, i>> : i \in {j \in DOMAIN trail.notices[c] : ~trail.notices[c][j].read}} :
           c \in DOMAIN trail.notices}

HasNotice(trail, c, i) == c \in DOMAIN trail.notices /\ i \in DOMAIN trail.notices[c]

MarkedRead(trail, c, i) == [trail EXCEPT !.notices[c][i].read = TRUE]

AllMarkedRead(trail) ==
  [trail EXCEPT !.notices =
     [c \in DOMAIN @ |-> [i \in DOMAIN @[c] |-> [@[c][i] EXCEPT !.read = TRUE]]]]

-----------------------------------------------------------------------------
\* What a publication through the composer leaves on the record.

EventsAbout(type, pairs) == [i \in DOMAIN pairs |-> Event(type, pairs[i], TRUE)]

\* As if the audit of a bulk publication had left out what was skipped.
OutcomeEventsWithoutSkipped(answer) ==
     EventsAbout("publishing.queued", answer.accepted)
  \o EventsAbout("publishing.failed", answer.failed)

OutcomeEvents(answer) ==
     EventsAbout("publishing.queued", answer.accepted)
  \o EventsAbout("publishing.duplicate_skipped", answer.skipped)
  \o EventsAbout("publishing.failed", answer.failed)

PublishEvents(answer) ==
  <<Plain("publishing.requested"), Plain("composer.publish")>> \o OutcomeEvents(answer)

BulkPublishEvents(answer) == <<Plain("composer.bulk_publish")>> \o OutcomeEvents(answer)
=============================================================================

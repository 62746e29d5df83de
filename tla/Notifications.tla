---------------------------- MODULE Notifications ----------------------------
(***************************************************************************)
(* The notification service: the row is written when the run is submitted, *)
(* delivered or closed once the run has settled, and delivery and the      *)
(* record of it are two steps.                                             *)
(***************************************************************************)
EXTENDS JobRunTable

CONSTANT Undeliverable  \* endings whose channel refuses, or is not configured

ASSUME ChannelAssumption == Undeliverable \subseteq Endings

VARIABLES
  recording,  \* the notification handed to its channel and not yet recorded
  delivered   \* history: how often each notification reached its channel

notifying == <<recording, delivered>>
AllNotifications == JobRuns \X Endings

NotificationsTypeOK ==
  /\ recording \subseteq AllNotifications
  /\ delivered \in [AllNotifications -> Nat]

NotificationsInit ==
  /\ recording = {}
  /\ delivered = [n \in AllNotifications |-> 0]

-----------------------------------------------------------------------------
\* NotifyOn::wants.  A stopped or deleted run is news to nobody.
Wants(n) ==
  CASE n[2] = "Failure" -> jobRun[n[1]].status \in {"Failed", "TimedOut", "Invalid"}
    [] n[2] = "Success" -> jobRun[n[1]].status = "Succeeded"

\* What handle_open_notification is past the status check for.  A row a reap
\* removed after the pass selected it is an error on that row and nothing else.
IsDue(n) ==
  /\ recording = {}
  /\ notification[n] = "Pending"
  /\ IsFinished(n[1])

\* Mutation: only a run that got going has its notifications closed.
CloseIfStarted(n) ==
  /\ IsDue(n) /\ ~Wants(n) /\ jobRun[n[1]].status \notin {"Deleted", "Skipped"}
  /\ notification' = [notification EXCEPT ![n] = "Skipped"]
  /\ UNCHANGED <<jobRun, lastId, stopRow, setting, notifying>>

\* handle_open_notification closes what this ending is not for.
CloseNotification(n) ==
  /\ IsDue(n) /\ ~Wants(n)
  /\ notification' = [notification EXCEPT ![n] = "Skipped"]
  /\ UNCHANGED <<jobRun, lastId, stopRow, setting, notifying>>

\* handle_open_notification sends the message; whether it landed is known only
\* to this pass until it is recorded.
SendNotification(n) ==
  /\ IsDue(n) /\ Wants(n)
  /\ recording' = {n}
  /\ delivered' = [delivered EXCEPT ![n] = @ + 1]
  /\ UNCHANGED <<table, setting>>

\* Mutation: what its channel refused is left for the next pass to send again.
RecordIfSent(n) ==
  /\ n \in recording
  /\ recording' = {}
  /\ notification' = IF notification[n] = "None" \/ n[2] \in Undeliverable THEN notification
                     ELSE [notification EXCEPT ![n] = "Sent"]
  /\ UNCHANGED <<jobRun, lastId, stopRow, setting, delivered>>

\* record_sent or record_failed, by id: nothing happens to a row that is gone.
RecordDelivery(n) ==
  /\ n \in recording
  /\ recording' = {}
  /\ notification' =
       IF notification[n] = "None" THEN notification
       ELSE [notification EXCEPT ![n] =
               IF n[2] \in Undeliverable THEN "Failed" ELSE "Sent"]
  /\ UNCHANGED <<jobRun, lastId, stopRow, setting, delivered>>

\* The update itself fails: the pass moves on and the row stays Pending.
RecordFails(n) ==
  /\ n \in recording
  /\ recording' = {}
  /\ UNCHANGED <<table, setting, delivered>>

NotificationsNext ==
  \E n \in AllNotifications :
    CloseNotification(n) \/ SendNotification(n) \/ RecordDelivery(n)

=============================================================================

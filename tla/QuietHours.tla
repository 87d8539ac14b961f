----------------------------- MODULE QuietHours -----------------------------
(***************************************************************************)
(* Quiet hours of a merchant's inventory alerts                            *)
(* (notification-preferences and notification-preference-schedule): the    *)
(* preference is a row, its clients are told whether push is active, muted *)
(* or disabled, and every server instance keeps timers in memory that tell *)
(* them again when the quiet hours begin or end.  Time goes by the hour;   *)
(* requests and timers take much less.                                     *)
(***************************************************************************)
EXTENDS Rows

CONSTANTS
  Instances,
  Calls,        \* updates and timers being handled at once
  Day,          \* hours of a day
  MaxHour,      \* bound
  MaxRestarts   \* bound

VARIABLES
  preference,   \* the row: push, and quiet hours as [from, to] or None
  told,         \* what the clients have heard last
  hour,
  timer,        \* due time of the timer in the map, by instance
  leaked,       \* due times of timers the map has lost, by instance
  handling,     \* what each call is doing
  missed,       \* the last telling was of an older row, or did not happen
  restarts

quietVars == <<preference, told, hour, timer, leaked, handling, missed, restarts>>

Spans == { s \in [from : 0..(Day - 1), to : 0..(Day - 1)] : s.from # s.to }
Preference == [push : BOOLEAN, quiet : Spans \cup { None }]
HandlingRow ==
  [at : Instances, step : { "save", "tell", "emit", "schedule" }, row : Preference \cup { None }]

ASSUME QuietAssumption ==
  /\ Instances # {} /\ Day \in Nat \ {0} /\ MaxHour \in Nat
  /\ None \notin Nat /\ None \notin HandlingRow

Local(h) == h % Day

isInventoryAlertPushMutedNow(p, h) ==
  /\ p.quiet # None
  /\ LET now == Local(h) IN
     IF p.quiet.from < p.quiet.to THEN p.quiet.from <= now /\ now < p.quiet.to
     ELSE p.quiet.from <= now \/ now < p.quiet.to

\* The suppression reason of the DTO.
State(p, h) == IF ~p.push THEN "DISABLED" ELSE IF isInventoryAlertPushMutedNow(p, h) THEN "MUTED" ELSE "ACTIVE"

\* A boundary that is now is due tomorrow.
Until(boundary, h) == LET delta == boundary - Local(h) IN IF delta <= 0 THEN delta + Day ELSE delta

\* Broken variant: the end is not waited for.
NextStart(p, h) == IF p.push /\ p.quiet # None THEN h + Until(p.quiet.from, h) ELSE None

\* resolveNextQuietHoursBoundaryAt.
NextBoundary(p, h) ==
  IF p.push /\ p.quiet # None THEN h + Min({ Until(p.quiet.from, h), Until(p.quiet.to, h) }) ELSE None

QuietInit ==
  /\ preference \in Preference /\ hour = 0 /\ told = State(preference, 0)
  /\ timer = [i \in Instances |-> NextBoundary(preference, 0)] /\ leaked = [i \in Instances |-> {}]
  /\ handling = [c \in Calls |-> None] /\ missed = FALSE /\ restarts = 0

\* mergePreferencePayload: fields that are absent stay, and switching quiet
\* hours off clears them.
Merged(p) == { [p EXCEPT !.push = b] : b \in BOOLEAN } \cup { [p EXCEPT !.quiet = s] : s \in Spans \cup { None } }

BeginUpdate(c, i) ==
  /\ handling[c] = None
  /\ \E row \in Merged(preference) : handling' = [handling EXCEPT ![c] = [at |-> i, step |-> "save", row |-> row]]
  /\ UNCHANGED <<preference, told, hour, timer, leaked, missed, restarts>>

In(c, step) == handling[c] # None /\ handling[c].step = step

SaveUpdate(c) ==
  /\ In(c, "save")
  /\ preference' = handling[c].row /\ handling' = [handling EXCEPT ![c].step = "tell"]
  /\ UNCHANGED <<told, hour, timer, leaked, missed, restarts>>

\* The clients are told of the row as it was saved, then rescheduleUser takes
\* the timer of the map away.
TellUpdate(c) ==
  /\ In(c, "tell")
  /\ told' = State(handling[c].row, hour) /\ missed' = (handling[c].row # preference)
  /\ timer' = [timer EXCEPT ![handling[c].at] = None]
  /\ handling' = [handling EXCEPT ![c].step = "schedule"]
  /\ UNCHANGED <<preference, hour, leaked, restarts>>

\* scheduleUser: a timer another call has set meanwhile is lost to the map and
\* goes on running.
ScheduleUser(c) ==
  /\ In(c, "schedule")
  /\ LET i == handling[c].at
         next == NextBoundary(preference, hour) IN
     IF next = None THEN UNCHANGED <<timer, leaked>>
     ELSE /\ timer' = [timer EXCEPT ![i] = next]
          /\ leaked' = [leaked EXCEPT ![i] = @ \cup ({ timer[i] } \ { None })]
  /\ handling' = [handling EXCEPT ![c] = None]
  /\ UNCHANGED <<preference, told, hour, missed, restarts>>

\* handleBoundaryReached takes away the timer of the map, whichever has fired.
BoundaryReached(c, i) ==
  /\ handling[c] = None
  /\ \/ timer[i] = hour /\ UNCHANGED leaked
     \/ hour \in leaked[i] /\ leaked' = [leaked EXCEPT ![i] = @ \ { hour }]
  /\ timer' = [timer EXCEPT ![i] = None]
  /\ handling' = [handling EXCEPT ![c] = [at |-> i, step |-> "emit", row |-> None]]
  /\ UNCHANGED <<preference, told, hour, missed, restarts>>

EmitCurrentPreference(c) ==
  /\ In(c, "emit")
  /\ told' = State(preference, hour) /\ missed' = FALSE
  /\ handling' = [handling EXCEPT ![c].step = "schedule"]
  /\ UNCHANGED <<preference, hour, timer, leaked, restarts>>

Due(i) == timer[i] = hour \/ hour \in leaked[i]

\* An instance stops, or an error in a timer's handler ends it; it schedules
\* every row again when it comes up.
Restart(i) ==
  LET gone == { c \in Calls : handling[c] # None /\ handling[c].at = i } IN
  /\ restarts < MaxRestarts /\ restarts' = restarts + 1
  /\ timer' = [timer EXCEPT ![i] = NextBoundary(preference, hour)] /\ leaked' = [leaked EXCEPT ![i] = {}]
  /\ handling' = [c \in Calls |-> IF c \in gone THEN None ELSE handling[c]]
  /\ missed' = (missed \/ Due(i) \/ \E c \in gone : handling[c].step \in { "tell", "emit" })
  /\ UNCHANGED <<preference, told, hour>>

HourPasses ==
  /\ hour < MaxHour /\ \A c \in Calls : handling[c] = None
  /\ \A i \in Instances : ~Due(i)
  /\ hour' = hour + 1
  /\ UNCHANGED <<preference, told, timer, leaked, handling, missed, restarts>>

QuietNext ==
  \/ \E c \in Calls :
       \/ SaveUpdate(c) \/ TellUpdate(c) \/ ScheduleUser(c) \/ EmitCurrentPreference(c)
       \/ \E i \in Instances : BoundaryReached(c, i) \/ BeginUpdate(c, i)
  \/ \E i \in Instances : Restart(i)
  \/ HourPasses

QuietSpec == QuietInit /\ [][QuietNext]_quietVars
-----------------------------------------------------------------------------
(* Properties.                                                              *)

\* When nothing is being handled the clients have heard the state push is in,
\* unless the last telling was of a row overwritten since or was lost with its
\* instance (notification-preference-schedule.service.ts:41-130).
ToldAgrees ==
  (\A c \in Calls : handling[c] = None) /\ (\A i \in Instances : ~Due(i)) /\ ~missed
    => told = State(preference, hour)
=============================================================================

--------------------------- MODULE MC_ControlSystem ---------------------------
(***************************************************************************)
(* The control commands, and the Manager they are for, in three systems;   *)
(* `part` says which one a behaviour is of.                                *)
(*   commands  cloud and bridge, as ControlSystem says; a stop comes first *)
(*   info      team, map and people written to one room of the Manager     *)
(*   halt      games of two rooms, of one team, started and stopped there  *)
(* And the view under which two states that no later step tells apart are  *)
(* one.                                                                    *)
(***************************************************************************)
EXTENDS ControlSystem, ManagerRooms, TLC

CONSTANTS n1, n2

VARIABLE part

PartInit ==
    /\ ControlInit /\ ManagerInit
    /\ part \in {"commands", "info", "halt"}

StopFirst == command'[1].status = "none" \/ command'[1].action # "all_stop"
\* Team, map and people, of one room.
OneRoom ==
    /\ job'.room = 0 /\ (job'.id # job.id => job'.pc = "read")
    /\ window'[1] = window[1] /\ 1 \notin plays'
\* Games, of one team and map.
OneName ==
    /\ job'.action # "set_info" /\ job'.name \in {Nil, n1} /\ job'.people < 2
    /\ \A r \in Panels : window'[r].name = n1 /\ window'[r].people = 1
PartNext ==
    /\ UNCHANGED part
    /\ \/ part = "commands" /\ ControlNext /\ StopFirst /\ UNCHANGED mvars
       \/ part = "info" /\ ManagerNext /\ OneRoom /\ UNCHANGED controlVars
       \/ part = "halt" /\ ManagerNext /\ OneName /\ UNCHANGED controlVars

PartSpec == PartInit /\ [][PartNext]_<<part, controlVars, mvars>>

----------------------------------------------------------------------------

ControlSymmetry == Permutations(Rooms) \cup Permutations(Workers)

(* A report that is refused now is refused for ever: the row of a room changes
   only together with a stamp that is later than the report.  One without a time
   is as of its arrival. *)
Dead(r, report) ==
    IF report.at = 0 THEN report.state = "READY" ELSE ~Accepted(r, report)

Refused == [state |-> "refused"]

(* What counts of a report but its stamp, and the stamp. *)
Body(r, report) == IF Dead(r, report) THEN Refused ELSE [report EXCEPT !.at = 0]

Stamp(r, report) == IF Dead(r, report) THEN 0 ELSE report.at

(* Of the stamps that the next report of a room may bear one counts: that of its
   error, else that of its last success, else that of the probe. *)
Stamps(r) ==
    << room[r].seen,
       Stamp(r, errors[r]),
       IF errors[r] = NoError THEN okAt[r] ELSE 0,
       IF errors[r] = NoError /\ okAt[r] = 0 THEN probe.at ELSE 0,
       IF beat = NoBeat THEN 0 ELSE Stamp(r, beat.rooms[r]),
       clock + 1 >>

(* The order of a room's stamps, which are compared with one another only.  How
   much older than the row a stamp is does not matter. *)
Ranks(r) ==
    LET stamps == Stamps(r)
        live == {stamps[i] : i \in 1..6} \ 0..(room[r].seen - 1)
    IN  [i \in 1..6 |-> IF stamps[i] = 0 THEN 0
                        ELSE 1 + Cardinality({s \in live : s <= stamps[i]})]

(* The successes count while the control state is not IDLE, and what was done
   while the command may be shown as completed. *)
Order ==
    <<command, [r \in Rooms |-> [room[r] EXCEPT !.seen = 0]], agent, asking,
      [r \in Rooms |-> Ranks(r)],
      journal, outbox, task,
      IF control.state = "IDLE" THEN [control EXCEPT !.successes = 0] ELSE control,
      [r \in Rooms |-> IF errors[r] = NoError THEN NoError ELSE Body(r, errors[r])],
      probe.stale, probe.recovery,
      IF beat = NoBeat THEN beat
      ELSE [beat EXCEPT !.rooms = [r \in Rooms |-> Body(r, @[r])]],
      {c \in did : command[c].status # "failed"}, faults>>

View == <<part, Order, mvars>>

=============================================================================

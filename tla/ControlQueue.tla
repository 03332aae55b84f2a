---------------------------- MODULE ControlQueue ----------------------------
(***************************************************************************)
(* The game control commands in the cloud: the commands of the rooms, the   *)
(* runtime row of each room, and the requests that change them (db/control  *)
(* and the routes /api/commands, /api/agent/control-commands, sync, ack and *)
(* heartbeat).                                                              *)
(*                                                                          *)
(* Time is a counter.  Every event whose timestamp the code stores as that  *)
(* of a room's state advances it by two; a stamp in between belongs to      *)
(* something seen after that event and before the next.                     *)
(***************************************************************************)
EXTENDS Integers, FiniteSets

CONSTANTS
    Rooms,        \* the game rooms
    ALL,          \* the target of a command for all of them
    MaxCommands,  \* bound on the commands that are queued
    Workers,      \* requests of the screens that are served at the same time
    Actions       \* the actions the screens ask for

VARIABLES
    command,  \* the rows of "commands", numbered in the order of created_at
    room,     \* room_control_runtime
    agent,    \* whether agent_runtime shows a bridge that takes commands
    asking,   \* the request between its readiness check and its INSERT
    clock

queue == <<command, room, agent, asking, clock>>

None == 0

Ids == 1..MaxCommands

RoomActions == {"set_info", "start", "stop"}

ASSUME ControlConstants ==
    /\ IsFiniteSet(Rooms) /\ ALL \notin Rooms
    /\ MaxCommands \in Nat
    /\ Actions \subseteq RoomActions \cup {"all_stop"}

Targets == Rooms \cup {ALL}

Covers(target) == IF target = ALL THEN Rooms ELSE {target}

(* Mutant of Overlap: an all_stop is a target like any other. *)
OverlapSame(s, t) == s = t

Overlap(s, t) == s = ALL \/ t = ALL \/ s = t

ControlStates == {"IDLE", "BUSY", "DEGRADED", "ERROR"}

RoomStates == {"READY", "CONTROL_PENDING", "SET_INFO_FAILED", "CONTROL_FAILED", "STALE"}

FailedStates == {"SET_INFO_FAILED", "CONTROL_FAILED"}

CommandStatuses == {"none", "pending", "claimed", "completed", "failed"}

NoCommand == [target |-> ALL, action |-> "all_stop", status |-> "none", ambiguous |-> FALSE]

QueueInit ==
    /\ command = [c \in Ids |-> NoCommand]
    /\ room = [r \in Rooms |-> [state |-> "READY", action |-> "", cmd |-> None, seen |-> 0]]
    /\ agent = FALSE
    /\ asking = [w \in Workers |-> NoCommand]
    /\ clock = 0

(* The shapes of the tables.  A room, or a report of one, that is READY names no
   command. *)

AllActions == RoomActions \cup {"all_stop"}

CommandRows == [target : Targets, action : AllActions, status : CommandStatuses,
                ambiguous : BOOLEAN]

Asked == {q \in CommandRows : q.status \in {"none", "pending"} /\ ~q.ambiguous}

RoomRows ==
    {s \in [state : RoomStates, action : AllActions \cup {""}, cmd : Ids \cup {None}, seen : Nat] :
        s.state = "READY" => s.cmd = None}

Reports ==
    {s \in [state : RoomStates, action : AllActions \cup {""}, cmd : Ids \cup {None}, at : Nat] :
        s.state = "READY" => s.cmd = None}

QueueTypeOK ==
    /\ command \in [Ids -> CommandRows]
    /\ asking \in [Workers -> Asked]
    /\ room \in [Rooms -> RoomRows]
    /\ agent \in BOOLEAN /\ clock \in Nat

----------------------------------------------------------------------------

Live(c) == command[c].status \in {"pending", "claimed"}

Now == clock' = clock + 2

----------------------------------------------------------------------------
(* A screen asks for a command *)

(* evaluateRoomCommandReadiness *)
RoomReady(r, action) ==
    /\ room[r].state \notin {"CONTROL_PENDING", "STALE"} /\ room[r].cmd = None
    /\ room[r].state = "SET_INFO_FAILED" => action = "set_info"
    /\ room[r].state = "CONTROL_FAILED" => action = room[r].action

(* getControlCommandReadiness *)
Ready(target, action) == agent /\ (target # ALL => RoomReady(target, action))

(* POST /api/commands, up to its INSERT; a request that is refused changes
   nothing. *)
Ask(w, target, action) ==
    /\ asking[w] = NoCommand
    /\ (target = ALL) = (action = "all_stop")
    /\ Ready(target, action)
    /\ asking' = [asking EXCEPT ![w] = [NoCommand EXCEPT !.target = target,
                                           !.action = action, !.status = "pending"]]
    /\ UNCHANGED <<command, room, agent, clock>>

(* The trigger commands_control_active_insert_guard. *)
TargetFree(target) == \A c \in Ids : Live(c) => ~Overlap(command[c].target, target)

(* The INSERT and the trigger that marks the rooms. *)
Insert(w, c) ==
    /\ asking[w] # NoCommand
    /\ command[c] = NoCommand /\ (c > 1 => command[c - 1] # NoCommand)
    /\ TargetFree(asking[w].target)
    /\ command' = [command EXCEPT ![c] = asking[w]]
    /\ room' = [r \in Rooms |->
                  IF r \in Covers(asking[w].target)
                  THEN [state |-> "CONTROL_PENDING", action |-> asking[w].action, cmd |-> c,
                        seen |-> clock + 2]
                  ELSE room[r]]
    /\ Now
    /\ asking' = [asking EXCEPT ![w] = NoCommand]
    /\ UNCHANGED agent

(* CONTROL_ROOM_BUSY *)
InsertRefused(w) ==
    /\ asking[w] # NoCommand /\ ~TargetFree(asking[w].target)
    /\ asking' = [asking EXCEPT ![w] = NoCommand]
    /\ UNCHANGED <<command, room, agent, clock>>

----------------------------------------------------------------------------
(* The bridge claims a command, and the maintenance of every sync *)

(* POST /api/agent/control-commands: the oldest pending command, while no other
   is claimed. *)
Claim(c) ==
    /\ command[c].status = "pending"
    /\ \A d \in Ids : command[d].status = "pending" => c <= d
    /\ \A d \in Ids : command[d].status # "claimed"
    /\ command' = [command EXCEPT ![c].status = "claimed"]
    /\ UNCHANGED <<room, agent, asking, clock>>

FailedState(action) == IF action = "set_info" THEN "SET_INFO_FAILED" ELSE "CONTROL_FAILED"

(* The rooms whose row names a command in C show its failure. *)
FailRooms(C) ==
    room' = [r \in Rooms |->
               IF room[r].cmd \in C
               THEN [room[r] EXCEPT
                       !.state = FailedState(room[r].action), !.cmd = None, !.seen = clock + 2]
               ELSE room[r]]

(* The commands that are 90 s old. *)
Expire(C) ==
    /\ C # {} /\ \A c \in C : Live(c)
    /\ command' = [c \in Ids |-> IF c \in C THEN [command[c] EXCEPT !.status = "failed"]
                                 ELSE command[c]]
    /\ FailRooms(C)
    /\ Now
    /\ UNCHANGED <<agent, asking>>

(* CONTROL_ACK_TIMEOUT_AMBIGUOUS: claimed for 30 s and not acknowledged. *)
TimeOut(c) ==
    /\ command[c].status = "claimed"
    /\ command' = [command EXCEPT ![c].status = "failed", ![c].ambiguous = TRUE]
    /\ FailRooms({c})
    /\ Now
    /\ UNCHANGED <<agent, asking>>

----------------------------------------------------------------------------
(* What the bridge sends *)

(* finalRoomControlState and the action kept with it. *)
FinalRoom(c, status, roomState) ==
    LET state == IF status = "completed" THEN "READY"
                 ELSE IF roomState # "" THEN roomState ELSE FailedState(command[c].action)
    IN  [state |-> state, cmd |-> None, seen |-> clock + 2,
         action |-> IF state = "READY" THEN ""
                    ELSE IF state = "SET_INFO_FAILED" THEN "set_info" ELSE command[c].action]

SettleRooms(c, status, roomState) ==
    room' = [r \in Rooms |->
               IF room[r].cmd = c /\ r \in Covers(command[c].target)
               THEN FinalRoom(c, status, roomState) ELSE room[r]]

(* finalizeCommandAck: the first ACK ends a claimed command; the same ACK again
   settles the rooms that still name it; one that comes after the timeout, or
   that says something else, is a conflict. *)
Acknowledge(c, status, roomState) ==
    /\ \/ /\ command[c].status = "claimed"
          /\ command' = [command EXCEPT ![c].status = status]
          /\ SettleRooms(c, status, roomState)
          /\ Now
       \/ /\ command[c].status = status /\ ~command[c].ambiguous
          /\ SettleRooms(c, status, roomState)
          /\ IF room' = room THEN UNCHANGED clock ELSE Now
          /\ UNCHANGED command
       \/ /\ command[c].status # "claimed"
          /\ command[c].status # status \/ command[c].ambiguous
          /\ UNCHANGED <<command, room, clock>>
    /\ UNCHANGED <<agent, asking>>

(* resolveRoomControlEventTimestamp: a report without a time is taken as of now,
   and dropped when it says READY. *)
SeenAt(report) == IF report.at = 0 /\ report.state # "READY" THEN clock + 1 ELSE report.at

(* Mutant of Accepted: only the stamps are compared. *)
AcceptedNewer(r, report) ==
    (report.at # 0 \/ report.state # "READY") /\ SeenAt(report) > room[r].seen

(* The condition of upsertRoomControlStates. *)
Accepted(r, report) ==
    /\ report.at # 0 \/ report.state # "READY"
    /\ \/ SeenAt(report) > room[r].seen
       \/ /\ SeenAt(report) = room[r].seen
          /\ report.state # "CONTROL_PENDING" \/ room[r].state = "CONTROL_PENDING"
    /\ ~(report.state = "READY" /\ room[r].state \in {"CONTROL_PENDING"} \cup FailedStates)

(* POST /api/agent/heartbeat.  Of the state of the bridge the row keeps what
   evaluateControlReadiness makes of it. *)
Heartbeat(status) ==
    /\ agent' = status.ready
    /\ room' = [r \in Rooms |->
                  IF Accepted(r, status.rooms[r])
                  THEN [state |-> status.rooms[r].state, action |-> status.rooms[r].action,
                        cmd |-> status.rooms[r].cmd, seen |-> SeenAt(status.rooms[r])]
                  ELSE room[r]]
    /\ UNCHANGED <<command, asking, clock>>

=============================================================================

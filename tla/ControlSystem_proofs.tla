------------------------- MODULE ControlSystem_proofs -------------------------
(***************************************************************************)
(* Theorems of ControlSystem: its safety properties, for any rooms,         *)
(* requests and faults and any number of commands.                          *)
(***************************************************************************)
EXTENDS ControlSystem, TLAPS

(* What was recorded of a command, and when. *)
JournalInv ==
    /\ \A c \in Ids : journal[c].status # "none" => command[c].status \notin {"none", "pending"}
    /\ \A c \in Ids : outbox[c] => journal[c].status \in {"completed", "failed"}
    /\ task.step # "idle" => journal[task.cmd].status # "none"

(* What is, or is about to be, recorded as done was done. *)
DoneInv ==
    /\ \A c \in Ids : journal[c].status = "completed" => c \in did
    /\ task.step = "save" /\ task.result = "done" => task.cmd \in did

IInv == ControlTypeOK /\ JournalInv /\ RoomsExclusive /\ ExecutingAlone /\ DoneInv /\ CompletedWasDone

----------------------------------------------------------------------------
(* The shapes of the data *)

(* Numbers of commands are positive: none of them is None. *)
LEMMA IdsNat == Ids \subseteq Nat /\ None \notin Ids
BY ControlConstants DEF Ids, None

(* The clock only counts up. *)
LEMMA ClockTicks ==
    ASSUME QueueTypeOK
    PROVE  clock \in Nat /\ clock + 1 \in Nat /\ clock + 2 \in Nat /\ (Now => clock' \in Nat)
<1>1. clock \in Nat
  BY DEF QueueTypeOK
<1> QED
  BY <1>1 DEF Now

(* The row of a command that does not exist yet. *)
LEMMA NoCommandType == NoCommand \in CommandRows /\ NoCommand \in Asked
BY DEF NoCommand, CommandRows, Asked, Targets, AllActions, CommandStatuses

(* What the ACK of a command leaves in a room's row. *)
LEMMA FinalRoomType ==
    ASSUME QueueTypeOK, NEW c \in Ids, NEW status, NEW roomState \in FailedStates \cup {""}
    PROVE  /\ FinalRoom(c, status, roomState) \in RoomRows
           /\ FinalRoom(c, status, roomState).state = "READY" => status = "completed"
<1>1. FailedState(command[c].action) \in FailedStates
  BY DEF FailedState, FailedStates
<1>2. command[c] \in CommandRows
  BY DEF QueueTypeOK
<1>3. command[c].action \in AllActions
  BY <1>2 DEF CommandRows
<1>4. clock + 2 \in Nat
  BY ClockTicks
<1>5. "set_info" \in AllActions
  BY DEF AllActions, RoomActions
<1>6. None \in Ids \cup {None}
  OBVIOUS
<1> QED
  BY <1>1, <1>3, <1>4, <1>5, <1>6 DEF FinalRoom, RoomStates, FailedStates, RoomRows

(* A heartbeat leaves rows that keep the type, and makes no room ready that was
   pending or failed. *)
LEMMA HeartbeatRoom ==
    ASSUME QueueTypeOK, NEW status \in Beats, Heartbeat(status)
    PROVE  /\ room' \in [Rooms -> RoomRows] /\ agent' \in BOOLEAN
           /\ \A r \in Rooms : room'[r].state = "READY" =>
                 room[r].state \notin {"CONTROL_PENDING"} \cup FailedStates
<1>1. status.rooms \in [Rooms -> Reports] /\ status.ready \in BOOLEAN
  BY DEF Beats
<1>2. room' = [r \in Rooms |->
                  IF Accepted(r, status.rooms[r])
                  THEN [state |-> status.rooms[r].state, action |-> status.rooms[r].action,
                        cmd |-> status.rooms[r].cmd, seen |-> SeenAt(status.rooms[r])]
                  ELSE room[r]]
  BY DEF Heartbeat
<1>3. ASSUME NEW r \in Rooms
      PROVE  room'[r] \in RoomRows
  <2>1. status.rooms[r] \in Reports /\ room[r] \in RoomRows
    BY <1>1 DEF QueueTypeOK
  <2>2. SeenAt(status.rooms[r]) \in Nat
    <3>1. status.rooms[r].at \in Nat /\ clock \in Nat
      BY <2>1 DEF Reports, QueueTypeOK
    <3> QED
      BY <3>1 DEF SeenAt
  <2>3. [state |-> status.rooms[r].state, action |-> status.rooms[r].action,
         cmd |-> status.rooms[r].cmd, seen |-> SeenAt(status.rooms[r])] \in RoomRows
    BY <2>1, <2>2 DEF Reports, RoomRows
  <2> QED
    BY <1>2, <2>1, <2>3
<1>4. ASSUME NEW r \in Rooms, room'[r].state = "READY"
      PROVE  room[r].state \notin {"CONTROL_PENDING"} \cup FailedStates
  <2>1. CASE Accepted(r, status.rooms[r])
    <3>1. status.rooms[r].state = "READY"
      BY <1>2, <1>4, <2>1
    <3> QED
      BY <2>1, <3>1 DEF Accepted
  <2>2. CASE ~Accepted(r, status.rooms[r])
    BY <1>2, <1>4, <2>2 DEF FailedStates
  <2> QED
    BY <2>1, <2>2
<1>5. agent' \in BOOLEAN
  BY <1>1 DEF Heartbeat
<1> QED
  BY <1>2, <1>3, <1>4, <1>5

----------------------------------------------------------------------------
(* What the steps do to the queue *)

(* Commands end, or nothing happens to them. *)
Ending ==
    /\ command' \in [Ids -> CommandRows]
    /\ \A c \in Ids :
          \/ command'[c] = command[c]
          \/ /\ Live(c) /\ command'[c].target = command[c].target
             /\ command'[c].status \in {"completed", "failed"}

(* No room becomes ready unless its command was completed. *)
RoomsEarned ==
    \A r \in Rooms :
        room[r].state \in {"CONTROL_PENDING"} \cup FailedStates /\ room'[r].state = "READY" =>
            room[r].cmd # None /\ command'[room[r].cmd].status = "completed"

(* The rooms of commands that fail keep their type and are not made ready. *)
LEMMA FailRoomsType ==
    ASSUME QueueTypeOK, NEW C \in SUBSET Ids, FailRooms(C), Now
    PROVE  room' \in [Rooms -> RoomRows] /\ clock' \in Nat /\ RoomsEarned
<1>1. clock + 2 \in Nat /\ clock' \in Nat
  BY ClockTicks
<1>2. ASSUME NEW r \in Rooms
      PROVE  /\ [room[r] EXCEPT !.state = FailedState(room[r].action), !.cmd = None,
                                !.seen = clock + 2] \in RoomRows
             /\ room[r] \in RoomRows
  <2>1. room[r] \in RoomRows
    BY DEF QueueTypeOK
  <2>2. FailedState(room[r].action) \in FailedStates
    BY DEF FailedState, FailedStates
  <2> QED
    BY <1>1, <2>1, <2>2 DEF RoomRows, FailedStates, RoomStates
<1>3. room' \in [Rooms -> RoomRows]
  BY <1>2 DEF FailRooms
<1>4. ASSUME NEW r \in Rooms, room'[r].state = "READY"
      PROVE  room[r].state = "READY"
  <2>1. FailedState(room[r].action) # "READY"
    BY DEF FailedState
  <2>2. room[r] \in [state : RoomStates, action : AllActions \cup {""},
                     cmd : Ids \cup {None}, seen : Nat]
    BY <1>2 DEF RoomRows
  <2> QED
    BY <1>4, <2>1, <2>2 DEF FailRooms
<1> QED
  BY <1>1, <1>3, <1>4 DEF RoomsEarned, FailedStates

(* An ACK ends at most its own command, with the status it brings. *)
LEMMA AcknowledgeEffect ==
    ASSUME QueueTypeOK, NEW c \in Ids, NEW status \in {"completed", "failed"},
           NEW roomState \in FailedStates \cup {""}, Acknowledge(c, status, roomState)
    PROVE  /\ QueueTypeOK' /\ Ending /\ RoomsEarned
           /\ \A d \in Ids : command'[d] # command[d] =>
                 d = c /\ command'[c].status = status
<1>1. command \in [Ids -> CommandRows] /\ room \in [Rooms -> RoomRows] /\ clock \in Nat
  BY DEF QueueTypeOK
<1>2. c # None
  BY IdsNat
<1>3. ASSUME SettleRooms(c, status, roomState)
      PROVE  /\ room' \in [Rooms -> RoomRows]
             /\ \A r \in Rooms : room'[r].state = "READY" /\ room[r].state # "READY" =>
                   room[r].cmd = c /\ status = "completed"
  BY <1>1, <1>3, FinalRoomType DEF SettleRooms
<1>4. CASE /\ command[c].status = "claimed"
           /\ command' = [command EXCEPT ![c].status = status]
           /\ SettleRooms(c, status, roomState)
           /\ Now
  <2>1. command[c] \in CommandRows
    BY <1>1
  <2>2. /\ [command[c] EXCEPT !.status = status] \in CommandRows
        /\ [command[c] EXCEPT !.status = status].status = status
        /\ [command[c] EXCEPT !.status = status].target = command[c].target
    BY <2>1 DEF CommandRows, CommandStatuses
  <2>3. command' = [command EXCEPT ![c] = [command[c] EXCEPT !.status = status]]
    BY <1>4
  <2>4. /\ command' \in [Ids -> CommandRows]
        /\ command'[c].status = status /\ command'[c].target = command[c].target
        /\ \A d \in Ids : d # c => command'[d] = command[d]
    BY <1>1, <2>2, <2>3
  <2>5. clock' \in Nat
    BY <1>4, ClockTicks
  <2>6. Live(c)
    BY <1>4 DEF Live
  <2>7. UNCHANGED <<agent, asking>>
    BY DEF Acknowledge
  <2>8. QueueTypeOK'
    BY <1>3, <1>4, <2>4, <2>5, <2>7 DEF QueueTypeOK
  <2> QED
    BY <1>2, <1>3, <1>4, <2>4, <2>6, <2>8 DEF Ending, RoomsEarned, FailedStates
<1>5. CASE /\ command[c].status = status /\ ~command[c].ambiguous
           /\ SettleRooms(c, status, roomState)
           /\ IF room' = room THEN UNCHANGED clock ELSE Now
           /\ UNCHANGED command
  <2>1. clock' \in Nat
    BY <1>5, ClockTicks
  <2>2. UNCHANGED <<agent, asking>>
    BY DEF Acknowledge
  <2>3. QueueTypeOK'
    BY <1>3, <1>5, <2>1, <2>2 DEF QueueTypeOK
  <2> QED
    BY <1>1, <1>2, <1>3, <1>5, <2>3 DEF Ending, RoomsEarned, FailedStates
<1>6. CASE UNCHANGED <<command, room, clock>>
  <2>1. UNCHANGED <<agent, asking>>
    BY DEF Acknowledge
  <2>2. QueueTypeOK'
    BY <1>6, <2>1 DEF QueueTypeOK
  <2> QED
    BY <1>1, <1>6, <2>2 DEF Ending, RoomsEarned, FailedStates
<1> QED
  BY <1>4, <1>5, <1>6 DEF Acknowledge

(* The commands that maintenance ends. *)
LEMMA MaintainEffect ==
    ASSUME QueueTypeOK, NEW C \in SUBSET Ids, Expire(C)
    PROVE  QueueTypeOK' /\ Ending /\ RoomsEarned
<1>1. command \in [Ids -> CommandRows]
  BY DEF QueueTypeOK
<1>2. ASSUME NEW c \in Ids
      PROVE  /\ [command[c] EXCEPT !.status = "failed"] \in CommandRows
             /\ [command[c] EXCEPT !.status = "failed"].status = "failed"
             /\ [command[c] EXCEPT !.status = "failed"].target = command[c].target
  <2>1. command[c] \in CommandRows
    BY <1>1
  <2> QED
    BY <2>1 DEF CommandRows, CommandStatuses
<1>3. command' = [c \in Ids |-> IF c \in C THEN [command[c] EXCEPT !.status = "failed"]
                                 ELSE command[c]]
  BY DEF Expire
<1>4. /\ command' \in [Ids -> CommandRows]
      /\ \A c \in Ids : c \notin C => command'[c] = command[c]
      /\ \A c \in C : command'[c].status = "failed" /\ command'[c].target = command[c].target
  BY <1>1, <1>2, <1>3
<1>5. \A c \in C : Live(c)
  BY DEF Expire
<1>6. Ending
  BY <1>4, <1>5 DEF Ending
<1>7. room' \in [Rooms -> RoomRows] /\ clock' \in Nat /\ RoomsEarned
  BY FailRoomsType DEF Expire
<1>8. UNCHANGED <<agent, asking>>
  BY DEF Expire
<1> QED
  BY <1>4, <1>6, <1>7, <1>8 DEF QueueTypeOK

(* The command whose ACK does not come. *)
LEMMA TimeOutEffect ==
    ASSUME QueueTypeOK, NEW c \in Ids, TimeOut(c)
    PROVE  QueueTypeOK' /\ Ending /\ RoomsEarned
<1>1. command \in [Ids -> CommandRows]
  BY DEF QueueTypeOK
<1> DEFINE failed == [[command[c] EXCEPT !.status = "failed"] EXCEPT !.ambiguous = TRUE]
<1>2. failed \in CommandRows /\ failed.status = "failed" /\ failed.target = command[c].target
  <2>1. command[c] \in CommandRows
    BY <1>1
  <2> QED
    BY <2>1 DEF CommandRows, CommandStatuses
<1>3. command' = [command EXCEPT ![c] = failed]
  BY <1>1 DEF TimeOut
<1> HIDE DEF failed
<1>4. /\ command' \in [Ids -> CommandRows] /\ command'[c] = failed
      /\ \A d \in Ids : d # c => command'[d] = command[d]
  BY <1>1, <1>2, <1>3
<1>5. Live(c)
  BY DEF TimeOut, Live
<1>6. Ending
  BY <1>2, <1>4, <1>5 DEF Ending
<1>7. {c} \in SUBSET Ids /\ FailRooms({c}) /\ Now /\ UNCHANGED <<agent, asking>>
  BY DEF TimeOut
<1>8. room' \in [Rooms -> RoomRows] /\ clock' \in Nat /\ RoomsEarned
  BY <1>7, FailRoomsType
<1> QED
  BY <1>4, <1>6, <1>7, <1>8 DEF QueueTypeOK

(* A claim takes a pending command while no other one is claimed. *)
LEMMA ClaimEffect ==
    ASSUME QueueTypeOK, NEW c \in Ids, Claim(c)
    PROVE  /\ QueueTypeOK' /\ RoomsEarned
           /\ command[c].status = "pending" /\ command'[c].status = "claimed"
           /\ command'[c].target = command[c].target /\ command'[c].action = command[c].action
           /\ \A d \in Ids : d # c =>
                 command'[d] = command[d] /\ command[d].status # "claimed"
<1>1. command \in [Ids -> CommandRows] /\ command[c] \in CommandRows
  BY DEF QueueTypeOK
<1> DEFINE claimed == [command[c] EXCEPT !.status = "claimed"]
<1>2. /\ claimed \in CommandRows /\ claimed.status = "claimed"
      /\ claimed.target = command[c].target /\ claimed.action = command[c].action
  BY <1>1 DEF CommandRows, CommandStatuses
<1>3. command' = [command EXCEPT ![c] = claimed]
  BY DEF Claim
<1> HIDE DEF claimed
<1>4. /\ command' \in [Ids -> CommandRows] /\ command'[c] = claimed
      /\ \A d \in Ids : d # c => command'[d] = command[d]
  BY <1>1, <1>2, <1>3
<1>5. UNCHANGED <<room, agent, asking, clock>>
  BY DEF Claim
<1>6. QueueTypeOK'
  BY <1>4, <1>5 DEF QueueTypeOK
<1>7. RoomsEarned
  BY <1>5 DEF RoomsEarned, FailedStates
<1> QED
  BY <1>2, <1>4, <1>6, <1>7 DEF Claim

(* Two targets that do not overlap have no room in common. *)
LEMMA OverlapCovers ==
    ASSUME NEW s \in Targets, NEW t \in Targets, ~Overlap(s, t)
    PROVE  Covers(s) \cap Covers(t) = {}
BY DEF Overlap, Covers

(* A command is queued when no live command has a room of it. *)
LEMMA InsertEffect ==
    ASSUME QueueTypeOK, RoomsExclusive, NEW w \in Workers, NEW c \in Ids, Insert(w, c)
    PROVE  /\ QueueTypeOK' /\ RoomsExclusive' /\ RoomsEarned
           /\ command[c] = NoCommand /\ command'[c].status \in {"none", "pending"}
           /\ \A d \in Ids : d # c => command'[d] = command[d]
<1>1. /\ command \in [Ids -> CommandRows] /\ room \in [Rooms -> RoomRows]
      /\ asking \in [Workers -> Asked]
  BY DEF QueueTypeOK
<1>2. asking[w] \in Asked
  BY <1>1
<1>3. asking[w] \in CommandRows /\ asking[w].status \in {"none", "pending"}
  BY <1>2 DEF Asked
<1>4. /\ asking[w].target \in Targets /\ asking[w].action \in AllActions
  BY <1>3 DEF CommandRows
<1>5. command' = [command EXCEPT ![c] = asking[w]] /\ command[c] = NoCommand
  BY DEF Insert
<1>6. /\ command' \in [Ids -> CommandRows] /\ command'[c] = asking[w]
      /\ \A d \in Ids : d # c => command'[d] = command[d]
  BY <1>1, <1>3, <1>5
<1>7. clock + 2 \in Nat /\ clock' \in Nat
  BY ClockTicks DEF Insert
<1> DEFINE row == [state |-> "CONTROL_PENDING", action |-> asking[w].action, cmd |-> c,
                   seen |-> clock + 2]
<1>8. row \in RoomRows /\ row.state # "READY"
  BY <1>4, <1>7 DEF RoomRows, RoomStates
<1>9. room' = [r \in Rooms |-> IF r \in Covers(asking[w].target) THEN row ELSE room[r]]
  BY DEF Insert
<1> HIDE DEF row
<1>10. room' \in [Rooms -> RoomRows]
  BY <1>1, <1>8, <1>9
<1>11. \A r \in Rooms : room'[r].state = "READY" => room[r].state = "READY"
  BY <1>8, <1>9
<1>12. RoomsEarned
  BY <1>11 DEF RoomsEarned, FailedStates
<1>13. asking' \in [Workers -> Asked]
  BY <1>1, NoCommandType DEF Insert
<1>14. QueueTypeOK'
  BY <1>6, <1>7, <1>10, <1>13 DEF QueueTypeOK, Insert
<1>15. \A d \in Ids : d # c /\ Live(d) =>
          Covers(command[d].target) \cap Covers(asking[w].target) = {}
  <2>1. ASSUME NEW d \in Ids, Live(d)
        PROVE  Covers(command[d].target) \cap Covers(asking[w].target) = {}
    <3>1. command[d].target \in Targets
      BY <1>1 DEF CommandRows
    <3>2. ~Overlap(command[d].target, asking[w].target)
      BY <2>1 DEF Insert, TargetFree
    <3> QED
      BY <1>4, <3>1, <3>2, OverlapCovers
  <2> QED
    BY <2>1
<1>16. RoomsExclusive'
  <2>1. \A d \in Ids : d # c => Live(d)' = Live(d)
    BY <1>6 DEF Live
  <2> SUFFICES ASSUME NEW d \in Ids, NEW e \in Ids, d # e, Live(d)', Live(e)'
               PROVE  Covers(command'[d].target) \cap Covers(command'[e].target) = {}
    BY DEF RoomsExclusive, Covers
  <2>2. CASE d = c
    BY <1>6, <1>15, <2>1, <2>2
  <2>3. CASE e = c
    BY <1>6, <1>15, <2>1, <2>3
  <2>4. CASE d # c /\ e # c
    BY <1>6, <2>1, <2>4 DEF RoomsExclusive
  <2> QED
    BY <2>2, <2>3, <2>4
<1> QED
  BY <1>3, <1>5, <1>6, <1>12, <1>14, <1>16

(* Commands that end make no two of them share a room. *)
LEMMA EndingExclusive ==
    ASSUME RoomsExclusive, Ending
    PROVE  RoomsExclusive'
<1>1. \A c \in Ids : Live(c)' => Live(c) /\ command'[c].target = command[c].target
  BY DEF Ending, Live
<1> SUFFICES ASSUME NEW d \in Ids, NEW e \in Ids, d # e, Live(d)', Live(e)'
             PROVE  Covers(command'[d].target) \cap Covers(command'[e].target) = {}
  BY DEF RoomsExclusive, Covers
<1> QED
  BY <1>1 DEF RoomsExclusive

----------------------------------------------------------------------------
(* What the invariant needs of a step of the queue that claims nothing *)

(* Rooms stay exclusive, no command goes back before its claim, none is claimed
   and none completed, unless the Manager did it. *)
QueueKept ==
    /\ QueueTypeOK' /\ RoomsExclusive' /\ RoomsEarned
    /\ \A c \in Ids :
          /\ command[c].status \notin {"none", "pending"} =>
                command'[c].status \notin {"none", "pending"}
          /\ command'[c].status = "claimed" => command[c].status = "claimed"
          /\ command'[c].status = "completed" => c \in did

(* Commands that fail, or are completed after the Manager did them. *)
LEMMA EndingKept ==
    ASSUME IInv, QueueTypeOK', Ending, RoomsEarned,
           \A c \in Ids : command'[c] # command[c] /\ command'[c].status = "completed" => c \in did
    PROVE  QueueKept
<1>1. RoomsExclusive'
  BY EndingExclusive DEF IInv
<1>2. \A c \in Ids : command'[c].status = "completed" => c \in did
  BY DEF IInv, CompletedWasDone
<1> QED
  BY <1>1, <1>2 DEF QueueKept, Ending

(* Nothing happens to the commands and the rooms. *)
LEMMA StillKept ==
    ASSUME IInv, UNCHANGED <<command, room, agent, asking>>, clock' \in Nat
    PROVE  QueueKept
<1>1. QueueTypeOK'
  BY DEF IInv, ControlTypeOK, QueueTypeOK
<1>2. RoomsExclusive'
  BY DEF IInv, RoomsExclusive, Covers, Live
<1>3. RoomsEarned
  BY DEF RoomsEarned, FailedStates
<1> QED
  BY <1>1, <1>2, <1>3 DEF QueueKept, IInv, CompletedWasDone

(* The requests of the screens. *)
LEMMA RequestKept ==
    ASSUME IInv, Request
    PROVE  QueueKept
<1> QueueTypeOK /\ RoomsExclusive
  BY DEF IInv, ControlTypeOK
<1>1. clock \in Nat /\ asking \in [Workers -> Asked] /\ command \in [Ids -> CommandRows]
      /\ room \in [Rooms -> RoomRows] /\ agent \in BOOLEAN
  BY DEF QueueTypeOK
<1>2. \/ \E w \in Workers, target \in Targets, action \in Actions : Ask(w, target, action)
      \/ \E w \in Workers, c \in Ids : Insert(w, c)
      \/ \E w \in Workers : InsertRefused(w)
  BY DEF Request
<1>3. ASSUME UNCHANGED <<command, room, agent, clock>>, asking' \in [Workers -> Asked]
      PROVE  QueueKept
  <2>1. QueueTypeOK'
    BY <1>1, <1>3 DEF QueueTypeOK
  <2>2. RoomsExclusive'
    BY <1>3 DEF RoomsExclusive, Covers, Live
  <2>3. RoomsEarned
    BY <1>3 DEF RoomsEarned, FailedStates
  <2> QED
    BY <1>3, <2>1, <2>2, <2>3 DEF QueueKept, IInv, CompletedWasDone
<1>4. ASSUME NEW w \in Workers, NEW target \in Targets, NEW action \in Actions,
             Ask(w, target, action)
      PROVE  QueueKept
  <2> DEFINE request == [[[NoCommand EXCEPT !.target = target] EXCEPT !.action = action]
                           EXCEPT !.status = "pending"]
  <2>1. action \in AllActions
    BY ControlConstants DEF AllActions
  <2>2. request \in Asked
    BY <2>1 DEF NoCommand, Asked, CommandRows, CommandStatuses
  <2>3. asking' = [asking EXCEPT ![w] = request]
    BY <1>4 DEF Ask
  <2> HIDE DEF request
  <2>4. asking' \in [Workers -> Asked]
    BY <1>1, <2>2, <2>3
  <2> QED
    BY <1>3, <1>4, <2>4 DEF Ask
<1>5. ASSUME NEW w \in Workers, NEW c \in Ids, Insert(w, c)
      PROVE  QueueKept
  <2>1. /\ QueueTypeOK' /\ RoomsExclusive' /\ RoomsEarned
        /\ command[c] = NoCommand /\ command'[c].status \in {"none", "pending"}
        /\ \A d \in Ids : d # c => command'[d] = command[d]
    BY <1>5, InsertEffect
  <2>2. command[c].status = "none"
    BY <2>1 DEF NoCommand
  <2> QED
    BY <2>1, <2>2 DEF QueueKept, IInv, CompletedWasDone
<1>6. ASSUME NEW w \in Workers, InsertRefused(w)
      PROVE  QueueKept
  <2>1. asking' \in [Workers -> Asked]
    BY <1>1, <1>6, NoCommandType DEF InsertRefused
  <2> QED
    BY <1>3, <1>6, <2>1 DEF InsertRefused
<1> QED
  BY <1>2, <1>4, <1>5, <1>6

(* An ACK of what the journal says. *)
LEMMA AcknowledgeKept ==
    ASSUME IInv, NEW c \in Ids, journal[c].status \in {"completed", "failed"},
           Acknowledge(c, journal[c].status, journal[c].room)
    PROVE  QueueKept
<1>1. QueueTypeOK /\ journal[c].room \in FailedStates \cup {""}
  BY DEF IInv, ControlTypeOK, LoopTypeOK, JournalEntries
<1>2. /\ QueueTypeOK' /\ Ending /\ RoomsEarned
      /\ \A d \in Ids : command'[d] # command[d] => d = c /\ command'[c].status = journal[c].status
  BY <1>1, AcknowledgeEffect
<1>3. journal[c].status = "completed" => c \in did
  BY DEF IInv, DoneInv
<1> QED
  BY <1>2, <1>3, EndingKept

(* Maintenance ends commands, and completes none. *)
LEMMA MaintainKept ==
    ASSUME IInv, Maintain
    PROVE  QueueKept
<1> QueueTypeOK
  BY DEF IInv, ControlTypeOK
<1>1. ASSUME NEW C \in SUBSET Ids, Expire(C)
      PROVE  QueueKept
  <2>1. QueueTypeOK' /\ Ending /\ RoomsEarned
    BY <1>1, MaintainEffect
  <2>2. \A c \in Ids : command'[c] # command[c] => command'[c].status = "failed"
    <3>1. ASSUME NEW c \in Ids, c \in C
          PROVE  command'[c].status = "failed"
      <4>1. command[c] \in CommandRows
        BY DEF QueueTypeOK
      <4>2. command'[c] = [command[c] EXCEPT !.status = "failed"]
        BY <1>1, <3>1 DEF Expire
      <4> QED
        BY <4>1, <4>2 DEF CommandRows
    <3> QED
      BY <1>1, <3>1 DEF Expire
  <2> QED
    BY <2>1, <2>2, EndingKept
<1>2. ASSUME NEW c \in Ids, TimeOut(c)
      PROVE  QueueKept
  <2>1. QueueTypeOK' /\ Ending /\ RoomsEarned
    BY <1>2, TimeOutEffect
  <2>2. \A d \in Ids : command'[d] # command[d] => command'[d].status = "failed"
    <3>1. command[c] \in CommandRows /\ command \in [Ids -> CommandRows]
      BY DEF QueueTypeOK
    <3> DEFINE failed == [[command[c] EXCEPT !.status = "failed"] EXCEPT !.ambiguous = TRUE]
    <3>2. failed.status = "failed"
      BY <3>1 DEF CommandRows
    <3>3. command' = [command EXCEPT ![c] = failed]
      BY <1>2, <3>1 DEF TimeOut
    <3> HIDE DEF failed
    <3> QED
      BY <3>1, <3>2, <3>3
  <2> QED
    BY <2>1, <2>2, EndingKept
<1> QED
  BY <1>1, <1>2 DEF Maintain

(* A heartbeat changes the rooms alone. *)
LEMMA HeartbeatKept ==
    ASSUME IInv, NEW status \in Beats, Heartbeat(status)
    PROVE  QueueKept
<1> QueueTypeOK
  BY DEF IInv, ControlTypeOK
<1>1. /\ room' \in [Rooms -> RoomRows] /\ agent' \in BOOLEAN
      /\ \A r \in Rooms : room'[r].state = "READY" =>
            room[r].state \notin {"CONTROL_PENDING"} \cup FailedStates
  BY HeartbeatRoom
<1>2. UNCHANGED <<command, asking, clock>>
  BY DEF Heartbeat
<1>3. QueueTypeOK'
  BY <1>1, <1>2 DEF QueueTypeOK
<1>4. RoomsExclusive'
  BY <1>2 DEF IInv, RoomsExclusive, Covers, Live
<1>5. RoomsEarned
  BY <1>1 DEF RoomsEarned
<1> QED
  BY <1>2, <1>3, <1>4, <1>5 DEF QueueKept, IInv, CompletedWasDone

----------------------------------------------------------------------------
(* The steps of the bridge *)

(* Faults stay within their bound. *)
LEMMA FaultBound ==
    ASSUME faults \in 0..MaxFaults, Fault
    PROVE  faults' \in 0..MaxFaults
BY FaultsNat DEF Fault

(* What the invariant needs of a step of the bridge. *)
BridgeKept ==
    LoopTypeOK' /\ ReportTypeOK' /\ JournalInv' /\ DoneInv' /\ ExecutingAlone' /\ did \subseteq did'

(* The two parts of a step together. *)
LEMMA StepKept ==
    ASSUME IInv, QueueKept, BridgeKept
    PROVE  IInv' /\ RoomsEarned
<1>1. CompletedWasDone'
  BY DEF QueueKept, BridgeKept, CompletedWasDone
<1>2. ControlTypeOK'
  BY DEF QueueKept, BridgeKept, ControlTypeOK
<1> QED
  BY <1>1, <1>2 DEF QueueKept, BridgeKept, IInv

(* A step that leaves the journal and the command in hand alone. *)
LEMMA LoopUnmoved ==
    ASSUME IInv, QueueKept, ReportTypeOK', UNCHANGED <<journal, outbox, task, did>>,
           faults' \in 0..MaxFaults
    PROVE  IInv' /\ RoomsEarned
<1>1. LoopTypeOK'
  BY DEF IInv, ControlTypeOK, LoopTypeOK
<1>2. JournalInv'
  <2>1. task \in Tasks /\ (task.step # "idle" => task.cmd \in Ids)
    BY DEF IInv, ControlTypeOK, LoopTypeOK
  <2> QED
    BY <2>1 DEF IInv, JournalInv, QueueKept
<1>3. DoneInv'
  BY DEF IInv, DoneInv
<1>4. ExecutingAlone'
  BY DEF IInv, ExecutingAlone, QueueKept
<1> QED
  BY <1>1, <1>2, <1>3, <1>4, StepKept DEF BridgeKept

(* The queue alone moves. *)
LEMMA QueueMoves ==
    ASSUME IInv, QueueKept, UNCHANGED bridge
    PROVE  IInv' /\ RoomsEarned
<1>1. ReportTypeOK'
  BY DEF IInv, ControlTypeOK, ReportTypeOK, bridge
<1>2. faults' \in 0..MaxFaults
  BY DEF IInv, ControlTypeOK, LoopTypeOK, bridge
<1> QED
  BY <1>1, <1>2, LoopUnmoved DEF bridge

(* The reports and the recovery: nothing of the loop, nor of the queue. *)
LEMMA ReportsMove ==
    ASSUME IInv, UNCHANGED queue, ReportTypeOK', UNCHANGED <<journal, outbox, task, did>>,
           faults' \in 0..MaxFaults
    PROVE  IInv' /\ RoomsEarned
<1>1. clock' \in Nat
  BY ClockTicks DEF IInv, ControlTypeOK, queue
<1>2. QueueKept
  BY <1>1, StillKept DEF queue
<1> QED
  BY <1>2, LoopUnmoved

(* What is reported of a room. *)
LEMMA ReportType ==
    ASSUME QueueTypeOK, ReportTypeOK, NEW r \in Rooms
    PROVE  Report(r) \in Reports
<1>1. /\ errors[r] \in Reports /\ okAt[r] \in Nat /\ probe.at \in Nat
      /\ control.active \in Ids \cup {None}
  BY DEF ReportTypeOK, Probes, Controls
<1> DEFINE at == IF okAt[r] # 0 THEN okAt[r] ELSE probe.at
<1>2. at \in Nat
  BY <1>1
<1> HIDE DEF at
<1> DEFINE quiet == [state |-> IF probe.stale THEN "STALE" ELSE "READY", action |-> "",
                     cmd |-> None, at |-> at]
           action == IF control.state = "IDLE" THEN "" ELSE command[control.active].action
           pending == [state |-> "CONTROL_PENDING", cmd |-> control.active, at |-> at,
                       action |-> action]
           mine == control.active # None /\ command[control.active].target = r
<1>3. quiet \in Reports
  BY <1>2 DEF Reports, RoomStates
<1>4. ASSUME mine
      PROVE  pending \in Reports
  <2>1. control.active \in Ids
    BY <1>1, <1>4
  <2>2. command[control.active].action \in AllActions
    BY <2>1 DEF QueueTypeOK, CommandRows
  <2>3. action \in AllActions \cup {""}
    BY <2>2
  <2> HIDE DEF action
  <2> QED
    BY <1>2, <2>1, <2>3 DEF Reports, RoomStates
<1>5. Report(r) = CASE errors[r] # NoError -> errors[r]
                    [] errors[r] = NoError /\ mine -> pending
                    [] OTHER -> quiet
  BY DEF Report, at
<1> HIDE DEF quiet, pending, mine
<1>6. CASE errors[r] # NoError
  BY <1>1, <1>5, <1>6
<1>7. CASE errors[r] = NoError /\ mine
  BY <1>4, <1>5, <1>7
<1>8. CASE errors[r] = NoError /\ ~mine
  BY <1>3, <1>5, <1>8
<1> QED
  BY <1>6, <1>7, <1>8

(* run_once, the recovery, the outages. *)
LEMMA RefreshKept ==
    ASSUME IInv, Refresh \/ GoStale \/ Recover
    PROVE  IInv' /\ RoomsEarned
<1>1. /\ control \in Controls /\ probe \in Probes /\ faults \in 0..MaxFaults
      /\ errors \in [Rooms -> Reports] /\ okAt \in [Rooms -> Nat]
      /\ beat = NoBeat \/ beat \in Beats
  BY DEF IInv, ControlTypeOK, LoopTypeOK, ReportTypeOK
<1>2. clock + 1 \in Nat
  BY ClockTicks DEF IInv, ControlTypeOK
<1>3. UNCHANGED <<queue, journal, outbox, task, errors, okAt, beat, did>>
  BY DEF Refresh, GoStale, Recover
<1>4. control.successes \in 0..RequiredProbes
  BY <1>1 DEF Controls
<1>5. 0 \in 0..RequiredProbes /\ AddSuccess(control.successes) \in 0..RequiredProbes
  BY <1>4 DEF AddSuccess, RequiredProbes
<1>6. faults' \in 0..MaxFaults
  BY <1>1, FaultBound DEF Refresh, GoStale, Recover, RecoverRefused, RecoverProbe, RecoverRead,
                          RecoverRecord, RecoverSet
<1>7. ASSUME control' = control \/ control' = [control EXCEPT !.successes = 0]
               \/ control' = [control EXCEPT !.successes = AddSuccess(@)]
               \/ control' = [control EXCEPT !.state = "IDLE", !.successes = @]
      PROVE  control' \in Controls
  BY <1>1, <1>5, <1>7 DEF Controls, ControlStates
<1>8. control' \in Controls
  BY <1>7 DEF Refresh, GoStale, Recover, RecoverRefused, RecoverProbe, RecoverRead,
              RecoverRecord, RecoverSet, ControlIn
<1>9. ASSUME NEW step \in {"idle", "probe", "record", "set"}
      PROVE  /\ [probe EXCEPT !.recovery = step] \in Probes
             /\ [probe EXCEPT !.at = clock + 1, !.recovery = step] \in Probes
             /\ [probe EXCEPT !.at = clock + 1, !.stale = FALSE] \in Probes
             /\ [probe EXCEPT !.stale = TRUE] \in Probes
  BY <1>1, <1>2, <1>9 DEF Probes
<1>10. probe' \in Probes
  <2>1. CASE Refresh
    BY <1>9, <2>1 DEF Refresh
  <2>2. CASE GoStale
    BY <1>9, <2>2 DEF GoStale
  <2>3. CASE Recover
    <3>1. CASE RecoverRefused
      BY <1>1, <3>1 DEF RecoverRefused
    <3>2. CASE RecoverProbe
      BY <1>9, <3>2 DEF RecoverProbe
    <3>3. CASE RecoverRead
      BY <1>9, <3>3 DEF RecoverRead
    <3>4. CASE RecoverRecord
      <4>1. \/ probe' = [probe EXCEPT !.at = clock + 1, !.recovery = "set"]
            \/ probe' = [probe EXCEPT !.at = clock + 1, !.recovery = "idle"]
        BY <3>4 DEF RecoverRecord
      <4> QED
        BY <1>9, <4>1
    <3>5. CASE RecoverSet
      BY <1>9, <3>5 DEF RecoverSet
    <3> QED
      BY <2>3, <3>1, <3>2, <3>3, <3>4, <3>5 DEF Recover
  <2> QED
    BY <2>1, <2>2, <2>3
<1>11. ReportTypeOK'
  BY <1>1, <1>3, <1>8, <1>10 DEF ReportTypeOK
<1> QED
  BY <1>3, <1>6, <1>11, ReportsMove

(* The heartbeats. *)
LEMMA BeatKept ==
    ASSUME IInv, BeatSend \/ BeatArrives \/ BeatLost
    PROVE  IInv' /\ RoomsEarned
<1>1. /\ QueueTypeOK /\ ReportTypeOK /\ LoopTypeOK
  BY DEF IInv, ControlTypeOK
<1>2. UNCHANGED <<journal, outbox, task, control, errors, okAt, probe, did, faults>>
  BY DEF BeatSend, BeatArrives, BeatLost
<1>3. faults' \in 0..MaxFaults
  BY <1>1, <1>2 DEF LoopTypeOK
<1>4. CASE BeatSend
  <2>1. [r \in Rooms |-> Report(r)] \in [Rooms -> Reports]
    BY <1>1, ReportType
  <2>2. beat' \in Beats
    BY <1>4, <2>1, <1>1 DEF BeatSend, TakesCommands, Beats, ReportTypeOK, Probes
  <2>3. ReportTypeOK'
    BY <1>1, <1>2, <2>2 DEF ReportTypeOK
  <2> QED
    BY <1>2, <1>3, <1>4, <2>3, ReportsMove DEF BeatSend
<1>5. CASE BeatArrives
  <2>1. beat \in Beats /\ Heartbeat(beat)
    BY <1>1, <1>5 DEF BeatArrives, ReportTypeOK
  <2>2. QueueKept
    BY <2>1, HeartbeatKept
  <2>3. ReportTypeOK'
    BY <1>1, <1>2, <1>5 DEF ReportTypeOK, BeatArrives
  <2> QED
    BY <1>2, <1>3, <2>2, <2>3, LoopUnmoved
<1>6. CASE BeatLost
  <2>1. ReportTypeOK'
    BY <1>1, <1>2, <1>6 DEF ReportTypeOK, BeatLost
  <2> QED
    BY <1>2, <1>3, <1>6, <2>1, ReportsMove DEF BeatLost
<1> QED
  BY <1>4, <1>5, <1>6

(* The loop without a command in hand. *)
LEMMA IdleTask == \A step \in {"idle", "sent"}, c \in Ids \cup {None} :
                      [[Idle EXCEPT !.step = step] EXCEPT !.cmd = c] \in Tasks
BY DEF Idle, Tasks, ControlStates

(* A step of the loop that neither executes nor saves: it leaves a command that
   was sent, or none, in hand. *)
LEMMA LoopRests ==
    ASSUME IInv, QueueKept, LoopTypeOK', ReportTypeOK', task'.step \in {"idle", "sent"},
           UNCHANGED <<journal, did>>,
           \A c \in Ids : outbox'[c] => outbox[c] \/ journal[c].status \in {"completed", "failed"}
    PROVE  IInv' /\ RoomsEarned
<1>1. JournalInv'
  <2>1. task'.step # "idle" => journal'[task'.cmd].status # "none"
    BY DEF LoopTypeOK
  <2> QED
    BY <2>1 DEF IInv, JournalInv, QueueKept
<1>2. DoneInv'
  BY DEF IInv, DoneInv
<1>3. ExecutingAlone'
  BY DEF ExecutingAlone
<1> QED
  BY <1>1, <1>2, <1>3, StepKept DEF BridgeKept

(* An ACK is sent, again or answered, or the bridge gives up on it. *)
LEMMA AckKept ==
    ASSUME IInv, (\E c \in Ids : Flush(c)) \/ AckServed \/ AckUnanswered
    PROVE  IInv' /\ RoomsEarned
<1>1. /\ QueueTypeOK /\ ReportTypeOK /\ LoopTypeOK /\ JournalInv
  BY DEF IInv, ControlTypeOK
<1>2. [control EXCEPT !.active = None] \in Controls
  BY <1>1 DEF ReportTypeOK, Controls
<1>3. Idle \in Tasks /\ Idle.step = "idle"
  BY DEF Idle, Tasks, ControlStates
<1>4. ASSUME NEW c \in Ids, Flush(c)
      PROVE  IInv' /\ RoomsEarned
  <2>1. /\ task' = [[Idle EXCEPT !.step = "sent"] EXCEPT !.cmd = c]
        /\ UNCHANGED <<queue, journal, outbox, control, errors, okAt, probe, beat, did, faults>>
        /\ journal[c].status \in {"completed", "failed"}
    BY <1>1, <1>4 DEF Flush, JournalInv
  <2>2. task' \in Tasks
    BY <2>1, IdleTask
  <2>3. task'.step = "sent" /\ task'.cmd = c
    BY <2>1 DEF Idle
  <2>4. LoopTypeOK'
    BY <1>1, <2>1, <2>2, <2>3 DEF LoopTypeOK
  <2>5. ReportTypeOK'
    BY <1>1, <2>1 DEF ReportTypeOK
  <2>6. QueueKept
    BY <1>1, <2>1, ClockTicks, StillKept DEF queue
  <2> QED
    BY <2>1, <2>3, <2>4, <2>5, <2>6, LoopRests
<1>5. CASE AckServed
  <2>1. task.cmd \in Ids /\ journal[task.cmd].status \in {"completed", "failed"}
    BY <1>1, <1>5 DEF AckServed, LoopTypeOK
  <2>2. QueueKept
    BY <1>5, <2>1, AcknowledgeKept DEF AckServed
  <2>3. /\ task' = Idle /\ control' = [control EXCEPT !.active = None]
        /\ outbox' = [outbox EXCEPT ![task.cmd] = FALSE]
        /\ UNCHANGED <<journal, errors, okAt, probe, beat, did, faults>>
    BY <1>5 DEF AckServed, AckEnds
  <2>4. LoopTypeOK'
    BY <1>1, <1>3, <2>3 DEF LoopTypeOK
  <2>5. ReportTypeOK'
    BY <1>1, <1>2, <2>3 DEF ReportTypeOK
  <2>6. \A c \in Ids : outbox'[c] => outbox[c]
    BY <1>1, <2>3 DEF LoopTypeOK
  <2> QED
    BY <1>3, <2>2, <2>3, <2>4, <2>5, <2>6, LoopRests
<1>6. CASE AckUnanswered
  <2>1. /\ task' = Idle /\ control' = [control EXCEPT !.active = None]
        /\ UNCHANGED <<queue, journal, outbox, errors, okAt, probe, beat, did>>
    BY <1>6 DEF AckUnanswered, AckEnds
  <2>2. faults' \in 0..MaxFaults
    BY <1>1, <1>6, FaultBound DEF AckUnanswered, LoopTypeOK
  <2>3. LoopTypeOK'
    BY <1>1, <1>3, <2>1, <2>2 DEF LoopTypeOK
  <2>4. ReportTypeOK'
    BY <1>1, <1>2, <2>1 DEF ReportTypeOK
  <2>5. QueueKept
    BY <1>1, <2>1, ClockTicks, StillKept DEF queue
  <2> QED
    BY <1>3, <2>1, <2>3, <2>4, <2>5, LoopRests
<1> QED
  BY <1>4, <1>5, <1>6

(* A restart. *)
LEMMA CrashKept ==
    ASSUME IInv, Crash
    PROVE  IInv' /\ RoomsEarned
<1>1. /\ QueueTypeOK /\ ReportTypeOK /\ LoopTypeOK
  BY DEF IInv, ControlTypeOK
<1>2. /\ task' = Idle /\ control' = Quiet
      /\ errors' = [r \in Rooms |-> NoError] /\ okAt' = [r \in Rooms |-> 0]
      /\ probe' = [at |-> 0, stale |-> TRUE, recovery |-> "idle"]
      /\ UNCHANGED <<queue, journal, outbox, beat, did>>
  BY DEF Crash, Fresh
<1>3. Idle \in Tasks /\ Idle.step = "idle"
  BY DEF Idle, Tasks, ControlStates
<1>4. Quiet \in Controls /\ NoError \in Reports
  <2>1. 0 \in Nat /\ 0 \in 0..RequiredProbes
    BY DEF RequiredProbes
  <2>2. Quiet \in Controls
    BY <2>1 DEF Quiet, Controls, ControlStates
  <2>3. NoError \in Reports
    BY <2>1 DEF NoError, Reports, RoomStates
  <2> QED
    BY <2>2, <2>3
<1>5. faults' \in 0..MaxFaults
  BY <1>1, FaultBound DEF Crash, LoopTypeOK
<1>6. LoopTypeOK'
  BY <1>1, <1>2, <1>3, <1>5 DEF LoopTypeOK
<1>7. ReportTypeOK'
  BY <1>1, <1>2, <1>4 DEF ReportTypeOK, Probes
<1>8. QueueKept
  BY <1>1, <1>2, ClockTicks, StillKept DEF queue
<1> QED
  BY <1>2, <1>3, <1>6, <1>7, <1>8, LoopRests

(* A result is recorded. *)
LEMMA SaveKept ==
    ASSUME IInv, Save
    PROVE  IInv' /\ RoomsEarned
<1> DEFINE c == task.cmd
<1>1. /\ QueueTypeOK /\ ReportTypeOK /\ LoopTypeOK /\ JournalInv /\ DoneInv
  BY DEF IInv, ControlTypeOK
<1>2. /\ task.step = "save" /\ c \in Ids /\ task.result \in Outcomes
      /\ journal \in [Ids -> JournalEntries] /\ outbox \in [Ids -> BOOLEAN]
  BY <1>1 DEF Save, LoopTypeOK
<1>3. PICK entry \in {Recorded(task.result), Entry("failed", "")} :
          journal' = [journal EXCEPT ![c] = entry]
  BY DEF Save
<1>4. /\ Recorded(task.result) \in JournalEntries
      /\ Recorded(task.result).status \in {"completed", "failed"}
      /\ Recorded(task.result).status = "completed" => task.result = "done"
  BY <1>2 DEF Recorded, Entry, JournalEntries, Outcomes, FailedStates
<1>5. /\ Entry("failed", "") \in JournalEntries /\ Entry("failed", "").status = "failed"
  BY DEF Entry, JournalEntries
<1>6. /\ entry \in JournalEntries /\ entry.status \in {"completed", "failed"}
      /\ entry.status = "completed" => task.result = "done"
  BY <1>3, <1>4, <1>5
<1>7. /\ journal' \in [Ids -> JournalEntries] /\ journal'[c] = entry
      /\ \A d \in Ids : d # c => journal'[d] = journal[d]
  BY <1>2, <1>3, <1>6
<1>8. /\ outbox' = [outbox EXCEPT ![c] = TRUE]
      /\ task' = [[Idle EXCEPT !.step = "sent"] EXCEPT !.cmd = c]
      /\ UNCHANGED <<queue, control, errors, okAt, probe, beat, did>>
  BY DEF Save
<1>9. task' \in Tasks
  BY <1>2, <1>8, IdleTask
<1>10. task'.step = "sent" /\ task'.cmd = c
  BY <1>8 DEF Idle
<1>11. faults' \in 0..MaxFaults
  BY <1>1, FaultBound DEF Save, LoopTypeOK
<1>12. outbox' \in [Ids -> BOOLEAN] /\ \A d \in Ids : d # c => outbox'[d] = outbox[d]
  BY <1>2, <1>8
<1> HIDE DEF c
<1>13. LoopTypeOK'
  BY <1>1, <1>2, <1>6, <1>7, <1>8, <1>9, <1>10, <1>11, <1>12 DEF LoopTypeOK
<1>14. ReportTypeOK'
  BY <1>1, <1>8 DEF ReportTypeOK
<1>15. QueueKept
  BY <1>1, <1>8, ClockTicks, StillKept DEF queue
<1>16. journal[c].status # "none"
  BY <1>1, <1>2 DEF JournalInv, c
<1>17. JournalInv'
  BY <1>1, <1>6, <1>7, <1>8, <1>10, <1>12, <1>16 DEF JournalInv, queue
<1>18. DoneInv'
  <2>1. task.result = "done" => c \in did
    BY <1>1, <1>2 DEF DoneInv, c
  <2> QED
    BY <1>1, <1>6, <1>7, <1>8, <1>10, <2>1 DEF DoneInv
<1>19. ExecutingAlone'
  BY <1>10 DEF ExecutingAlone
<1> QED
  BY <1>8, <1>13, <1>14, <1>15, <1>17, <1>18, <1>19, StepKept DEF BridgeKept

(* The command in hand is executed. *)
LEMMA ExecuteKept ==
    ASSUME IInv, Execute
    PROVE  IInv' /\ RoomsEarned
<1> DEFINE c == task.cmd
           r == command[c].target
<1>1. /\ QueueTypeOK /\ ReportTypeOK /\ LoopTypeOK /\ JournalInv /\ DoneInv
  BY DEF IInv, ControlTypeOK
<1>2. /\ task.step = "execute" /\ c \in Ids /\ r \in Targets /\ command[c].action \in AllActions
  BY <1>1 DEF Execute, LoopTypeOK, QueueTypeOK, CommandRows
<1>3. PICK result \in Results(command[c].action) :
         LET after == StateAfter(result, task.before) IN
          /\ did' = IF result = "done" THEN did \cup {c} ELSE did
          /\ task' = [task EXCEPT !.step = "save", !.result = result]
          /\ control' = [control EXCEPT !.state = after,
                                        !.successes = IF after = "IDLE" THEN @ ELSE 0]
          /\ errors' = CASE result = "global" \/ r = ALL -> errors
                         [] result = "done" /\ r # ALL -> [errors EXCEPT ![r] = NoError]
                         [] OTHER -> [errors EXCEPT ![r] = [state |-> result, cmd |-> c,
                                         action |-> command[c].action, at |-> clock + 2]]
          /\ okAt' = IF result = "done" /\ r # ALL THEN [okAt EXCEPT ![r] = clock + 2] ELSE okAt
  BY DEF Execute, ControlIn, RoomError
<1>4. UNCHANGED <<command, room, agent, asking, journal, outbox, probe, beat, faults>> /\ Now
  BY DEF Execute
<1>5. result \in Outcomes
  BY <1>3 DEF Results, Outcomes, FailedStates
<1> DEFINE after == StateAfter(result, task.before)
<1>6. after \in ControlStates
  BY DEF StateAfter, ControlStates
<1> HIDE DEF c, r, after
<1>7. control' \in Controls
  <2>1. 0 \in 0..RequiredProbes /\ control \in Controls
    BY <1>1 DEF RequiredProbes, ReportTypeOK
  <2>2. \/ control' = [[control EXCEPT !.state = after] EXCEPT !.successes = 0]
        \/ control' = [[control EXCEPT !.state = after] EXCEPT !.successes = control.successes]
    BY <1>3, <2>1 DEF after, Controls
  <2> QED
    BY <1>6, <2>1, <2>2 DEF Controls
<1>8. clock + 2 \in Nat /\ 0 \in Nat
  BY <1>1, ClockTicks
<1>9. okAt' \in [Rooms -> Nat]
  <2>1. okAt \in [Rooms -> Nat]
    BY <1>1 DEF ReportTypeOK
  <2> QED
    BY <1>3, <1>8, <2>1 DEF c, r
<1>10. errors' \in [Rooms -> Reports]
  <2> DEFINE failure == [state |-> result, cmd |-> c, action |-> command[c].action,
                         at |-> clock + 2]
  <2>1. errors \in [Rooms -> Reports]
    BY <1>1 DEF ReportTypeOK
  <2>2. NoError \in Reports
    BY <1>8 DEF NoError, Reports, RoomStates
  <2>3. ASSUME result \in FailedStates
        PROVE  failure \in Reports
    BY <1>2, <1>8, <2>3 DEF FailedStates, Reports, RoomStates, c, r
  <2>4. errors' = CASE result = "global" \/ r = ALL -> errors
                    [] result = "done" /\ r # ALL -> [errors EXCEPT ![r] = NoError]
                    [] OTHER -> [errors EXCEPT ![r] = failure]
    BY <1>3 DEF c, r
  <2> HIDE DEF failure
  <2>5. CASE result = "global" \/ r = ALL
    BY <2>1, <2>4, <2>5
  <2>6. CASE result = "done" /\ r # ALL
    BY <2>1, <2>2, <2>4, <2>6
  <2>7. CASE result \in FailedStates /\ r # ALL
    <3>1. errors' = [errors EXCEPT ![r] = failure]
      BY <2>4, <2>7 DEF FailedStates
    <3> QED
      BY <2>1, <2>3, <2>7, <3>1
  <2> QED
    BY <1>5, <2>5, <2>6, <2>7 DEF Outcomes
<1>11. ReportTypeOK'
  BY <1>1, <1>4, <1>7, <1>9, <1>10 DEF ReportTypeOK
<1>12. task' = [[task EXCEPT !.step = "save"] EXCEPT !.result = result] /\ task \in Tasks
  BY <1>1, <1>3 DEF LoopTypeOK
<1>13. /\ task' \in Tasks /\ task'.step = "save" /\ task'.result = result /\ task'.cmd = c
  BY <1>5, <1>12 DEF Tasks, c
<1>14. did' \subseteq Ids /\ did \subseteq did' /\ (result = "done" => c \in did')
  BY <1>1, <1>2, <1>3 DEF LoopTypeOK, c
<1>15. LoopTypeOK'
  BY <1>1, <1>2, <1>4, <1>5, <1>13, <1>14 DEF LoopTypeOK, c
<1>16. QueueKept
  BY <1>1, <1>4, ClockTicks, StillKept
<1>17. JournalInv'
  BY <1>1, <1>2, <1>4, <1>13 DEF JournalInv, c
<1>18. DoneInv'
  BY <1>1, <1>4, <1>13, <1>14 DEF DoneInv
<1>19. ExecutingAlone'
  BY <1>2, <1>4, <1>13 DEF IInv, ExecutingAlone, c
<1> QED
  BY <1>11, <1>14, <1>15, <1>16, <1>17, <1>18, <1>19, StepKept DEF BridgeKept

(* A command is claimed, by a poll that is answered or not. *)
LEMMA ClaimKept ==
    ASSUME IInv, NEW c \in Ids, Receive(c) \/ ReceiveLost(c)
    PROVE  IInv' /\ RoomsEarned
<1>1. /\ QueueTypeOK /\ ReportTypeOK /\ LoopTypeOK /\ JournalInv /\ DoneInv
  BY DEF IInv, ControlTypeOK
<1>2. /\ task.step = "idle" /\ Claim(c)
      /\ UNCHANGED <<errors, okAt, probe, beat, did>>
  BY DEF Receive, ReceiveLost
<1>3. /\ QueueTypeOK' /\ RoomsEarned
      /\ command[c].status = "pending" /\ command'[c].status = "claimed"
      /\ command'[c].target = command[c].target /\ command'[c].action = command[c].action
      /\ \A d \in Ids : d # c => command'[d] = command[d] /\ command[d].status # "claimed"
  BY <1>1, <1>2, ClaimEffect
<1>4. RoomsExclusive'
  <2>1. \A d \in Ids : Live(d)' = Live(d) /\ command'[d].target = command[d].target
    BY <1>3 DEF Live
  <2> SUFFICES ASSUME NEW d \in Ids, NEW e \in Ids, d # e, Live(d)', Live(e)'
               PROVE  Covers(command'[d].target) \cap Covers(command'[e].target) = {}
    BY DEF RoomsExclusive, Covers
  <2> QED
    BY <2>1 DEF IInv, RoomsExclusive
<1>5. CompletedWasDone'
  BY <1>2, <1>3 DEF IInv, CompletedWasDone
<1>6. journal[c].status = "none" /\ ~outbox[c]
  BY <1>1, <1>3 DEF JournalInv, LoopTypeOK, JournalEntries
<1>7. faults' \in 0..MaxFaults
  BY <1>1, FaultBound DEF Receive, ReceiveLost, LoopTypeOK
<1>8. ASSUME ReportTypeOK', LoopTypeOK', JournalInv', DoneInv', ExecutingAlone'
      PROVE  IInv' /\ RoomsEarned
  BY <1>3, <1>4, <1>5, <1>8 DEF IInv, ControlTypeOK
<1>9. ASSUME UNCHANGED <<journal, outbox, task, control>>
      PROVE  IInv' /\ RoomsEarned
  <2>1. ReportTypeOK'
    BY <1>1, <1>2, <1>9 DEF ReportTypeOK
  <2>2. LoopTypeOK'
    BY <1>1, <1>2, <1>7, <1>9 DEF LoopTypeOK
  <2>3. JournalInv'
    BY <1>1, <1>2, <1>3, <1>9 DEF JournalInv
  <2>4. DoneInv' /\ ExecutingAlone'
    BY <1>1, <1>2, <1>9 DEF DoneInv, ExecutingAlone
  <2> QED
    BY <1>8, <2>1, <2>2, <2>3, <2>4
<1>10. ASSUME NEW status \in {"executing", "failed"},
              journal' = [journal EXCEPT ![c] = Entry(status, "")],
              outbox' = outbox \/ (status = "failed" /\ outbox' = [outbox EXCEPT ![c] = TRUE]),
              control' \in Controls, task' \in Tasks,
              \/ UNCHANGED task
              \/ task'.step = "execute" /\ task'.cmd = c
              \/ task'.step = "sent" /\ task'.cmd = c /\ status = "failed"
       PROVE  IInv' /\ RoomsEarned
  <2>1. Entry(status, "") \in JournalEntries /\ Entry(status, "").status = status
    BY DEF Entry, JournalEntries
  <2>2. /\ journal' \in [Ids -> JournalEntries] /\ journal'[c].status = status
        /\ \A d \in Ids : d # c => journal'[d] = journal[d]
    BY <1>1, <1>10, <2>1 DEF LoopTypeOK
  <2>3. /\ outbox' \in [Ids -> BOOLEAN] /\ (outbox'[c] => status = "failed")
        /\ \A d \in Ids : d # c => outbox'[d] = outbox[d]
    BY <1>1, <1>6, <1>10 DEF LoopTypeOK
  <2>4. ReportTypeOK'
    BY <1>1, <1>2, <1>10 DEF ReportTypeOK
  <2>5. LoopTypeOK'
    BY <1>1, <1>2, <1>7, <1>10, <2>2, <2>3 DEF LoopTypeOK
  <2>6. JournalInv'
    BY <1>1, <1>2, <1>3, <1>10, <2>2, <2>3 DEF JournalInv
  <2>7. DoneInv'
    BY <1>1, <1>2, <1>10, <2>2 DEF DoneInv
  <2>8. ExecutingAlone'
    BY <1>2, <1>3, <1>10 DEF ExecutingAlone
  <2> QED
    BY <1>8, <2>4, <2>5, <2>6, <2>7, <2>8
<1>11. control \in Controls /\ task \in Tasks /\ control.state \in ControlStates
  BY <1>1 DEF ReportTypeOK, LoopTypeOK, Controls
<1>12. CASE Receive(c) /\ control.state = "ERROR"
  <2>1. /\ journal' = [journal EXCEPT ![c] = Entry("failed", "")]
        /\ outbox' = [outbox EXCEPT ![c] = TRUE]
        /\ task' = [[Idle EXCEPT !.step = "sent"] EXCEPT !.cmd = c]
        /\ control' = control
    BY <1>12 DEF Receive
  <2>2. task' \in Tasks
    BY <2>1, IdleTask
  <2>3. task'.step = "sent" /\ task'.cmd = c
    BY <2>1 DEF Idle
  <2> QED
    BY <1>10, <1>11, <2>1, <2>2, <2>3
<1>13. CASE Receive(c) /\ control.state # "ERROR"
  <2>1. /\ journal' = [journal EXCEPT ![c] = Entry("executing", "")]
        /\ outbox' = outbox
        /\ \/ /\ task' = [Idle EXCEPT !.step = "execute", !.cmd = c, !.before = control.state]
              /\ control' = [state |-> "BUSY", active |-> c, successes |-> 0]
           \/ UNCHANGED <<task, control>>
    BY <1>1, <1>13 DEF Receive, ControlIn, ReportTypeOK, Controls
  <2>2. CASE UNCHANGED <<task, control>>
    BY <1>10, <1>11, <2>1, <2>2
  <2>3. CASE /\ task' = [Idle EXCEPT !.step = "execute", !.cmd = c, !.before = control.state]
             /\ control' = [state |-> "BUSY", active |-> c, successes |-> 0]
    <3>1. 0 \in 0..RequiredProbes
      BY DEF RequiredProbes
    <3>2. control' \in Controls
      BY <2>3, <3>1 DEF Controls, ControlStates
    <3>3. task' \in Tasks /\ task'.step = "execute" /\ task'.cmd = c
      BY <1>11, <2>3 DEF Idle, Tasks, ControlStates
    <3> QED
      BY <1>10, <2>1, <3>2, <3>3
  <2> QED
    BY <2>1, <2>2, <2>3
<1>14. CASE ReceiveLost(c)
  BY <1>9, <1>14 DEF ReceiveLost
<1> QED
  BY <1>12, <1>13, <1>14

----------------------------------------------------------------------------
(* The invariant *)

(* The first state. *)
LEMMA InitInvariant == ControlInit => IInv
<1> SUFFICES ASSUME QueueInit, BridgeInit
             PROVE  IInv
  BY DEF ControlInit
<1>1. 0 \in Nat /\ 0 \in 0..RequiredProbes /\ 0 \in 0..MaxFaults
  BY FaultsNat DEF RequiredProbes
<1>2. \A c \in Ids : command[c].status = "none" /\ ~Live(c)
  BY DEF QueueInit, NoCommand, Live
<1>3. QueueTypeOK
  BY <1>1, NoCommandType DEF QueueInit, QueueTypeOK, RoomRows, RoomStates
<1>4. LoopTypeOK
  BY <1>1 DEF BridgeInit, LoopTypeOK, Entry, JournalEntries, Idle, Tasks, ControlStates
<1>5. ReportTypeOK
  <2>1. NoError \in Reports
    BY <1>1 DEF NoError, Reports, RoomStates
  <2>2. Quiet \in Controls
    BY <1>1 DEF Quiet, Controls, ControlStates
  <2> QED
    BY <1>1, <2>1, <2>2 DEF BridgeInit, ReportTypeOK, Probes
<1>6. RoomsExclusive /\ CompletedWasDone
  BY <1>2 DEF RoomsExclusive, CompletedWasDone
<1>7. JournalInv /\ DoneInv /\ ExecutingAlone
  BY DEF BridgeInit, JournalInv, DoneInv, ExecutingAlone, Entry, Idle
<1> QED
  BY <1>3, <1>4, <1>5, <1>6, <1>7 DEF IInv, ControlTypeOK

(* Every step keeps the invariant, and no step makes a room ready unearned. *)
LEMMA StepInvariant == IInv /\ [ControlNext]_controlVars => IInv' /\ RoomsEarned
<1> SUFFICES ASSUME IInv, [ControlNext]_controlVars
             PROVE  IInv' /\ RoomsEarned
  OBVIOUS
<1>1. CASE Request
  <2>1. UNCHANGED bridge
    BY <1>1 DEF Request
  <2> QED
    BY <1>1, <2>1, RequestKept, QueueMoves
<1>2. CASE Maintain
  <2>1. UNCHANGED <<journal, outbox, task, control, errors, okAt, probe, beat, did>>
    BY <1>2 DEF Maintain
  <2>2. faults \in 0..MaxFaults /\ ReportTypeOK
    BY DEF IInv, ControlTypeOK, LoopTypeOK
  <2>3. faults' \in 0..MaxFaults
    BY <1>2, <2>2, FaultBound DEF Maintain
  <2>4. ReportTypeOK'
    BY <2>1, <2>2 DEF ReportTypeOK
  <2> QED
    BY <1>2, <2>1, <2>3, <2>4, MaintainKept, LoopUnmoved
<1>3. ASSUME NEW c \in Ids, Receive(c) \/ ReceiveLost(c)
      PROVE  IInv' /\ RoomsEarned
  BY <1>3, ClaimKept
<1>4. ASSUME NEW c \in Ids, AckLate(c)
      PROVE  IInv' /\ RoomsEarned
  <2>1. /\ journal[c].status \in {"completed", "failed"}
        /\ Acknowledge(c, journal[c].status, journal[c].room)
        /\ UNCHANGED bridge
    BY <1>4 DEF AckLate
  <2> QED
    BY <2>1, AcknowledgeKept, QueueMoves
<1>5. CASE (\E c \in Ids : Flush(c)) \/ AckServed \/ AckUnanswered
  BY <1>5, AckKept
<1>6. CASE Work
  BY <1>6, ExecuteKept, SaveKept DEF Work
<1>7. CASE Refresh \/ GoStale \/ Recover
  BY <1>7, RefreshKept
<1>8. CASE BeatSend \/ BeatArrives \/ BeatLost
  BY <1>8, BeatKept
<1>9. CASE Crash
  BY <1>9, CrashKept
<1>10. CASE UNCHANGED controlVars
  <2>1. UNCHANGED queue /\ UNCHANGED bridge
    BY <1>10 DEF controlVars
  <2>2. clock' \in Nat
    BY <2>1, ClockTicks DEF IInv, ControlTypeOK, queue
  <2>3. QueueKept
    BY <2>1, <2>2, StillKept DEF queue
  <2> QED
    BY <2>1, <2>3, QueueMoves
<1> QED
  BY <1>1, <1>2, <1>3, <1>4, <1>5, <1>6, <1>7, <1>8, <1>9, <1>10 DEF ControlNext

(* The invariant holds in every state. *)
LEMMA Invariant == ControlSpec => []IInv
<1>1. ControlInit => IInv
  BY InitInvariant
<1>2. IInv /\ [ControlNext]_controlVars => IInv'
  BY StepInvariant
<1> QED
  BY <1>1, <1>2, PTL DEF ControlSpec

----------------------------------------------------------------------------
(* The theorems *)

(* The tables and the threads have the shapes the code gives them, and a READY
   room names no command (finalRoomControlState, upsertRoomControlStates). *)
THEOREM ControlTypeCorrect == ControlSpec => []ControlTypeOK
<1>1. IInv => ControlTypeOK
  BY DEF IInv
<1> QED
  BY <1>1, Invariant, PTL

(* No two live commands share a room: the trigger of the INSERT suffices,
   whatever requests are between their check and it. *)
THEOREM RoomsStayExclusive == ControlSpec => []RoomsExclusive
<1>1. IInv => RoomsExclusive
  BY DEF IInv
<1> QED
  BY <1>1, Invariant, PTL

(* The command that the bridge executes is the only one claimed. *)
THEOREM RunsAlone == ControlSpec => []ExecutingAlone
<1>1. IInv => ExecutingAlone
  BY DEF IInv
<1> QED
  BY <1>1, Invariant, PTL

(* No ACK, however late or repeated, and no restart shows a command as completed
   that the Manager has not done. *)
THEOREM CompletedStaysTrue == ControlSpec => []CompletedWasDone
<1>1. IInv => CompletedWasDone
  BY DEF IInv
<1> QED
  BY <1>1, Invariant, PTL

(* A pending or failed room becomes ready by the completion of the command it
   names and by nothing else, the reports of the bridge included. *)
THEOREM ReadyMustBeEarned == ControlSpec => ReadyIsEarned
<1>1. IInv /\ [ControlNext]_controlVars =>
         [\A r \in Rooms :
             room[r].state \in {"CONTROL_PENDING"} \cup FailedStates /\ room'[r].state = "READY" =>
                 room[r].cmd # None /\ command'[room[r].cmd].status = "completed"]_controlVars
  BY StepInvariant DEF RoomsEarned
<1> QED
  BY <1>1, Invariant, PTL DEF ControlSpec, ReadyIsEarned

=============================================================================

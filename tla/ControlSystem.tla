---------------------------- MODULE ControlSystem ----------------------------
(***************************************************************************)
(* The control commands end to end: the queue of the cloud (ControlQueue)   *)
(* and the threads of the Store Bridge that execute them at the Legacy      *)
(* Manager, keep their journal and ACK outbox, report the rooms in          *)
(* heartbeats and recover from an error (bridge/jumping_bridge.py).         *)
(*                                                                          *)
(* The Manager is external: an execution is done, fails for its room or     *)
(* fails for the whole Manager.  A claim, an ACK, its answer or a heartbeat *)
(* may be lost, an ACK may be served after its caller has given up, and the *)
(* bridge may stop between any two steps.                                   *)
(***************************************************************************)
EXTENDS ControlQueue

CONSTANTS
    MaxFaults     \* bound on the restarts, failed saves, outages, expiries and losses

ASSUME FaultsNat == MaxFaults \in Nat

VARIABLES
    journal,   \* processed_commands: what was recorded of each command (durable)
    outbox,    \* whether its ACK is pending (durable)
    task,      \* the control loop: the command in hand and how far it is
    control,   \* _control_state, _active_control_* and the recovery successes
    errors,    \* _room_control_errors
    okAt,      \* _room_control_last_success_at
    probe,     \* _manager_probe_at, the age of the last refresh, the recovery thread
    beat,      \* the heartbeat on its way
    did,       \* what the Manager really did
    faults     \* how many faults there were

bridge == <<journal, outbox, task, control, errors, okAt, probe, beat, did, faults>>

controlVars == <<queue, bridge>>

Entry(status, roomState) == [status |-> status, room |-> roomState]

Idle == [step |-> "idle", cmd |-> None, result |-> "", before |-> "IDLE"]

NoError == [state |-> "READY", action |-> "", cmd |-> None, at |-> 0]

Quiet == [state |-> "IDLE", active |-> None, successes |-> 0]

RequiredProbes == 2   \* CONTROL_RECOVERY_REQUIRED_PROBES

NoBeat == <<>>

Fault == faults < MaxFaults /\ faults' = faults + 1

(* What a restart of the bridge forgets. *)
Fresh ==
    /\ task' = Idle
    /\ control' = Quiet
    /\ errors' = [r \in Rooms |-> NoError]
    /\ okAt' = [r \in Rooms |-> 0]
    /\ probe' = [at |-> 0, stale |-> TRUE, recovery |-> "idle"]

BridgeInit ==
    /\ journal = [c \in Ids |-> Entry("none", "")]
    /\ outbox = [c \in Ids |-> FALSE]
    /\ task = Idle /\ control = Quiet
    /\ errors = [r \in Rooms |-> NoError]
    /\ okAt = [r \in Rooms |-> 0]
    /\ probe = [at |-> 0, stale |-> TRUE, recovery |-> "idle"]
    /\ beat = NoBeat /\ did = {} /\ faults = 0

----------------------------------------------------------------------------
(* _control_loop: poll, execute, record, acknowledge *)

(* _set_control_status: only IDLE keeps the probes that were counted. *)
ControlIn(state) ==
    [control EXCEPT !.state = state, !.successes = IF state = "IDLE" THEN @ ELSE 0]

(* _set_room_control_error *)
RoomError(c, state) ==
    [state |-> state, cmd |-> c, action |-> command[c].action, at |-> clock + 2]

(* The polled command is recorded as executing and the bridge is BUSY, unless
   the control state was ERROR when it was claimed: then it fails unexecuted.  A
   save that raises ends the turn of the loop before the execution. *)
Receive(c) ==
    /\ task.step = "idle"
    /\ Claim(c)
    /\ IF control.state = "ERROR"
       THEN /\ journal' = [journal EXCEPT ![c] = Entry("failed", "")]
            /\ outbox' = [outbox EXCEPT ![c] = TRUE]
            /\ task' = [Idle EXCEPT !.step = "sent", !.cmd = c]
            /\ UNCHANGED <<control, faults>>
       ELSE /\ journal' = [journal EXCEPT ![c] = Entry("executing", "")]
            /\ \/ /\ task' = [Idle EXCEPT !.step = "execute", !.cmd = c, !.before = control.state]
                  /\ control' = [ControlIn("BUSY") EXCEPT !.active = c]
                  /\ UNCHANGED faults
               \/ Fault /\ UNCHANGED <<task, control>>
            /\ UNCHANGED outbox
    /\ UNCHANGED <<errors, okAt, probe, beat, did>>

(* Mutant of ReceiveLost: the next poll does not wait for the command in hand. *)
ReceiveLostBeside(c) ==
    /\ Claim(c)
    /\ Fault
    /\ UNCHANGED <<journal, outbox, task, control, errors, okAt, probe, beat, did>>

(* The answer to the poll is lost; the command stays claimed. *)
ReceiveLost(c) ==
    /\ task.step = "idle"
    /\ Claim(c)
    /\ Fault
    /\ UNCHANGED <<journal, outbox, task, control, errors, okAt, probe, beat, did>>

(* What the Manager may answer to an action.  A room's failure names the state
   it leaves the room in. *)
Results(action) ==
    {"done", "CONTROL_FAILED", "global"}
        \cup IF action \in {"set_info", "start"} THEN {"SET_INFO_FAILED"} ELSE {}

(* The control state after a result, given the state before BUSY. *)
StateAfter(result, before) ==
    CASE result = "global" -> "ERROR"
      [] result = "done" /\ before \notin {"DEGRADED", "ERROR"} -> "IDLE"
      [] OTHER -> "DEGRADED"

(* The execution under the Manager's lock, then the error of the room and the
   control state.  An error of all_stop is kept under no room. *)
Execute ==
    LET c == task.cmd
        r == command[c].target
    IN
    /\ task.step = "execute" /\ probe.recovery # "probe"
    /\ \E result \in Results(command[c].action) :
          /\ did' = IF result = "done" THEN did \cup {c} ELSE did
          /\ task' = [task EXCEPT !.step = "save", !.result = result]
          /\ control' = ControlIn(StateAfter(result, task.before))
          /\ errors' = CASE result = "global" \/ r = ALL -> errors
                         [] result = "done" /\ r # ALL -> [errors EXCEPT ![r] = NoError]
                         [] OTHER -> [errors EXCEPT ![r] = RoomError(c, result)]
          /\ okAt' = IF result = "done" /\ r # ALL THEN [okAt EXCEPT ![r] = clock + 2] ELSE okAt
    /\ Now
    /\ UNCHANGED <<command, room, agent, asking, journal, outbox, probe, beat, faults>>

(* Mutant of Recorded: an error of one room does not fail the command. *)
RecordedUnlessGlobal(result) ==
    IF result = "global" THEN Entry("failed", "") ELSE Entry("completed", "")

(* What the journal says of a result. *)
Recorded(result) ==
    CASE result = "done" -> Entry("completed", "")
      [] result = "global" -> Entry("failed", "")
      [] OTHER -> Entry("failed", result)

(* mark_command; when the save of a completed command raises, the handler of
   exceptions records it as failed. *)
Save ==
    LET c == task.cmd IN
    /\ task.step = "save"
    /\ \/ /\ journal' = [journal EXCEPT ![c] = Recorded(task.result)]
          /\ UNCHANGED faults
       \/ /\ Fault /\ task.result = "done"
          /\ journal' = [journal EXCEPT ![c] = Entry("failed", "")]
    /\ outbox' = [outbox EXCEPT ![c] = TRUE]
    /\ task' = [Idle EXCEPT !.step = "sent", !.cmd = c]
    /\ UNCHANGED <<queue, control, errors, okAt, probe, beat, did>>

(* _flush_ack_outbox, at the head of a turn of the loop. *)
Flush(c) ==
    /\ task.step = "idle" /\ outbox[c]
    /\ task' = [Idle EXCEPT !.step = "sent", !.cmd = c]
    /\ UNCHANGED <<queue, journal, outbox, control, errors, okAt, probe, beat, did, faults>>

AckEnds ==
    /\ task' = Idle
    /\ control' = [control EXCEPT !.active = None]

(* POST /api/agent/ack, answered in time: 200, or 409 which the bridge takes as
   an end too. *)
AckServed ==
    /\ task.step = "sent"
    /\ Acknowledge(task.cmd, journal[task.cmd].status, journal[task.cmd].room)
    /\ AckEnds
    /\ outbox' = [outbox EXCEPT ![task.cmd] = FALSE]
    /\ UNCHANGED <<journal, errors, okAt, probe, beat, did, faults>>

(* The bridge gives up on the answer. *)
AckUnanswered ==
    /\ task.step = "sent"
    /\ AckEnds
    /\ Fault
    /\ UNCHANGED <<queue, journal, outbox, errors, okAt, probe, beat, did>>

(* An ACK is served when nobody waits for its answer any more. *)
AckLate(c) ==
    /\ journal[c].status \in {"completed", "failed"}
    /\ task.step = "sent" => task.cmd # c
    /\ Acknowledge(c, journal[c].status, journal[c].room)
    /\ UNCHANGED bridge

----------------------------------------------------------------------------
(* run_once: the state refresh and the recovery *)

AddSuccess(n) == IF n < RequiredProbes THEN n + 1 ELSE n

(* _refresh_state.  The probes it counts while the bridge is IDLE are only
   shown: the count starts again from 0 with every other state. *)
Refresh ==
    /\ probe.recovery = "idle"
    /\ probe' = [probe EXCEPT !.at = clock + 1, !.stale = FALSE]
    /\ UNCHANGED <<queue, journal, outbox, task, control, errors, okAt, beat, did, faults>>

(* The Manager cannot be read for a while. *)
GoStale ==
    /\ Fault
    /\ probe.recovery = "idle" /\ ~probe.stale
    /\ probe' = [probe EXCEPT !.stale = TRUE]
    /\ control' = [control EXCEPT !.successes = 0]
    /\ UNCHANGED <<queue, journal, outbox, task, errors, okAt, beat, did>>

(* Mutant of Unresolved: a command that failed is not resolved either. *)
UnresolvedFailed == \E c \in Ids : journal[c].status \in {"executing", "failed"} \/ outbox[c]

(* has_unresolved_commands *)
Unresolved == \E c \in Ids : journal[c].status = "executing" \/ outbox[c]

MayRecover ==
    /\ control.state \in {"DEGRADED", "ERROR"}
    /\ ~probe.stale /\ control.active = None /\ task.step = "idle"
    /\ ~Unresolved

(* _consider_control_recovery, in the order of its locks: the checks and the
   probe under the Manager's lock; then, the lock released, the record of the
   probe; then the control state. *)
RecoverRefused ==
    /\ probe.recovery = "idle" /\ control.state \in {"DEGRADED", "ERROR"} /\ ~MayRecover
    /\ control' = [control EXCEPT !.successes = 0]
    /\ UNCHANGED <<probe, faults>>

RecoverProbe ==
    /\ probe.recovery = "idle" /\ MayRecover
    /\ probe' = [probe EXCEPT !.recovery = "probe"]
    /\ UNCHANGED <<control, faults>>

RecoverRead ==
    /\ probe.recovery = "probe"
    /\ \/ probe' = [probe EXCEPT !.recovery = "record"] /\ UNCHANGED <<control, faults>>
       \/ /\ Fault
          /\ probe' = [probe EXCEPT !.recovery = "idle"]
          /\ control' = [control EXCEPT !.successes = 0]

RecoverRecord ==
    /\ probe.recovery = "record"
    /\ control' = [control EXCEPT !.successes = AddSuccess(@)]
    /\ probe' = [probe EXCEPT !.at = clock + 1,
                    !.recovery = IF control'.successes >= RequiredProbes THEN "set" ELSE "idle"]
    /\ UNCHANGED faults

RecoverSet ==
    /\ probe.recovery = "set"
    /\ control' = ControlIn("IDLE")
    /\ probe' = [probe EXCEPT !.recovery = "idle"]
    /\ UNCHANGED faults

Recover ==
    /\ RecoverRefused \/ RecoverProbe \/ RecoverRead \/ RecoverRecord \/ RecoverSet
    /\ UNCHANGED <<queue, journal, outbox, task, errors, okAt, beat, did>>

----------------------------------------------------------------------------
(* _heartbeat_loop *)

(* _control_status_snapshot of one room *)
Report(r) ==
    LET at == IF okAt[r] # 0 THEN okAt[r] ELSE probe.at
        quiet == [state |-> IF probe.stale THEN "STALE" ELSE "READY", action |-> "",
                  cmd |-> None, at |-> at]
        mine == control.active # None /\ command[control.active].target = r
    IN  CASE errors[r] # NoError -> errors[r]
          [] errors[r] = NoError /\ mine ->
                [state |-> "CONTROL_PENDING", cmd |-> control.active, at |-> at,
                 action |-> IF control.state = "IDLE" THEN "" ELSE command[control.active].action]
          [] OTHER -> quiet

(* evaluateControlReadiness, of what the next heartbeat says *)
TakesCommands == control.state \notin {"ERROR", "BUSY"} /\ ~probe.stale

BeatSend ==
    /\ beat = NoBeat
    /\ beat' = [ready |-> TakesCommands,
                rooms |-> [r \in Rooms |-> Report(r)]]
    /\ UNCHANGED <<queue, journal, outbox, task, control, errors, okAt, probe, did, faults>>

BeatArrives ==
    /\ beat # NoBeat
    /\ Heartbeat(beat)
    /\ beat' = NoBeat
    /\ UNCHANGED <<journal, outbox, task, control, errors, okAt, probe, did, faults>>

BeatLost ==
    /\ beat # NoBeat /\ beat' = NoBeat
    /\ UNCHANGED <<queue, journal, outbox, task, control, errors, okAt, probe, did, faults>>

Crash ==
    /\ Fault
    /\ Fresh
    /\ UNCHANGED <<queue, journal, outbox, beat, did>>

----------------------------------------------------------------------------

Request ==
    /\ \E w \in Workers :
          \/ \E target \in Targets, action \in Actions : Ask(w, target, action)
          \/ \E c \in Ids : Insert(w, c)
          \/ InsertRefused(w)
    /\ UNCHANGED bridge

Maintain ==
    /\ \/ (\E C \in SUBSET Ids : Expire(C)) /\ Fault
       \/ (\E c \in Ids : TimeOut(c)) /\ UNCHANGED faults
    /\ UNCHANGED <<journal, outbox, task, control, errors, okAt, probe, beat, did>>

Work == Execute \/ Save

ControlNext ==
    \/ Request \/ Maintain
    \/ \E c \in Ids : Receive(c) \/ ReceiveLost(c) \/ Flush(c) \/ AckLate(c)
    \/ Work
    \/ AckServed \/ AckUnanswered
    \/ Refresh \/ GoStale \/ Recover
    \/ BeatSend \/ BeatArrives \/ BeatLost
    \/ Crash

ControlInit == QueueInit /\ BridgeInit

ControlSpec == ControlInit /\ [][ControlNext]_controlVars

(* Every thread of the bridge runs on, the server serves its ACKs, and the
   network loses a message now and then, not for ever. *)
ControlFairness ==
    /\ WF_controlVars(Work)
    /\ WF_controlVars(\E c \in Ids : Flush(c))
    /\ SF_controlVars(AckServed)
    /\ WF_controlVars(Refresh)
    /\ WF_controlVars(Recover)
    /\ WF_controlVars(BeatSend) /\ SF_controlVars(BeatArrives)
    /\ WF_controlVars(Maintain)

FairControlSpec == ControlSpec /\ ControlFairness

----------------------------------------------------------------------------

(* The shapes of the bridge's data *)

JournalEntries == [status : {"none", "executing", "completed", "failed"},
                   room : FailedStates \cup {""}]

Outcomes == {"done", "global"} \cup FailedStates

Tasks == [step : {"idle", "execute", "save", "sent"}, cmd : Ids \cup {None},
          result : Outcomes \cup {""}, before : ControlStates]

Controls == [state : ControlStates, active : Ids \cup {None}, successes : 0..RequiredProbes]

Probes == [at : Nat, stale : BOOLEAN, recovery : {"idle", "probe", "record", "set"}]

Beats == [ready : BOOLEAN, rooms : [Rooms -> Reports]]

LoopTypeOK ==
    /\ journal \in [Ids -> JournalEntries] /\ outbox \in [Ids -> BOOLEAN]
    /\ task \in Tasks
    /\ task.step # "idle" => task.cmd \in Ids
    /\ task.step = "save" => task.result \in Outcomes
    /\ task.step = "sent" => journal[task.cmd].status \in {"completed", "failed"}
    /\ did \subseteq Ids /\ faults \in 0..MaxFaults

ReportTypeOK ==
    /\ control \in Controls /\ probe \in Probes
    /\ errors \in [Rooms -> Reports] /\ okAt \in [Rooms -> Nat]
    /\ beat = NoBeat \/ beat \in Beats

(* Every table and every thread has the shape the code gives it, and a room
   that is READY, or reported so, names no command. *)
ControlTypeOK == QueueTypeOK /\ LoopTypeOK /\ ReportTypeOK

(* Two live commands never share a room, whatever requests overlap: neither two
   commands of a room nor one of a room and an all_stop. *)
RoomsExclusive ==
    \A c, d \in Ids :
        c # d /\ Live(c) /\ Live(d) => Covers(command[c].target) \cap Covers(command[d].target) = {}

(* While the bridge has a command in hand no other one is claimed, so that a
   command whose claim was lost, timed out or was forgotten in a restart never
   runs beside it. *)
ExecutingAlone ==
    task.step \notin {"idle", "sent"} =>
        \A c \in Ids : command[c].status = "claimed" => c = task.cmd

(* A command shown as completed was done by the Manager, through restarts,
   failed saves, and ACKs lost, repeated or late. *)
CompletedWasDone == \A c \in Ids : command[c].status = "completed" => c \in did

(* A pending or failed room becomes ready only by the completion of the command
   its row names; no report of the bridge, old or new, does it.
   db/control.ts:470 *)
ReadyIsEarned ==
    [][\A r \in Rooms :
          room[r].state \in {"CONTROL_PENDING"} \cup FailedStates /\ room'[r].state = "READY" =>
              room[r].cmd # None /\ command'[room[r].cmd].status = "completed"]_controlVars

(* An error of the Manager is over some time after the Manager answers again,
   unless a command is recorded as executing: one that a restart or a failed save
   has left so is never delivered again, and blocks the recovery.
   bridge/test_bridge.py:2158, 2205 *)
ErrorRecovers ==
    (control.state = "ERROR" /\ \A c \in Ids : journal[c].status # "executing")
        ~> (control.state # "ERROR")

=============================================================================

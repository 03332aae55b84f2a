---------------------------- MODULE ManagerRooms ----------------------------
(***************************************************************************)
(* How the bridge drives the Legacy Manager (ManagerUI and _execute in     *)
(* bridge/jumping_bridge.py).  The Manager is a window with a panel for    *)
(* each room.  The bridge fills a panel with a message to the Manager's    *)
(* broker, which nobody acknowledges, looks at the window whether it came, *)
(* and types into the panel otherwise; it presses the buttons of a panel,  *)
(* and a thread of its own confirms the question that a stop opens.  Staff *)
(* use the same window.                                                    *)
(*                                                                         *)
(* The bridge does one command at a time.  `name` is a team with a map.    *)
(* The Manager and the staff are external.                                 *)
(***************************************************************************)
EXTENDS Integers, FiniteSets, FiniteSetsExt

CONSTANTS
  Panels,     \* rooms: numbers, in the order of the window
  Names,
  Serials,    \* names whose map the message of the Manager can carry
  MaxPeople,
  Kinds,      \* commands that come
  MaxJobs,    \* commands in a behaviour (a bound)
  MaxHands,   \* times the staff use the window (a bound)
  Nil

\* What the theorems about this module suppose of the constants.
ManagerConstants ==
  /\ Panels \subseteq Nat /\ Panels # {}
  /\ Names # {}
  /\ MaxPeople \in Nat \ {0} /\ MaxJobs \in Nat

ASSUME ManagerAssumption == ManagerConstants

VARIABLES
  window,     \* the panel of each room
  dialog,     \* the room of the one open stop question, or Nil
  mail,       \* messages on their way to the Manager
  plays,      \* rooms whose start button was pressed and whose game has not begun
  cache,      \* state.rooms: rooms last seen running
  job,        \* the command at work
  press,      \* stop-trigger threads that have not pressed yet; one may outlive its command
  hands,
  due,        \* history: what each room is to show by the last verified command
  kept,       \* history: the people of the room when a skipPeople command came, or 0
  unseen,     \* history: rooms whose game began since the bridge last looked
  still       \* history: rooms where a completed stop ended the game, none begun since

info == <<due, kept>>
stops == <<dialog, press>>
games == <<plays, unseen, still>>
mvars == <<window, mail, cache, job, hands, info, stops, games>>

Nothing == [job |-> 0, name |-> Nil, people |-> 0]
Resting == [pc |-> "idle", id |-> 0, action |-> Nil, room |-> Min(Panels), todo |-> {},
            name |-> Nil, people |-> 0, skip |-> FALSE, target |-> Nil, shows |-> 0]
Messages == [job : 1..MaxJobs, room : Panels, name : Names, people : 1..MaxPeople]

ManagerInit ==
  /\ window = [r \in Panels |->
       [name |-> CHOOSE n \in Names : TRUE, people |-> 1, playing |-> FALSE]]
  /\ dialog = Nil /\ mail = {} /\ plays = {} /\ press = {} /\ hands = 0
  /\ cache = [r \in Panels |-> FALSE]
  /\ job = Resting
  /\ due = [r \in Panels |-> Nothing] /\ kept = 0
  /\ unseen = {} /\ still = {}

At(pc) == job.pc = pc
Rest == [Resting EXCEPT !.id = job.id]
Panel == window[job.room]
Playing == Panel.playing
GoOn(pc) == job' = [job EXCEPT !.pc = pc]
\* The command has failed, for its room or for the whole Manager (ControlSystem has both).
Failed == /\ job' = Rest
          /\ UNCHANGED cache
Promises(r, promise) == due' = [due EXCEPT ![r] = promise]

-----------------------------------------------------------------------------
(* A command comes.                                                        *)

BeginInfo(action, r, name, people, skip) ==
  /\ At("idle") /\ job.id < MaxJobs
  /\ action \in Kinds \cap {"set_info", "start"}
  /\ job' = [Resting EXCEPT !.pc = "read", !.id = job.id + 1, !.action = action, !.room = r,
               !.name = name, !.people = IF skip THEN 0 ELSE people, !.skip = skip]
  /\ kept' = IF skip THEN window[r].people ELSE 0
  /\ UNCHANGED <<window, mail, cache, hands, due, stops, games>>

BeginStop(r) ==
  /\ At("idle") /\ job.id < MaxJobs /\ "stop" \in Kinds
  /\ job' = [Resting EXCEPT !.pc = "halt", !.id = job.id + 1, !.action = "stop", !.room = r]
  /\ kept' = 0
  /\ UNCHANGED <<window, mail, cache, hands, due, stops, games>>

\* What is left to a stop once it has done with its room: all_stop goes on to
\* the next room that was seen running.
NextRoom(todo) ==
  IF todo = {} THEN Rest
  ELSE [job EXCEPT !.pc = "halt", !.room = Min(todo), !.todo = todo \ {Min(todo)}]
Stopped(action, r, todo) ==
  still \cup (IF action = "stop" THEN {r} ELSE IF todo = {} THEN Panels \ unseen ELSE {})

BeginAllStop ==
  /\ At("idle") /\ job.id < MaxJobs /\ "all_stop" \in Kinds
  /\ LET running == {r \in Panels : cache[r]}
     IN /\ job' = IF running = {} THEN [job EXCEPT !.id = @ + 1]
                  ELSE [Resting EXCEPT !.pc = "halt", !.id = job.id + 1, !.action = "all_stop",
                          !.room = Min(running), !.todo = running \ {Min(running)}]
        /\ still' = IF running = {} THEN Stopped("all_stop", Nil, {}) ELSE still
  /\ kept' = 0
  /\ UNCHANGED <<window, mail, plays, cache, hands, due, unseen, stops>>

\* The window, the controls or the status cannot be read, wherever one of them is;
\* or the bridge is not armed.
CannotRead ==
  /\ job.pc \in {"read", "verify", "type", "name", "check", "start", "starting", "halt", "wait"}
  /\ Failed
  /\ UNCHANGED <<window, mail, hands, info, stops, games>>

-----------------------------------------------------------------------------
(* Team, map and people of a room (set_room_info).                         *)

\* Mutant of Matches: a message that was sent has arrived.
MatchesSent(panel) == panel.name \in Names

\* The snapshot of the window is what the command is to make of it.
Matches(panel) == /\ panel.name = job.target
                  /\ job.skip \/ panel.people = job.shows

\* Written and seen: set_info is done, start goes on to the button.
Verified ==
  /\ Promises(job.room, [job |-> job.id, name |-> job.name,
                         people |-> IF job.skip THEN kept ELSE job.people])
  /\ IF job.action = "start" THEN GoOn("start") /\ UNCHANGED cache
     ELSE /\ job' = Rest
          /\ cache' = [cache EXCEPT ![job.room] = FALSE]

\* The panel is read, and the message worked out; a map without a number is typed.
ReadPanel ==
  /\ At("read")
  /\ LET target == IF job.name = Nil THEN Panel.name ELSE job.name
         shows == IF job.people = 0 THEN Panel.people ELSE job.people
         read == [job EXCEPT !.target = target, !.shows = shows]
     IN \/ Playing /\ Failed /\ UNCHANGED due
        \/ /\ ~Playing /\ target \notin Serials
           /\ job' = [job EXCEPT !.pc = "type"]
           /\ Promises(job.room, Nothing) /\ UNCHANGED cache
        \/ /\ ~Playing /\ target \in Serials /\ job.skip /\ Panel.name = target
           /\ Verified
        \/ /\ ~Playing /\ target \in Serials /\ ~(job.skip /\ Panel.name = target)
           /\ job' = [read EXCEPT !.pc = "send"]
           /\ Promises(job.room, Nothing) /\ UNCHANGED cache
  /\ UNCHANGED <<window, mail, hands, kept, stops, games>>

Message == [job |-> job.id, room |-> job.room, name |-> job.target, people |-> job.shows]

Send ==
  /\ At("send")
  /\ mail' = mail \cup {Message}
  /\ GoOn("verify")
  /\ UNCHANGED <<window, cache, hands, info, stops, games>>

\* The button, the connection or the write fails; what was written may still arrive.
SendFails ==
  /\ At("send")
  /\ mail' \in {mail, mail \cup {Message}}
  /\ Failed
  /\ UNCHANGED <<window, hands, info, stops, games>>

\* The window is read until it shows the message, or until the time is up.
Verify ==
  /\ At("verify")
  /\ IF Matches(Panel) THEN Verified
     ELSE GoOn("type") /\ UNCHANGED <<cache, due>>
  /\ UNCHANGED <<window, mail, hands, kept, stops, games>>

\* The panel is to be typed into: what it is to show afterwards is read first.
\* People that are not given are expected to be 0, which no panel shows.
ReadToType ==
  /\ At("type")
  /\ job' = [job EXCEPT !.pc = "name",
               !.target = IF job.name = Nil THEN Panel.name ELSE job.name,
               !.shows = IF job.skip THEN Panel.people ELSE job.people]
  /\ UNCHANGED <<window, mail, cache, hands, info, stops, games>>

Write(field, value) == window' = [window EXCEPT ![job.room][field] = value]

\* Team and map are typed, unless a game is on.
TypeName ==
  /\ At("name") /\ ~Playing
  /\ GoOn("people")
  /\ IF job.name = Nil THEN UNCHANGED window ELSE Write("name", job.name)
  /\ UNCHANGED <<mail, cache, hands, info, stops, games>>
\* The game is on, or the panel did not take it and shows anything.
TypeNameFails ==
  /\ At("name") /\ Failed
  /\ IF Playing THEN UNCHANGED window ELSE \E n \in Names : Write("name", n)
  /\ UNCHANGED <<mail, hands, info, stops, games>>

TypePeople ==
  /\ At("people")
  /\ GoOn("check")
  /\ IF job.skip \/ job.people = 0 THEN UNCHANGED window ELSE Write("people", job.people)
  /\ UNCHANGED <<mail, cache, hands, info, stops, games>>
TypePeopleFails ==
  /\ At("people") /\ ~job.skip /\ job.people # 0
  /\ Failed
  /\ \E p \in 1..MaxPeople : Write("people", p)
  /\ UNCHANGED <<mail, hands, info, stops, games>>

\* What was typed is verified like the message; a mismatch fails the command.
Check ==
  /\ At("check")
  /\ IF Matches(Panel) THEN Verified ELSE Failed /\ UNCHANGED due
  /\ UNCHANGED <<window, mail, hands, kept, stops, games>>

-----------------------------------------------------------------------------
(* The start of a game (_start_room).                                      *)

PressPlay ==
  /\ At("start")
  /\ IF Playing THEN Failed /\ UNCHANGED plays
     ELSE GoOn("starting") /\ plays' = plays \cup {job.room} /\ UNCHANGED cache
  /\ UNCHANGED <<window, mail, hands, unseen, still, info, stops>>

Started ==
  /\ At("starting")
  /\ IF Playing THEN /\ job' = Rest
                     /\ cache' = [cache EXCEPT ![job.room] = TRUE]
                     /\ unseen' = unseen \ {job.room}
     ELSE Failed /\ UNCHANGED unseen
  /\ UNCHANGED <<window, mail, plays, hands, still, info, stops>>

-----------------------------------------------------------------------------
(* The stop of a game (_stop_room): one thread presses the button, which   *)
(* blocks while the question is open, another looks for the question.      *)

\* The room is done with: it was not playing, or plays no more.
RoomDone ==
  /\ job' = NextRoom(job.todo)
  /\ cache' = [cache EXCEPT ![job.room] = FALSE]
  /\ still' = Stopped(job.action, job.room, job.todo)

Halt ==
  /\ At("halt")
  /\ IF Playing
     THEN /\ GoOn("watch")
          /\ press' = press \cup {[job |-> job.id, room |-> job.room]}
          /\ UNCHANGED <<cache, still>>
     ELSE RoomDone /\ UNCHANGED press
  /\ UNCHANGED <<window, mail, plays, hands, unseen, dialog, info>>

\* The thread reads the window anew and presses, perhaps after its command has failed.
IsLate(t) == ~(At("watch") /\ t.job = job.id /\ t.room = job.room)
StopPressed(t) ==
  /\ t \in press /\ dialog = Nil
  /\ press' = press \ {t}
  /\ dialog' = IF window[t.room].playing THEN t.room ELSE Nil
  /\ UNCHANGED <<window, mail, cache, job, hands, games, info>>
PressFails(t) ==
  /\ t \in press
  /\ press' = press \ {t}
  /\ IF IsLate(t) THEN UNCHANGED <<job, cache>> ELSE Failed
  /\ UNCHANGED <<window, mail, hands, dialog, games, info>>

\* The question is answered with yes.
Yes ==
  /\ window' = [window EXCEPT ![dialog].playing = FALSE]
  /\ dialog' = Nil

\* The watcher confirms a stop question by its text; it cannot tell of which room it is.
Confirm ==
  /\ At("watch") /\ dialog # Nil
  /\ Yes
  /\ GoOn("wait")
  /\ UNCHANGED <<mail, cache, hands, press, games, info>>

\* Five seconds without a question; the thread that presses is left alone.
WatchTimeout ==
  /\ At("watch") /\ dialog = Nil
  /\ Failed
  /\ UNCHANGED <<window, mail, hands, stops, games, info>>
\* The question is there and cannot be answered, or is just being answered as the
\* time runs out.
ConfirmFails ==
  /\ At("watch") /\ dialog # Nil
  /\ Failed
  /\ Yes \/ UNCHANGED <<window, dialog>>
  /\ UNCHANGED <<mail, hands, press, games, info>>

\* The status is read until the game is over, or until the time is up.
Wait ==
  /\ At("wait")
  /\ IF Playing THEN Failed /\ UNCHANGED still ELSE RoomDone
  /\ UNCHANGED <<window, mail, plays, hands, unseen, stops, info>>

-----------------------------------------------------------------------------
(* The bridge looks at the rooms between commands (_refresh_state).        *)

RefreshState ==
  /\ At("idle")
  /\ cache' = [r \in Panels |-> window[r].playing]
  /\ unseen' = {}
  /\ UNCHANGED <<window, mail, plays, job, hands, still, stops, info>>

-----------------------------------------------------------------------------
(* The Manager.                                                            *)

\* A message arrives.  One of another command takes the room from the last one.
Arrives(m) ==
  /\ m \in mail
  /\ mail' = mail \ {m}
  /\ window' = [window EXCEPT ![m.room].name = m.name, ![m.room].people = m.people]
  /\ IF due[m.room].job = m.job THEN UNCHANGED due ELSE Promises(m.room, Nothing)
  /\ kept' = IF m.room = job.room /\ m.job # job.id THEN 0 ELSE kept
  /\ UNCHANGED <<cache, job, hands, stops, games>>
Lost(m) ==
  /\ m \in mail
  /\ mail' = mail \ {m}
  /\ UNCHANGED <<window, cache, job, hands, stops, games, info>>

Begun(r) ==
  /\ window' = [window EXCEPT ![r].playing = TRUE]
  /\ unseen' = unseen \cup {r}
  /\ still' = still \ {r}

\* The Manager starts the game a little later, or does not take the button.  While
\* its question is open it does nothing else.
GameBegins(r) ==
  /\ r \in plays /\ dialog = Nil
  /\ plays' = plays \ {r}
  /\ \/ ~window[r].playing /\ Begun(r)
     \/ UNCHANGED <<window, unseen, still>>
  /\ UNCHANGED <<mail, cache, job, press, hands, dialog, info>>

GameEnds(r) ==
  /\ window[r].playing
  /\ window' = [window EXCEPT ![r].playing = FALSE]
  /\ UNCHANGED <<mail, cache, job, hands, stops, games, info>>

-----------------------------------------------------------------------------
(* The staff at the window.                                                *)

Handled == /\ dialog = Nil /\ hands < MaxHands /\ hands' = hands + 1
           /\ UNCHANGED <<mail, cache, job>>

HandEdits(r, name, people) ==
  /\ Handled
  /\ window' = [window EXCEPT ![r].name = name, ![r].people = people]
  /\ Promises(r, Nothing)
  /\ kept' = IF r = job.room THEN 0 ELSE kept
  /\ UNCHANGED <<stops, games>>
HandStarts(r) ==
  /\ Handled /\ ~window[r].playing
  /\ Begun(r)
  /\ UNCHANGED <<plays, stops, info>>
HandAsks(r) ==
  /\ Handled /\ window[r].playing
  /\ dialog' = r
  /\ UNCHANGED <<window, press, games, info>>
HandAnswers ==
  /\ dialog # Nil
  /\ \/ Yes
     \/ dialog' = Nil /\ UNCHANGED window
  /\ UNCHANGED <<mail, cache, job, press, hands, games, info>>

-----------------------------------------------------------------------------
ManagerNext ==
  \/ \E a \in {"set_info", "start"}, r \in Panels, n \in Names \cup {Nil},
        p \in 0..MaxPeople, k \in BOOLEAN : BeginInfo(a, r, n, p, k)
  \/ \E r \in Panels : BeginStop(r)
  \/ BeginAllStop
  \/ CannotRead
  \/ ReadPanel \/ Send \/ SendFails \/ Verify
  \/ ReadToType \/ TypeName \/ TypeNameFails \/ TypePeople \/ TypePeopleFails \/ Check
  \/ PressPlay \/ Started
  \/ Halt \/ Confirm \/ WatchTimeout \/ ConfirmFails \/ Wait
  \/ \E t \in press : StopPressed(t) \/ PressFails(t)
  \/ RefreshState
  \/ \E m \in mail : Arrives(m) \/ Lost(m)
  \/ \E r \in Panels : GameBegins(r) \/ GameEnds(r)
  \/ \E r \in Panels, n \in Names, p \in 1..MaxPeople : HandEdits(r, n, p)
  \/ \E r \in Panels : HandStarts(r) \/ HandAsks(r)
  \/ HandAnswers

ManagerSpec == ManagerInit /\ [][ManagerNext]_mvars
-----------------------------------------------------------------------------
TypeOK ==
  /\ window \in [Panels -> [name : Names, people : 1..MaxPeople, playing : BOOLEAN]]
  /\ dialog \in Panels \cup {Nil}
  /\ mail \subseteq Messages
  /\ press \subseteq [job : 1..MaxJobs, room : Panels]

\* What a command wrote and verified stays in the panel: the team and map it gave,
\* the people it gave, or those it was told to leave alone, until the staff, the
\* next command or the message of an earlier one write to the room.  (A message is
\* not acknowledged and may come when the command has gone on to type.)
ShownAsAsked ==
  \A r \in Panels :
    /\ due[r].name \in {Nil, window[r].name}
    /\ due[r].people \in {0, window[r].people}

\* A command that leaves the people alone never changes them, on any of its ways.
PeopleLeftAlone ==
  job.skip /\ kept # 0 => window[job.room].people = kept

\* A stop that was reported completed has ended the game, and an all_stop that was
\* reported completed has ended every game the bridge had seen: it gives up at the
\* first room that it cannot stop.
StoppedIsOver == \A r \in still : ~window[r].playing

\* The Manager shows and does what the bridge reports of it.
ManagerIsReal == TypeOK /\ ShownAsAsked /\ PeopleLeftAlone /\ StoppedIsOver
=============================================================================

------------------------- MODULE ManagerRooms_proofs -------------------------
(***************************************************************************)
(* What is proved of the bridge at the window of the Legacy Manager, for   *)
(* any rooms, teams, commands and hands at the window: a panel shows what  *)
(* the bridge verified, people that are to be left alone are, and a stop   *)
(* that was reported completed has ended the game.                         *)
(***************************************************************************)
EXTENDS ManagerRooms, TLAPS, WellFoundedInduction

-----------------------------------------------------------------------------
(* The invariant.                                                          *)

\* The command has read the panel and is not yet done with it.
Writing == job.pc \in {"send", "verify", "type", "name", "people", "check"}
\* The command knows what the panel is to show.
Aimed == job.pc \in {"send", "verify", "name", "people", "check"}
Stopping == job.pc \in {"halt", "watch", "wait"}

Steps == {"idle", "read", "send", "verify", "type", "name", "people", "check", "start", "starting",
          "halt", "watch", "wait"}
Orders == {"set_info", "start", "stop", "all_stop", Nil}
Command == [pc : Steps, id : 0..MaxJobs, action : Orders, room : Panels, todo : SUBSET Panels,
            name : Names \cup {Nil}, people : 0..MaxPeople, skip : BOOLEAN,
            target : Names \cup {Nil}, shows : 0..MaxPeople]
JobOK ==
  /\ job \in Command
  /\ job.pc # "idle" => job.id \in 1..MaxJobs
  /\ job.pc = "send" => job.target \in Names /\ job.shows \in 1..MaxPeople

HistoryOK ==
  /\ cache \in [Panels -> BOOLEAN]
  /\ due \in [Panels -> [job : 0..MaxJobs, name : Names \cup {Nil}, people : 0..MaxPeople]]
  /\ kept \in 0..MaxPeople
  /\ unseen \subseteq Panels /\ still \subseteq Panels

\* What a command aims at is what it was given; one that leaves the people
\* alone aims at those the room had.
AimOK ==
  /\ job.pc = "idle" \/ Stopping => ~job.skip
  /\ job.skip => job.people = 0
  /\ Aimed => /\ job.name \in {Nil, job.target}
              /\ ~job.skip => job.people \in {0, job.shows}
  /\ job.pc = "send" /\ job.skip => kept \in {0, job.shows}

\* Nothing is promised of the room that is being written to, and its game, if
\* there is one, began behind the back of the bridge.
WritingOK ==
  Writing => /\ due[job.room] = Nothing
             /\ window[job.room].playing => job.room \in unseen

\* What the command at work sent is what it was given; a stop sends nothing.
OwnMail ==
  \A m \in mail : m.job = job.id /\ job.pc # "idle" =>
    /\ ~Stopping /\ m.room = job.room
    /\ job.name \in {Nil, m.name} /\ job.people \in {0, m.people}
    /\ job.skip => kept \in {0, m.people}

\* An all_stop has ended what it has done with.
RestIsOver ==
  Stopping /\ job.action # "stop" =>
    \A r \in Panels \ (unseen \cup job.todo \cup {job.room}) : ~window[r].playing

\* A message says what was promised when its command was verified.
MailOK ==
  /\ \A r \in Panels : due[r].job <= job.id
  /\ \A m \in mail :
       /\ m.job <= job.id
       /\ due[m.room].job = m.job => /\ due[m.room].name \in {Nil, m.name}
                                     /\ due[m.room].people \in {0, m.people}

\* A game is one that the bridge saw or one that it has not had time to see.
GamesKnown == \A r \in Panels : window[r].playing => cache[r] \/ r \in unseen

\* What holds whatever command is at work, and what holds of that command.
WorldOK == TypeOK /\ ShownAsAsked /\ StoppedIsOver /\ HistoryOK /\ MailOK /\ GamesKnown
WorkOK == JobOK /\ PeopleLeftAlone /\ AimOK /\ WritingOK /\ OwnMail /\ RestIsOver

MInv == WorldOK /\ WorkOK

-----------------------------------------------------------------------------
(* The operators.                                                          *)

\* The least of some rooms is one of them.
LEMMA LeastRoom ==
  ASSUME ManagerConstants, NEW S \in SUBSET Panels, S # {}
  PROVE  Min(S) \in S
<1> DEFINE R == {ss \in Nat \X Nat : ss[1] < ss[2]}
<1>1. IsWellFoundedOn(R, Nat)
  BY NatLessThanWellFounded DEF OpToRel
<1>2. S \subseteq Nat
  BY DEF ManagerConstants
<1> HIDE DEF R
<1>3. PICK m \in S : \A y \in S : ~(<<y, m>> \in R)
  BY <1>1, <1>2, WFMin
<1>4. ASSUME NEW y \in S PROVE m <= y
  <2>1. <<y, m>> \notin R
    BY <1>3
  <2>2. <<y, m>> \in Nat \X Nat /\ <<y, m>>[1] = y /\ <<y, m>>[2] = m
    BY <1>2
  <2>3. ~(y < m)
    BY <2>1, <2>2 DEF R
  <2> QED
    BY <1>2, <2>3
<1> QED
  BY <1>4 DEF Min

\* A bridge that rests does nothing that could be wrong.
LEMMA AtRest ==
  ASSUME ManagerConstants, MInv, job' = Rest
  PROVE  WorkOK' /\ job'.id = job.id
<1>1. Min(Panels) \in Panels
  BY LeastRoom DEF ManagerConstants
<1>2. job' = [pc |-> "idle", id |-> job.id, action |-> Nil, room |-> Min(Panels), todo |-> {},
              name |-> Nil, people |-> 0, skip |-> FALSE, target |-> Nil, shows |-> 0]
  BY DEF Rest, Resting
<1> HIDE DEF Rest
<1>3. JobOK' /\ job'.id = job.id /\ job'.pc = "idle" /\ ~job'.skip
  <2>1. job.id \in 0..MaxJobs /\ 0 \in 0..MaxPeople
    BY DEF MInv, WorkOK, JobOK, Command, ManagerConstants
  <2> QED
    BY <1>1, <1>2, <2>1 DEF JobOK, Command, Steps, Orders
<1>4. ~Writing' /\ ~Aimed' /\ ~Stopping'
  BY <1>3 DEF Writing, Aimed, Stopping
<1>5. AimOK' /\ PeopleLeftAlone' /\ WritingOK' /\ OwnMail' /\ RestIsOver'
  BY <1>2, <1>3, <1>4 DEF AimOK, PeopleLeftAlone, WritingOK, OwnMail, RestIsOver
<1> QED
  BY <1>3, <1>5 DEF WorkOK

\* What holds of the world does not depend on the command, but for its number.
LEMMA WorldStands ==
  ASSUME MInv, UNCHANGED <<window, dialog, mail, press, cache, due, unseen, still>>,
         kept' \in 0..MaxPeople, job.id \in Nat, job'.id \in Nat, job.id <= job'.id
  PROVE  WorldOK'
<1>1. TypeOK' /\ ShownAsAsked' /\ StoppedIsOver' /\ GamesKnown' /\ HistoryOK'
  BY DEF MInv, WorldOK, TypeOK, ShownAsAsked, StoppedIsOver, GamesKnown, HistoryOK
<1>2. MailOK'
  <2>1. \A r \in Panels : due[r].job \in Nat
    BY DEF MInv, WorldOK, HistoryOK
  <2>2. \A m \in mail : m.job \in Nat
    BY DEF MInv, WorldOK, TypeOK, Messages
  <2> QED
    BY <2>1, <2>2 DEF MInv, WorldOK, MailOK
<1> QED
  BY <1>1, <1>2 DEF WorldOK

\* A command that ends, and leaves the world as it was.
LEMMA EndKeeps ==
  ASSUME ManagerConstants, MInv, job' = Rest,
         UNCHANGED <<window, dialog, mail, press, cache, due, kept, unseen, still>>
  PROVE  MInv'
<1>1. WorkOK' /\ job'.id = job.id
  BY AtRest
<1>2. kept \in 0..MaxPeople /\ job.id \in Nat
  BY DEF MInv, WorldOK, WorkOK, HistoryOK, JobOK, Command
<1> QED
  BY <1>1, <1>2, WorldStands DEF MInv

-----------------------------------------------------------------------------
(* A command comes.                                                        *)

LEMMA BeginInfoKeeps ==
  ASSUME ManagerConstants, MInv, NEW a \in {"set_info", "start"}, NEW r \in Panels, NEW n \in Names \cup {Nil},
         NEW p \in 0..MaxPeople, NEW k \in BOOLEAN, BeginInfo(a, r, n, p, k)
  PROVE  MInv'
<1>1. job' = [pc |-> "read", id |-> job.id + 1, action |-> a, room |-> r, todo |-> {}, name |-> n,
              people |-> IF k THEN 0 ELSE p, skip |-> k, target |-> Nil, shows |-> 0]
  BY DEF BeginInfo, Resting
<1>2. job.id \in Nat /\ job.id < MaxJobs /\ MaxJobs \in Nat /\ MaxPeople \in Nat /\ At("idle")
  BY DEF MInv, WorkOK, JobOK, Command, ManagerConstants, BeginInfo
<1>3. kept' = IF k THEN window[r].people ELSE 0
  BY DEF BeginInfo
<1>4. window[r].people \in 1..MaxPeople
  BY DEF MInv, WorldOK, TypeOK
<1>5. kept' \in 0..MaxPeople
  BY <1>2, <1>3, <1>4
<1>6. job'.id = job.id + 1 /\ JobOK'
  <2>1. job.id + 1 \in 0..MaxJobs /\ job.id + 1 \in 1..MaxJobs /\ 0 \in 0..MaxPeople
    BY <1>2
  <2> QED
    BY <1>1, <2>1 DEF JobOK, Command, Steps, Orders
<1>7. WorldOK'
  BY <1>2, <1>5, <1>6, WorldStands DEF BeginInfo, stops, games
<1>8. PeopleLeftAlone'
  BY <1>1, <1>3 DEF PeopleLeftAlone, BeginInfo
<1>9. AimOK' /\ WritingOK' /\ RestIsOver'
  BY <1>1 DEF AimOK, WritingOK, RestIsOver, Writing, Aimed, Stopping
<1>10. OwnMail'
  <2>1. \A m \in mail : m.job \in Nat /\ m.job <= job.id
    BY DEF MInv, WorldOK, TypeOK, MailOK, Messages
  <2> QED
    BY <1>2, <1>6, <2>1 DEF OwnMail, BeginInfo
<1> QED
  BY <1>6, <1>7, <1>8, <1>9, <1>10 DEF MInv, WorkOK

LEMMA BeginStopKeeps ==
  ASSUME ManagerConstants, MInv, NEW r \in Panels, BeginStop(r)
  PROVE  MInv'
<1>1. job' = [pc |-> "halt", id |-> job.id + 1, action |-> "stop", room |-> r, todo |-> {}, name |-> Nil,
              people |-> 0, skip |-> FALSE, target |-> Nil, shows |-> 0]
  BY DEF BeginStop, Resting
<1>2. job.id \in Nat /\ job.id < MaxJobs /\ MaxJobs \in Nat /\ MaxPeople \in Nat
  BY DEF MInv, WorkOK, JobOK, Command, ManagerConstants, BeginStop
<1>3. job'.id = job.id + 1 /\ JobOK' /\ kept' \in 0..MaxPeople
  <2>1. job.id + 1 \in 0..MaxJobs /\ job.id + 1 \in 1..MaxJobs /\ 0 \in 0..MaxPeople
    BY <1>2
  <2>2. kept' = 0
    BY DEF BeginStop
  <2> QED
    BY <1>1, <2>1, <2>2 DEF JobOK, Command, Steps, Orders
<1>4. WorldOK'
  BY <1>2, <1>3, WorldStands DEF BeginStop, stops, games
<1>5. PeopleLeftAlone' /\ AimOK' /\ WritingOK' /\ RestIsOver'
  BY <1>1 DEF PeopleLeftAlone, AimOK, WritingOK, RestIsOver, Writing, Aimed, Stopping
<1>6. OwnMail'
  <2>1. \A m \in mail : m.job \in Nat /\ m.job <= job.id
    BY DEF MInv, WorldOK, TypeOK, MailOK, Messages
  <2> QED
    BY <1>2, <1>3, <2>1 DEF OwnMail, BeginStop
<1> QED
  BY <1>3, <1>4, <1>5, <1>6 DEF MInv, WorkOK

\* With no game in sight the bridge has nothing to stop; else it goes on to the
\* first of the rooms it saw running, and every other game is one of the rest.
LEMMA BeginAllStopKeeps ==
  ASSUME ManagerConstants, MInv, BeginAllStop
  PROVE  MInv'
<1> DEFINE running == {r \in Panels : cache[r]}
<1>1. job.id \in Nat /\ job.id < MaxJobs /\ MaxJobs \in Nat /\ MaxPeople \in Nat /\ job.pc = "idle"
  BY DEF MInv, WorkOK, JobOK, Command, ManagerConstants, BeginAllStop, At
<1>2. \A m \in mail : m.job \in Nat /\ m.job <= job.id
  BY DEF MInv, WorldOK, TypeOK, MailOK, Messages
<1>3. \A r \in Panels \ running : window[r].playing => r \in unseen
  BY DEF MInv, WorldOK, GamesKnown
<1>4. UNCHANGED <<window, mail, dialog, press, cache, due, unseen>> /\ kept' = 0
  BY DEF BeginAllStop, stops
<1>5. CASE running = {}
  <2>1. job' = [job EXCEPT !.id = @ + 1] /\ still' = still \cup (Panels \ unseen)
    BY <1>5 DEF BeginAllStop, Stopped
  <2>2. job'.id = job.id + 1 /\ job'.pc = "idle" /\ JobOK' /\ ~job'.skip
    BY <1>1, <2>1 DEF JobOK, Command, MInv, WorkOK, AimOK
  <2>3. StoppedIsOver' /\ HistoryOK'
    BY <1>1, <1>3, <1>4, <1>5, <2>1 DEF StoppedIsOver, HistoryOK, MInv, WorldOK
  <2>4. TypeOK' /\ ShownAsAsked' /\ GamesKnown'
    BY <1>4 DEF TypeOK, ShownAsAsked, GamesKnown, MInv, WorldOK
  <2>5. MailOK'
    <3>1. \A r \in Panels : due[r].job \in Nat
      BY DEF MInv, WorldOK, HistoryOK
    <3> QED
      BY <1>1, <1>2, <1>4, <2>2, <3>1 DEF MInv, WorldOK, MailOK
  <2>6. PeopleLeftAlone' /\ AimOK' /\ WritingOK' /\ RestIsOver' /\ OwnMail'
    BY <2>1, <2>2 DEF PeopleLeftAlone, AimOK, WritingOK, RestIsOver, OwnMail, Writing, Aimed, Stopping,
                      MInv, WorkOK
  <2> QED
    BY <2>2, <2>3, <2>4, <2>5, <2>6 DEF MInv, WorldOK, WorkOK
<1>6. CASE running # {}
  <2>1. Min(running) \in running
    BY <1>6, LeastRoom
  <2> HIDE DEF running
  <2>2. /\ job' = [pc |-> "halt", id |-> job.id + 1, action |-> "all_stop", room |-> Min(running),
                   todo |-> running \ {Min(running)}, name |-> Nil, people |-> 0, skip |-> FALSE,
                   target |-> Nil, shows |-> 0]
        /\ still' = still
    BY <1>6 DEF BeginAllStop, Resting, running
  <2>3. running \subseteq Panels
    BY DEF running
  <2>4. job'.id = job.id + 1 /\ JobOK'
    <3>1. job.id + 1 \in 0..MaxJobs /\ job.id + 1 \in 1..MaxJobs /\ 0 \in 0..MaxPeople
      BY <1>1
    <3>2. Min(running) \in Panels /\ running \ {Min(running)} \in SUBSET Panels
      BY <2>1, <2>3
    <3> QED
      BY <2>2, <3>1, <3>2 DEF JobOK, Command, Steps, Orders
  <2>5. WorldOK'
    BY <1>1, <1>4, <2>2, <2>4, WorldStands
  <2>6. PeopleLeftAlone' /\ AimOK' /\ WritingOK'
    BY <2>2 DEF PeopleLeftAlone, AimOK, WritingOK, Writing, Aimed, Stopping
  <2>7. RestIsOver'
    BY <1>3, <1>4, <2>1, <2>2 DEF RestIsOver
  <2>8. OwnMail'
    BY <1>1, <1>2, <1>4, <2>4 DEF OwnMail
  <2> QED
    BY <2>4, <2>5, <2>6, <2>7, <2>8 DEF MInv, WorkOK
<1> QED
  BY <1>5, <1>6

-----------------------------------------------------------------------------
(* The command works.                                                      *)

LEMMA CannotReadKeeps ==
  ASSUME ManagerConstants, MInv, CannotRead
  PROVE  MInv'
  BY EndKeeps DEF CannotRead, Failed, info, stops, games

\* Nothing is promised.
LEMMA NothingIs ==
  ASSUME ManagerConstants
  PROVE  /\ Nothing \in [job : 0..MaxJobs, name : Names \cup {Nil}, people : 0..MaxPeople]
         /\ Nothing.job = 0 /\ Nothing.name = Nil /\ Nothing.people = 0
<1>1. 0 \in 0..MaxJobs /\ 0 \in 0..MaxPeople
  BY DEF ManagerConstants
<1> QED
  BY <1>1 DEF Nothing

\* A command that goes on to its next step is otherwise as it was.
LEMMA GoesOn ==
  ASSUME MInv, NEW pc \in Steps \ {"idle", "send"}, GoOn(pc), job.pc # "idle"
  PROVE  /\ JobOK' /\ job'.pc = pc
         /\ job'.id = job.id /\ job'.action = job.action /\ job'.room = job.room /\ job'.todo = job.todo
         /\ job'.name = job.name /\ job'.people = job.people /\ job'.skip = job.skip
         /\ job'.target = job.target /\ job'.shows = job.shows
<1>1. job \in Command /\ job.id \in 1..MaxJobs
  BY DEF MInv, WorkOK, JobOK
<1>2. job' = [job EXCEPT !.pc = pc]
  BY DEF GoOn
<1>3. job' \in Command
  BY <1>1, <1>2 DEF Command
<1> QED
  BY <1>1, <1>2, <1>3 DEF JobOK, Command

\* A panel is written to, and what was promised of it is taken back or shown.
LEMMA PanelWritten ==
  ASSUME ManagerConstants, MInv, NEW r \in Panels, TypeOK', HistoryOK',
         \A x \in Panels : window'[x].playing = window[x].playing,
         \A x \in Panels \ {r} : window'[x] = window[x] /\ due'[x] = due[x],
         due'[r] \in {due[r], Nothing},
         due'[r].name \in {Nil, window'[r].name}, due'[r].people \in {0, window'[r].people},
         mail' \subseteq mail, UNCHANGED <<cache, unseen, still>>, job'.id = job.id
  PROVE  WorldOK'
<1>1. ShownAsAsked' /\ StoppedIsOver' /\ GamesKnown'
  BY DEF MInv, WorldOK, TypeOK, ShownAsAsked, StoppedIsOver, HistoryOK, GamesKnown
<1>2. MailOK'
  <2>1. job.id \in Nat /\ \A m \in mail : m.job \in Nat \ {0} /\ m.room \in Panels
    BY DEF MInv, WorldOK, WorkOK, TypeOK, JobOK, Command, Messages
  <2>2. Nothing.job = 0
    BY NothingIs
  <2> QED
    BY <2>1, <2>2 DEF MInv, WorldOK, MailOK
<1> QED
  BY <1>1, <1>2 DEF WorldOK

\* The snapshot is what the command aims at, so that what it promises is shown.
LEMMA VerifiedKeeps ==
  ASSUME ManagerConstants, MInv, Verified, UNCHANGED <<window, mail, kept, stops, games>>,
         job.pc \in {"read", "verify", "check"}, job.name \in {Nil, Panel.name},
         ~job.skip => job.people \in {0, Panel.people},
         job.pc = "read" => ~Playing
  PROVE  MInv'
<1> DEFINE promise == [job |-> job.id, name |-> job.name, people |-> IF job.skip THEN kept ELSE job.people]
<1>1. job \in Command /\ job.id \in 1..MaxJobs /\ job.pc # "idle" /\ job.room \in Panels
  BY DEF MInv, WorkOK, JobOK, Command
<1>2. promise.job = job.id /\ promise.name = job.name /\ promise.people = (IF job.skip THEN kept ELSE job.people)
  OBVIOUS
<1>3. promise \in [job : 0..MaxJobs, name : Names \cup {Nil}, people : 0..MaxPeople]
  BY <1>1 DEF MInv, WorldOK, HistoryOK, Command
<1>4. due' = [due EXCEPT ![job.room] = promise]
  BY DEF Verified, Promises
<1> HIDE DEF promise
<1>5. due' \in [Panels -> [job : 0..MaxJobs, name : Names \cup {Nil}, people : 0..MaxPeople]]
  BY <1>3, <1>4 DEF MInv, WorldOK, HistoryOK
<1>6. due'[job.room] = promise /\ \A x \in Panels \ {job.room} : due'[x] = due[x]
  BY <1>1, <1>4 DEF MInv, WorldOK, HistoryOK
<1>7. job'.id = job.id /\ WorkOK'
  <2>1. CASE job.action = "start"
    <3>1. GoOn("start")
      BY <2>1 DEF Verified
    <3>2. JobOK' /\ job'.pc = "start" /\ job'.id = job.id /\ job'.room = job.room
          /\ job'.name = job.name /\ job'.people = job.people /\ job'.skip = job.skip
      BY <1>1, <3>1, GoesOn DEF Steps
    <3>3. PeopleLeftAlone' /\ AimOK' /\ WritingOK' /\ OwnMail' /\ RestIsOver'
      BY <1>1, <3>2 DEF PeopleLeftAlone, AimOK, WritingOK, OwnMail, RestIsOver, Writing, Aimed, Stopping,
                        MInv, WorkOK
    <3> QED
      BY <3>2, <3>3 DEF WorkOK
  <2>2. CASE job.action # "start"
    BY <2>2, AtRest DEF Verified
  <2> QED
    BY <2>1, <2>2
<1>8. cache' = cache \/ cache' = [cache EXCEPT ![job.room] = FALSE]
  BY DEF Verified
<1>9. TypeOK' /\ HistoryOK' /\ StoppedIsOver'
  BY <1>5, <1>8 DEF MInv, WorldOK, TypeOK, HistoryOK, StoppedIsOver, stops, games
<1>10. ShownAsAsked'
  BY <1>1, <1>2, <1>6 DEF MInv, WorldOK, WorkOK, ShownAsAsked, PeopleLeftAlone, Panel
<1>11. GamesKnown'
  BY <1>1, <1>8 DEF MInv, WorldOK, WorkOK, HistoryOK, GamesKnown, WritingOK, Writing, Playing, Panel, games
<1>12. MailOK'
  <2>1. \A m \in mail : m.room \in Panels /\ m.job \in Nat
    BY DEF MInv, WorldOK, TypeOK, Messages
  <2>2. ASSUME NEW m \in mail, m.room = job.room, m.job = job.id
        PROVE  job.name \in {Nil, m.name} /\ (IF job.skip THEN kept ELSE job.people) \in {0, m.people}
    BY <1>1, <2>2 DEF MInv, WorkOK, OwnMail
  <2> QED
    BY <1>1, <1>2, <1>6, <1>7, <2>1, <2>2 DEF MInv, WorldOK, MailOK
<1> QED
  BY <1>7, <1>9, <1>10, <1>11, <1>12 DEF MInv, WorldOK

LEMMA ReadPanelKeeps ==
  ASSUME ManagerConstants, MInv, ReadPanel
  PROVE  MInv'
<1> DEFINE target == IF job.name = Nil THEN Panel.name ELSE job.name
           shows == IF job.people = 0 THEN Panel.people ELSE job.people
<1>1. /\ job \in Command /\ job.id \in 1..MaxJobs /\ job.pc = "read" /\ job.room \in Panels
      /\ Panel.name \in Names /\ Panel.people \in 1..MaxPeople /\ MaxPeople \in Nat
  BY DEF MInv, WorldOK, WorkOK, JobOK, TypeOK, Command, ReadPanel, At, Panel, ManagerConstants
<1>2. target \in Names /\ shows \in 1..MaxPeople
  BY <1>1 DEF Command
<1>3. UNCHANGED <<window, mail, dialog, press, unseen, still, kept>>
  BY DEF ReadPanel, stops, games
<1>4. ASSUME ~Playing, Promises(job.room, Nothing), UNCHANGED cache, job'.id = job.id
      PROVE  WorldOK' /\ due'[job.room] = Nothing
  <2>1. Nothing \in [job : 0..MaxJobs, name : Names \cup {Nil}, people : 0..MaxPeople]
    BY NothingIs
  <2>2. due'[job.room] = Nothing /\ \A x \in Panels \ {job.room} : due'[x] = due[x]
    BY <1>1, <1>4 DEF Promises, MInv, WorldOK, HistoryOK
  <2>3. TypeOK' /\ HistoryOK'
    BY <1>3, <1>4, <2>1 DEF MInv, WorldOK, TypeOK, HistoryOK, Promises
  <2>4. Nothing.name = Nil /\ Nothing.people = 0
    BY NothingIs
  <2> QED
    BY <1>1, <1>3, <1>4, <2>2, <2>3, <2>4, PanelWritten
<1>5. CASE Playing /\ Failed /\ UNCHANGED due
  BY <1>3, <1>5, EndKeeps DEF Failed
<1>6. CASE ~Playing /\ job' = [job EXCEPT !.pc = "type"] /\ Promises(job.room, Nothing) /\ UNCHANGED cache
  <2>1. JobOK' /\ job'.pc = "type" /\ job'.id = job.id /\ job'.room = job.room
        /\ job'.name = job.name /\ job'.people = job.people /\ job'.skip = job.skip
    BY <1>1, <1>6, GoesOn DEF GoOn, Steps
  <2>2. WorldOK' /\ due'[job.room] = Nothing
    BY <1>4, <1>6, <2>1
  <2>3. PeopleLeftAlone' /\ AimOK' /\ WritingOK' /\ OwnMail' /\ RestIsOver'
    BY <1>1, <1>3, <1>6, <2>1, <2>2
       DEF PeopleLeftAlone, AimOK, WritingOK, OwnMail, RestIsOver, Writing, Aimed, Stopping, Playing, Panel,
           MInv, WorkOK
  <2> QED
    BY <2>1, <2>2, <2>3 DEF MInv, WorkOK
<1>7. CASE ~Playing /\ job.skip /\ Panel.name = target /\ Verified
  BY <1>1, <1>3, <1>7, VerifiedKeeps DEF ReadPanel
<1>8. CASE /\ ~Playing
           /\ job' = [job EXCEPT !.target = target, !.shows = shows, !.pc = "send"]
           /\ Promises(job.room, Nothing) /\ UNCHANGED cache
  <2>1. /\ job'.pc = "send" /\ job'.id = job.id /\ job'.room = job.room /\ job'.name = job.name
        /\ job'.people = job.people /\ job'.skip = job.skip /\ job'.target = target /\ job'.shows = shows
    BY <1>1, <1>8 DEF Command
  <2>2. JobOK'
    <3>1. target \in Names \cup {Nil} /\ shows \in 0..MaxPeople
      BY <1>1, <1>2
    <3> HIDE DEF target, shows
    <3>2. job' \in Command
      BY <1>1, <1>8, <3>1 DEF Command, Steps
    <3> QED
      BY <1>1, <1>2, <2>1, <3>2 DEF JobOK
  <2>3. WorldOK' /\ due'[job.room] = Nothing
    BY <1>4, <1>8, <2>1
  <2>4. PeopleLeftAlone' /\ WritingOK' /\ OwnMail' /\ RestIsOver'
    BY <1>1, <1>3, <1>8, <2>1, <2>3
       DEF PeopleLeftAlone, WritingOK, OwnMail, RestIsOver, Writing, Stopping, Playing, Panel, MInv, WorkOK
  <2>5. AimOK'
    <3>1. job.skip => kept \in {0, shows}
      BY DEF MInv, WorkOK, PeopleLeftAlone, AimOK, Panel
    <3> QED
      BY <1>1, <1>3, <2>1, <3>1 DEF AimOK, Aimed, Stopping, MInv, WorkOK
  <2> QED
    BY <2>2, <2>3, <2>4, <2>5 DEF MInv, WorkOK
<1> QED
  BY <1>5, <1>6, <1>7, <1>8 DEF ReadPanel

\* The message of the command goes out: it says what the command was given.
LEMMA SentKeeps ==
  ASSUME ManagerConstants, MInv, At("send"), mail' \in {mail, mail \cup {Message}},
         UNCHANGED <<window, dialog, press, cache, due, kept, unseen, still>>, job'.id = job.id
  PROVE  WorldOK' /\ Message \in Messages
<1>1. job \in Command /\ job.id \in 1..MaxJobs /\ job.target \in Names /\ job.shows \in 1..MaxPeople
  BY DEF MInv, WorkOK, JobOK, At
<1>2. Message \in Messages /\ Message.job = job.id /\ Message.room = job.room
  BY <1>1 DEF Message, Messages, Command
<1>3. TypeOK'
  BY <1>2 DEF MInv, WorldOK, TypeOK
<1>4. ShownAsAsked' /\ StoppedIsOver' /\ GamesKnown' /\ HistoryOK'
  BY DEF MInv, WorldOK, ShownAsAsked, StoppedIsOver, GamesKnown, HistoryOK
<1>5. due[job.room].job = 0
  BY NothingIs DEF MInv, WorkOK, WritingOK, Writing, At
<1>6. MailOK'
  BY <1>1, <1>2, <1>5 DEF MInv, WorldOK, MailOK
<1> QED
  BY <1>2, <1>3, <1>4, <1>6 DEF WorldOK

LEMMA SendKeeps ==
  ASSUME ManagerConstants, MInv, Send
  PROVE  MInv'
<1>1. UNCHANGED <<window, dialog, press, cache, due, kept, unseen, still>> /\ mail' = mail \cup {Message}
  BY DEF Send, info, stops, games
<1>2. /\ JobOK' /\ job'.pc = "verify" /\ job'.id = job.id /\ job'.room = job.room /\ job'.name = job.name
      /\ job'.people = job.people /\ job'.skip = job.skip /\ job'.target = job.target /\ job'.shows = job.shows
  BY GoesOn DEF Send, At, Steps
<1>3. WorldOK'
  BY <1>1, <1>2, SentKeeps DEF Send
<1>4. job.pc = "send" /\ ~Stopping
  BY DEF Send, At, Stopping
<1>5. PeopleLeftAlone' /\ AimOK' /\ WritingOK' /\ RestIsOver'
  BY <1>1, <1>2, <1>4 DEF PeopleLeftAlone, AimOK, WritingOK, RestIsOver, Writing, Aimed, Stopping, MInv, WorkOK
<1>6. OwnMail'
  <2>1. /\ Message.job = job.id /\ Message.room = job.room /\ Message.name = job.target
        /\ Message.people = job.shows
    BY DEF Message
  <2>2. /\ job.name \in {Nil, job.target} /\ job.people \in {0, job.shows}
        /\ job.skip => kept \in {0, job.shows}
    BY <1>4 DEF MInv, WorkOK, AimOK, Aimed
  <2>3. ~Stopping'
    BY <1>2 DEF Stopping
  <2> QED
    BY <1>1, <1>2, <1>4, <2>1, <2>2, <2>3 DEF OwnMail, MInv, WorkOK
<1> QED
  BY <1>2, <1>3, <1>5, <1>6 DEF MInv, WorkOK

LEMMA SendFailsKeeps ==
  ASSUME ManagerConstants, MInv, SendFails
  PROVE  MInv'
<1>1. WorkOK' /\ job'.id = job.id
  BY AtRest DEF SendFails, Failed
<1>2. WorldOK'
  BY <1>1, SentKeeps DEF SendFails, Failed, info, stops, games
<1> QED
  BY <1>1, <1>2 DEF MInv

\* A command that goes on to write, the window as it was.
LEMMA WritesOn ==
  ASSUME ManagerConstants, MInv, NEW pc \in {"type", "name", "people", "check"},
         job'.pc = pc, job'.id = job.id, job'.room = job.room, job'.name = job.name,
         job'.people = job.people, job'.skip = job.skip, Writing,
         UNCHANGED <<window, dialog, mail, press, cache, due, kept, unseen, still>>
  PROVE  WorldOK' /\ PeopleLeftAlone' /\ WritingOK' /\ OwnMail' /\ RestIsOver'
<1>1. job.id \in Nat /\ kept \in 0..MaxPeople
  BY DEF MInv, WorldOK, WorkOK, JobOK, Command, HistoryOK
<1>2. WorldOK'
  BY <1>1, WorldStands
<1>3. job.pc # "idle" /\ ~Stopping /\ ~Stopping' /\ job'.pc # "send"
  BY DEF Writing, Stopping
<1>4. PeopleLeftAlone' /\ WritingOK' /\ OwnMail' /\ RestIsOver'
  BY <1>3 DEF PeopleLeftAlone, WritingOK, OwnMail, RestIsOver, Writing, MInv, WorkOK
<1> QED
  BY <1>2, <1>4

LEMMA VerifyKeeps ==
  ASSUME ManagerConstants, MInv, Verify
  PROVE  MInv'
<1>1. job.pc = "verify" /\ Aimed /\ Writing
  BY DEF Verify, At, Aimed, Writing
<1>2. CASE Matches(Panel)
  <2>1. job.name \in {Nil, Panel.name} /\ (~job.skip => job.people \in {0, Panel.people})
    BY <1>1, <1>2 DEF Matches, MInv, WorkOK, AimOK
  <2> QED
    BY <1>1, <1>2, <2>1, VerifiedKeeps DEF Verify
<1>3. CASE ~Matches(Panel)
  <2>1. GoOn("type") /\ UNCHANGED <<window, dialog, mail, press, cache, due, kept, unseen, still>>
    BY <1>3 DEF Verify, stops, games
  <2>2. /\ JobOK' /\ job'.pc = "type" /\ job'.id = job.id /\ job'.room = job.room /\ job'.name = job.name
        /\ job'.people = job.people /\ job'.skip = job.skip
    BY <1>1, <2>1, GoesOn DEF Steps
  <2>3. WorldOK' /\ PeopleLeftAlone' /\ WritingOK' /\ OwnMail' /\ RestIsOver'
    BY <1>1, <2>1, <2>2, WritesOn
  <2>4. AimOK'
    BY <2>2 DEF AimOK, Aimed, Stopping, MInv, WorkOK
  <2> QED
    BY <2>2, <2>3, <2>4 DEF MInv, WorkOK
<1> QED
  BY <1>2, <1>3

LEMMA ReadToTypeKeeps ==
  ASSUME ManagerConstants, MInv, ReadToType
  PROVE  MInv'
<1> DEFINE target == IF job.name = Nil THEN Panel.name ELSE job.name
           shows == IF job.skip THEN Panel.people ELSE job.people
<1>1. /\ job \in Command /\ job.id \in 1..MaxJobs /\ job.pc = "type" /\ Writing
      /\ UNCHANGED <<window, dialog, mail, press, cache, due, kept, unseen, still>>
  BY DEF MInv, WorkOK, JobOK, ReadToType, At, Writing, info, stops, games
<1>2. target \in Names \cup {Nil} /\ shows \in 0..MaxPeople
  <2>1. job.room \in Panels /\ job.name \in Names \cup {Nil} /\ job.people \in 0..MaxPeople
    BY <1>1 DEF Command
  <2>2. Panel.name \in Names /\ Panel.people \in 1..MaxPeople
    BY <2>1 DEF MInv, WorldOK, TypeOK, Panel
  <2> QED
    BY <2>1, <2>2 DEF ManagerConstants
<1>3. job' = [job EXCEPT !.pc = "name", !.target = target, !.shows = shows]
  BY DEF ReadToType
<1>4. job.name \in {Nil, target} /\ (~job.skip => job.people \in {0, shows})
  OBVIOUS
<1> HIDE DEF target, shows
<1>5. /\ job' \in Command /\ job'.pc = "name" /\ job'.id = job.id /\ job'.room = job.room
      /\ job'.name = job.name /\ job'.people = job.people /\ job'.skip = job.skip
      /\ job'.target = target /\ job'.shows = shows
  BY <1>1, <1>2, <1>3 DEF Command, Steps
<1>6. JobOK'
  BY <1>1, <1>5 DEF JobOK
<1>7. WorldOK' /\ PeopleLeftAlone' /\ WritingOK' /\ OwnMail' /\ RestIsOver'
  BY <1>1, <1>5, WritesOn
<1>8. AimOK'
  BY <1>4, <1>5 DEF AimOK, Aimed, Stopping, MInv, WorkOK
<1> QED
  BY <1>6, <1>7, <1>8 DEF MInv, WorkOK

\* A field of the panel is typed: nothing is promised of the room.
LEMMA TypedKeeps ==
  ASSUME ManagerConstants, MInv, Writing, NEW field \in {"name", "people"}, NEW value,
         field = "name" => value \in Names, field = "people" => value \in 1..MaxPeople,
         Write(field, value), UNCHANGED <<dialog, mail, press, cache, due, kept, unseen, still>>, job'.id = job.id
  PROVE  /\ WorldOK' /\ \A r \in Panels : window'[r].playing = window[r].playing
         /\ field = "name" => window'[job.room].people = window[job.room].people
<1>1. job.room \in Panels
  BY DEF MInv, WorkOK, JobOK, Command
<1>2. CASE field = "name"
  <2>1. window' = [window EXCEPT ![job.room].name = value]
    BY <1>2 DEF Write
  <2>2. /\ TypeOK' /\ HistoryOK'
        /\ \A x \in Panels : window'[x].playing = window[x].playing /\ window'[x].people = window[x].people
        /\ \A x \in Panels \ {job.room} : window'[x] = window[x]
    BY <1>1, <1>2, <2>1 DEF MInv, WorldOK, TypeOK, HistoryOK
  <2>3. due[job.room].name = Nil /\ due[job.room].people = 0
    BY NothingIs DEF MInv, WorkOK, WritingOK
  <2> QED
    BY <1>1, <2>2, <2>3, PanelWritten
<1>3. CASE field = "people"
  <2>1. window' = [window EXCEPT ![job.room].people = value]
    BY <1>3 DEF Write
  <2>2. /\ TypeOK' /\ HistoryOK'
        /\ \A x \in Panels : window'[x].playing = window[x].playing
        /\ \A x \in Panels \ {job.room} : window'[x] = window[x]
    BY <1>1, <1>3, <2>1 DEF MInv, WorldOK, TypeOK, HistoryOK
  <2>3. due[job.room].name = Nil /\ due[job.room].people = 0
    BY NothingIs DEF MInv, WorkOK, WritingOK
  <2> QED
    BY <1>1, <1>3, <2>2, <2>3, PanelWritten
<1> QED
  BY <1>2, <1>3

LEMMA TypeNameKeeps ==
  ASSUME ManagerConstants, MInv, TypeName
  PROVE  MInv'
<1>1. /\ job \in Command /\ job.pc = "name" /\ Writing /\ job.room \in Panels
      /\ UNCHANGED <<dialog, mail, press, cache, due, kept, unseen, still>>
  BY DEF MInv, WorkOK, JobOK, Command, TypeName, At, Writing, info, stops, games
<1>2. /\ JobOK' /\ job'.pc = "people" /\ job'.id = job.id /\ job'.room = job.room /\ job'.name = job.name
      /\ job'.people = job.people /\ job'.skip = job.skip /\ job'.target = job.target /\ job'.shows = job.shows
  BY <1>1, GoesOn DEF TypeName, Steps
<1>3. AimOK'
  BY <1>1, <1>2 DEF AimOK, Aimed, Stopping, MInv, WorkOK
<1>4. WorldOK' /\ PeopleLeftAlone' /\ WritingOK' /\ OwnMail' /\ RestIsOver'
  <2>1. CASE UNCHANGED window
    BY <1>1, <1>2, <2>1, WritesOn
  <2>2. CASE job.name # Nil /\ Write("name", job.name)
    <3>1. /\ WorldOK' /\ \A r \in Panels : window'[r].playing = window[r].playing
          /\ window'[job.room].people = window[job.room].people
      BY <1>1, <1>2, <2>2, TypedKeeps DEF Command
    <3>2. ~Stopping' /\ Writing' /\ ~Stopping
      BY <1>1, <1>2 DEF Stopping, Writing
    <3>3. PeopleLeftAlone' /\ WritingOK' /\ OwnMail' /\ RestIsOver'
      BY <1>1, <1>2, <3>1, <3>2 DEF PeopleLeftAlone, WritingOK, OwnMail, RestIsOver, MInv, WorkOK
    <3> QED
      BY <3>1, <3>3
  <2> QED
    BY <2>1, <2>2 DEF TypeName
<1> QED
  BY <1>2, <1>3, <1>4 DEF MInv, WorkOK

LEMMA TypeNameFailsKeeps ==
  ASSUME ManagerConstants, MInv, TypeNameFails
  PROVE  MInv'
<1>1. Writing /\ job' = Rest /\ UNCHANGED <<dialog, mail, press, cache, due, kept, unseen, still>>
  BY DEF TypeNameFails, Failed, At, Writing, info, stops, games
<1>2. WorkOK' /\ job'.id = job.id
  BY <1>1, AtRest
<1>3. CASE UNCHANGED window
  BY <1>1, <1>3, EndKeeps
<1>4. ASSUME NEW n \in Names, Write("name", n)
      PROVE  WorldOK'
  BY <1>1, <1>2, <1>4, TypedKeeps
<1> QED
  BY <1>2, <1>3, <1>4 DEF TypeNameFails, MInv

LEMMA TypePeopleKeeps ==
  ASSUME ManagerConstants, MInv, TypePeople
  PROVE  MInv'
<1>1. /\ job \in Command /\ job.pc = "people" /\ Writing /\ job.room \in Panels
      /\ UNCHANGED <<dialog, mail, press, cache, due, kept, unseen, still>>
  BY DEF MInv, WorkOK, JobOK, Command, TypePeople, At, Writing, info, stops, games
<1>2. /\ JobOK' /\ job'.pc = "check" /\ job'.id = job.id /\ job'.room = job.room /\ job'.name = job.name
      /\ job'.people = job.people /\ job'.skip = job.skip /\ job'.target = job.target /\ job'.shows = job.shows
  BY <1>1, GoesOn DEF TypePeople, Steps
<1>3. AimOK'
  BY <1>1, <1>2 DEF AimOK, Aimed, Stopping, MInv, WorkOK
<1>4. WorldOK' /\ PeopleLeftAlone' /\ WritingOK' /\ OwnMail' /\ RestIsOver'
  <2>1. CASE UNCHANGED window
    BY <1>1, <1>2, <2>1, WritesOn
  <2>2. CASE ~job.skip /\ job.people # 0 /\ Write("people", job.people)
    <3>1. job.people \in 1..MaxPeople
      BY <1>1, <2>2 DEF Command, ManagerConstants
    <3>2. WorldOK' /\ \A r \in Panels : window'[r].playing = window[r].playing
      BY <1>1, <1>2, <2>2, <3>1, TypedKeeps
    <3>3. ~Stopping' /\ Writing' /\ ~Stopping
      BY <1>1, <1>2 DEF Stopping, Writing
    <3>4. PeopleLeftAlone' /\ WritingOK' /\ OwnMail' /\ RestIsOver'
      BY <1>1, <1>2, <2>2, <3>2, <3>3 DEF PeopleLeftAlone, WritingOK, OwnMail, RestIsOver, MInv, WorkOK
    <3> QED
      BY <3>2, <3>4
  <2> QED
    BY <2>1, <2>2 DEF TypePeople
<1> QED
  BY <1>2, <1>3, <1>4 DEF MInv, WorkOK

LEMMA TypePeopleFailsKeeps ==
  ASSUME ManagerConstants, MInv, TypePeopleFails
  PROVE  MInv'
<1>1. Writing /\ job' = Rest /\ UNCHANGED <<dialog, mail, press, cache, due, kept, unseen, still>>
  BY DEF TypePeopleFails, Failed, At, Writing, info, stops, games
<1>2. WorkOK' /\ job'.id = job.id
  BY <1>1, AtRest
<1>3. PICK p \in 1..MaxPeople : Write("people", p)
  BY DEF TypePeopleFails
<1>4. WorldOK'
  BY <1>1, <1>2, <1>3, TypedKeeps
<1> QED
  BY <1>2, <1>4 DEF MInv

LEMMA CheckKeeps ==
  ASSUME ManagerConstants, MInv, Check
  PROVE  MInv'
<1>1. job.pc = "check" /\ Aimed /\ Writing
  BY DEF Check, At, Aimed, Writing
<1>2. CASE Matches(Panel)
  <2>1. job.name \in {Nil, Panel.name} /\ (~job.skip => job.people \in {0, Panel.people})
    BY <1>1, <1>2 DEF Matches, MInv, WorkOK, AimOK
  <2> QED
    BY <1>1, <1>2, <2>1, VerifiedKeeps DEF Check
<1>3. CASE ~Matches(Panel)
  BY <1>3, EndKeeps DEF Check, Failed, stops, games
<1> QED
  BY <1>2, <1>3

-----------------------------------------------------------------------------
(* Games.                                                                  *)

LEMMA PressPlayKeeps ==
  ASSUME ManagerConstants, MInv, PressPlay
  PROVE  MInv'
<1>1. UNCHANGED <<window, dialog, mail, press, cache, due, kept, unseen, still>> /\ job.pc = "start"
  BY DEF PressPlay, Failed, At, info, stops
<1>2. CASE Playing
  BY <1>1, <1>2, EndKeeps DEF PressPlay, Failed
<1>3. CASE ~Playing
  <2>1. /\ JobOK' /\ job'.pc = "starting" /\ job'.id = job.id /\ job'.room = job.room /\ job'.name = job.name
        /\ job'.people = job.people /\ job'.skip = job.skip
    BY <1>1, <1>3, GoesOn DEF PressPlay, Steps
  <2>2. WorldOK'
    BY <1>1, <2>1, WorldStands DEF MInv, WorldOK, WorkOK, JobOK, Command, HistoryOK
  <2>3. PeopleLeftAlone' /\ AimOK' /\ WritingOK' /\ OwnMail' /\ RestIsOver'
    BY <1>1, <2>1 DEF PeopleLeftAlone, AimOK, WritingOK, OwnMail, RestIsOver, Writing, Aimed, Stopping,
                      MInv, WorkOK
  <2> QED
    BY <2>1, <2>2, <2>3 DEF MInv, WorkOK
<1> QED
  BY <1>2, <1>3

LEMMA StartedKeeps ==
  ASSUME ManagerConstants, MInv, Started
  PROVE  MInv'
<1>1. UNCHANGED <<window, dialog, mail, press, due, kept, still>> /\ job' = Rest
  BY DEF Started, Failed, info, stops
<1>2. CASE Playing
  <2>1. WorkOK' /\ job'.id = job.id
    BY <1>1, AtRest
  <2>2. cache' = [cache EXCEPT ![job.room] = TRUE] /\ unseen' = unseen \ {job.room}
    BY <1>2 DEF Started
  <2>3. TypeOK' /\ ShownAsAsked' /\ StoppedIsOver' /\ HistoryOK' /\ GamesKnown' /\ MailOK'
    BY <1>1, <2>1, <2>2 DEF MInv, WorldOK, TypeOK, ShownAsAsked, StoppedIsOver, HistoryOK, GamesKnown, MailOK
  <2> QED
    BY <2>1, <2>3 DEF MInv, WorldOK
<1>3. CASE ~Playing
  BY <1>1, <1>3, EndKeeps DEF Started, Failed
<1> QED
  BY <1>2, <1>3

\* The room of a stop does not play: the stop is over, or, of an all_stop, goes on
\* to the next room, and in the end every game that was seen has ended.
LEMMA RoomDoneKeeps ==
  ASSUME ManagerConstants, MInv, Stopping, ~Playing, RoomDone,
         UNCHANGED <<window, dialog, mail, press, due, kept, unseen>>
  PROVE  MInv'
<1>1. job \in Command /\ job.id \in 1..MaxJobs /\ job.room \in Panels /\ job.todo \subseteq Panels /\ job.pc # "idle"
  BY DEF MInv, WorkOK, JobOK, Command, Stopping
<1>2. /\ job' = NextRoom(job.todo) /\ cache' = [cache EXCEPT ![job.room] = FALSE]
      /\ still' = still \cup (IF job.action = "stop" THEN {job.room}
                              ELSE IF job.todo = {} THEN Panels \ unseen ELSE {})
  BY DEF RoomDone, Stopped
<1>3. job'.id = job.id /\ WorkOK'
  <2>1. CASE job.todo = {}
    BY <1>2, <2>1, AtRest DEF NextRoom
  <2>2. CASE job.todo # {}
    <3>1. Min(job.todo) \in job.todo
      BY <1>1, <2>2, LeastRoom
    <3>2. job' = [job EXCEPT !.pc = "halt", !.room = Min(job.todo), !.todo = job.todo \ {Min(job.todo)}]
      BY <1>2, <2>2 DEF NextRoom
    <3>3. Min(job.todo) \in Panels /\ job.todo \ {Min(job.todo)} \in SUBSET Panels
      BY <1>1, <3>1
    <3>4. /\ job' \in Command /\ job'.pc = "halt" /\ job'.id = job.id /\ job'.action = job.action
          /\ job'.room = Min(job.todo) /\ job'.todo = job.todo \ {Min(job.todo)}
          /\ job'.people = job.people /\ job'.skip = job.skip
      BY <1>1, <3>2, <3>3 DEF Command, Steps
    <3>5. JobOK'
      BY <1>1, <3>4 DEF JobOK
    <3>6. ~job.skip
      BY DEF MInv, WorkOK, AimOK
    <3>7. PeopleLeftAlone' /\ AimOK' /\ WritingOK'
      BY <3>4, <3>6 DEF PeopleLeftAlone, AimOK, WritingOK, Writing, Aimed, Stopping, MInv, WorkOK
    <3>8. OwnMail'
      BY <1>1, <3>4 DEF OwnMail, MInv, WorkOK
    <3>9. RestIsOver'
      BY <3>1, <3>4 DEF RestIsOver, MInv, WorkOK, Playing, Panel
    <3> QED
      BY <3>4, <3>5, <3>7, <3>8, <3>9 DEF WorkOK
  <2> QED
    BY <2>1, <2>2
<1>4. TypeOK' /\ ShownAsAsked' /\ MailOK'
  BY <1>3 DEF MInv, WorldOK, TypeOK, ShownAsAsked, MailOK
<1>5. HistoryOK' /\ GamesKnown'
  BY <1>1, <1>2 DEF MInv, WorldOK, HistoryOK, GamesKnown, Playing, Panel
<1>6. StoppedIsOver'
  BY <1>1, <1>2 DEF MInv, WorldOK, WorkOK, StoppedIsOver, RestIsOver, Playing, Panel
<1> QED
  BY <1>3, <1>4, <1>5, <1>6 DEF MInv, WorldOK

\* A stop that goes on with its room.
LEMMA StopsOn ==
  ASSUME ManagerConstants, MInv, Stopping, NEW pc \in {"watch", "wait"}, GoOn(pc),
         UNCHANGED <<mail, kept, unseen>>, \A r \in Panels : window'[r].playing => window[r].playing
  PROVE  WorkOK' /\ job'.id = job.id
<1>1. /\ JobOK' /\ job'.pc = pc /\ job'.id = job.id /\ job'.action = job.action /\ job'.room = job.room
      /\ job'.todo = job.todo /\ job'.people = job.people /\ job'.skip = job.skip
  BY GoesOn DEF Stopping, Steps
<1>2. PeopleLeftAlone' /\ AimOK' /\ WritingOK' /\ OwnMail' /\ RestIsOver'
  BY <1>1 DEF PeopleLeftAlone, AimOK, WritingOK, OwnMail, RestIsOver, Writing, Aimed, Stopping, MInv, WorkOK
<1> QED
  BY <1>1, <1>2 DEF WorkOK

LEMMA HaltKeeps ==
  ASSUME ManagerConstants, MInv, Halt
  PROVE  MInv'
<1>1. Stopping /\ UNCHANGED <<window, dialog, mail, due, kept, unseen>>
  BY DEF Halt, At, Stopping, info
<1>2. CASE Playing
  <2>1. /\ GoOn("watch") /\ press' = press \cup {[job |-> job.id, room |-> job.room]}
        /\ UNCHANGED <<cache, still>>
    BY <1>2 DEF Halt
  <2>2. WorkOK' /\ job'.id = job.id
    BY <1>1, <2>1, StopsOn
  <2>3. job.id \in 1..MaxJobs /\ job.room \in Panels
    BY <1>1 DEF MInv, WorkOK, JobOK, Command, Stopping
  <2>4. TypeOK'
    BY <1>1, <2>1, <2>3 DEF MInv, WorldOK, TypeOK
  <2>5. ShownAsAsked' /\ StoppedIsOver' /\ HistoryOK' /\ MailOK' /\ GamesKnown'
    BY <1>1, <2>1, <2>2 DEF MInv, WorldOK, ShownAsAsked, StoppedIsOver, HistoryOK, MailOK, GamesKnown
  <2> QED
    BY <2>2, <2>4, <2>5 DEF MInv, WorldOK
<1>3. CASE ~Playing
  BY <1>1, <1>3, RoomDoneKeeps DEF Halt
<1> QED
  BY <1>2, <1>3

LEMMA WaitKeeps ==
  ASSUME ManagerConstants, MInv, Wait
  PROVE  MInv'
<1>1. Stopping
  BY DEF Wait, At, Stopping
<1>2. CASE Playing
  BY <1>2, EndKeeps DEF Wait, Failed, info, stops
<1>3. CASE ~Playing
  BY <1>1, <1>3, RoomDoneKeeps DEF Wait, info, stops
<1> QED
  BY <1>2, <1>3

\* A game ends; the question, if one was answered, is gone.
LEMMA GameOver ==
  ASSUME MInv, NEW r \in Panels, window' = [window EXCEPT ![r].playing = FALSE], dialog' \in {dialog, Nil},
         UNCHANGED <<mail, press, cache, due, kept, unseen, still>>, job'.id = job.id
  PROVE  /\ WorldOK'
         /\ \A x \in Panels : /\ window'[x].playing => window[x].playing
                              /\ window'[x].name = window[x].name /\ window'[x].people = window[x].people
<1>1. TypeOK' /\ HistoryOK'
  BY DEF MInv, WorldOK, TypeOK, HistoryOK
<1>2. \A x \in Panels : /\ window'[x].playing => window[x].playing
                       /\ window'[x].name = window[x].name /\ window'[x].people = window[x].people
  BY DEF MInv, WorldOK, TypeOK
<1>3. ShownAsAsked' /\ StoppedIsOver' /\ MailOK' /\ GamesKnown'
  BY <1>2 DEF MInv, WorldOK, ShownAsAsked, StoppedIsOver, MailOK, GamesKnown, HistoryOK
<1> QED
  BY <1>1, <1>2, <1>3 DEF WorldOK

\* A step that leaves the command at its work: no people change in its room and
\* no game begins unseen.
LEMMA WorkGoesOn ==
  ASSUME MInv, UNCHANGED <<mail, job, kept, due, unseen>>,
         \A r \in Panels : /\ window'[r].playing => window[r].playing
                          /\ window'[r].people = window[r].people
  PROVE  WorkOK'
<1>1. job.room \in Panels
  BY DEF MInv, WorkOK, JobOK, Command
<1> QED
  BY <1>1 DEF MInv, WorkOK, JobOK, PeopleLeftAlone, AimOK, WritingOK, OwnMail, RestIsOver, Writing, Aimed, Stopping

LEMMA StopPressedKeeps ==
  ASSUME ManagerConstants, MInv, NEW t \in press, StopPressed(t)
  PROVE  MInv'
<1>1. UNCHANGED <<window, mail, cache, job, due, kept, unseen, still>>
  BY DEF StopPressed, info, games
<1>2. TypeOK'
  BY <1>1 DEF MInv, WorldOK, TypeOK, StopPressed
<1>3. ShownAsAsked' /\ StoppedIsOver' /\ HistoryOK' /\ MailOK' /\ GamesKnown'
  BY <1>1 DEF MInv, WorldOK, ShownAsAsked, StoppedIsOver, HistoryOK, MailOK, GamesKnown
<1>4. WorkOK'
  BY <1>1, WorkGoesOn
<1> QED
  BY <1>2, <1>3, <1>4 DEF MInv, WorldOK

LEMMA PressFailsKeeps ==
  ASSUME ManagerConstants, MInv, NEW t \in press, PressFails(t)
  PROVE  MInv'
<1>1. UNCHANGED <<window, dialog, mail, cache, due, kept, unseen, still>> /\ press' = press \ {t}
  BY DEF PressFails, Failed, info, games
<1>2. WorkOK' /\ job'.id = job.id
  <2>1. CASE UNCHANGED job
    BY <1>1, <2>1, WorkGoesOn
  <2>2. CASE job' = Rest
    BY <2>2, AtRest
  <2> QED
    BY <2>1, <2>2 DEF PressFails, Failed
<1>3. TypeOK'
  BY <1>1 DEF MInv, WorldOK, TypeOK
<1>4. ShownAsAsked' /\ StoppedIsOver' /\ HistoryOK' /\ MailOK' /\ GamesKnown'
  BY <1>1, <1>2 DEF MInv, WorldOK, ShownAsAsked, StoppedIsOver, HistoryOK, MailOK, GamesKnown
<1> QED
  BY <1>2, <1>3, <1>4 DEF MInv, WorldOK

LEMMA ConfirmKeeps ==
  ASSUME ManagerConstants, MInv, Confirm
  PROVE  MInv'
<1>1. /\ Stopping /\ dialog \in Panels
      /\ UNCHANGED <<mail, cache, due, kept, press, unseen, still>>
  BY DEF Confirm, At, Stopping, info, games, MInv, WorldOK, TypeOK
<1>2. job'.id = job.id
  BY <1>1, GoesOn DEF Confirm, Stopping, Steps
<1>3. /\ WorldOK'
      /\ \A r \in Panels : window'[r].playing => window[r].playing
  BY <1>1, <1>2, GameOver DEF Confirm, Yes
<1>4. WorkOK'
  BY <1>1, <1>3, StopsOn DEF Confirm
<1> QED
  BY <1>3, <1>4 DEF MInv

LEMMA ConfirmFailsKeeps ==
  ASSUME ManagerConstants, MInv, ConfirmFails
  PROVE  MInv'
<1>1. /\ job' = Rest /\ dialog \in Panels
      /\ UNCHANGED <<mail, cache, due, kept, press, unseen, still>>
  BY DEF ConfirmFails, Failed, info, games, MInv, WorldOK, TypeOK
<1>2. CASE Yes
  <2>1. WorkOK' /\ job'.id = job.id
    BY <1>1, AtRest
  <2>2. WorldOK'
    BY <1>1, <1>2, <2>1, GameOver DEF Yes
  <2> QED
    BY <2>1, <2>2 DEF MInv
<1>3. CASE UNCHANGED <<window, dialog>>
  BY <1>1, <1>3, EndKeeps
<1> QED
  BY <1>2, <1>3 DEF ConfirmFails

LEMMA WatchTimeoutKeeps ==
  ASSUME ManagerConstants, MInv, WatchTimeout
  PROVE  MInv'
  BY EndKeeps DEF WatchTimeout, Failed, info, stops, games

\* The bridge sees every game.
LEMMA RefreshStateKeeps ==
  ASSUME ManagerConstants, MInv, RefreshState
  PROVE  MInv'
<1>1. /\ UNCHANGED <<window, dialog, mail, press, job, due, kept, still>> /\ job.pc = "idle"
      /\ cache' = [r \in Panels |-> window[r].playing] /\ unseen' = {}
  BY DEF RefreshState, At, info, stops
<1>2. TypeOK' /\ ShownAsAsked' /\ StoppedIsOver' /\ HistoryOK' /\ MailOK' /\ GamesKnown'
  BY <1>1 DEF MInv, WorldOK, TypeOK, ShownAsAsked, StoppedIsOver, HistoryOK, MailOK, GamesKnown
<1>3. WorkOK'
  BY <1>1 DEF MInv, WorkOK, JobOK, PeopleLeftAlone, AimOK, WritingOK, OwnMail, RestIsOver, Writing, Aimed, Stopping
<1> QED
  BY <1>2, <1>3 DEF MInv, WorldOK

-----------------------------------------------------------------------------
(* The Manager and the staff.                                              *)

\* A message comes, early or late: what it changes was not promised otherwise.
LEMMA ArrivesKeeps ==
  ASSUME ManagerConstants, MInv, NEW m \in mail, Arrives(m)
  PROVE  MInv'
<1>1. /\ m.room \in Panels /\ m.name \in Names /\ m.people \in 1..MaxPeople /\ m.job \in 1..MaxJobs
      /\ job.room \in Panels
  BY DEF MInv, WorldOK, WorkOK, TypeOK, Messages, JobOK, Command
<1>2. /\ mail' = mail \ {m} /\ UNCHANGED <<cache, job, dialog, press, unseen, still>>
      /\ window' = [window EXCEPT ![m.room].name = m.name, ![m.room].people = m.people]
  BY DEF Arrives, stops, games
<1>3. /\ window'[m.room].name = m.name /\ window'[m.room].people = m.people
      /\ \A x \in Panels : window'[x].playing = window[x].playing
      /\ \A x \in Panels \ {m.room} : window'[x] = window[x]
  BY <1>1, <1>2 DEF MInv, WorldOK, TypeOK
<1>4. kept' = IF m.room = job.room /\ m.job # job.id THEN 0 ELSE kept
  BY DEF Arrives
<1>5. /\ \A x \in Panels \ {m.room} : due'[x] = due[x]
      /\ due'[m.room] \in {due[m.room], Nothing}
      /\ due'[m.room].name \in {Nil, m.name} /\ due'[m.room].people \in {0, m.people}
      /\ due' \in [Panels -> [job : 0..MaxJobs, name : Names \cup {Nil}, people : 0..MaxPeople]]
  <2>1. CASE due[m.room].job = m.job
    BY <2>1 DEF Arrives, MInv, WorldOK, MailOK, HistoryOK
  <2>2. CASE due[m.room].job # m.job
    BY <1>1, <2>2, NothingIs DEF Arrives, Promises, MInv, WorldOK, HistoryOK
  <2> QED
    BY <2>1, <2>2
<1>6. kept' \in 0..MaxPeople
  BY <1>4 DEF MInv, WorldOK, HistoryOK, ManagerConstants
<1>7. TypeOK' /\ HistoryOK'
  <2>1. TypeOK'
    BY <1>1, <1>2 DEF MInv, WorldOK, TypeOK
  <2>2. HistoryOK'
    BY <1>2, <1>5, <1>6 DEF MInv, WorldOK, HistoryOK
  <2> QED
    BY <2>1, <2>2
<1>8. WorldOK'
  BY <1>1, <1>2, <1>3, <1>5, <1>7, PanelWritten
<1>9. PeopleLeftAlone'
  <2>1. job.skip => job.pc # "idle"
    BY DEF MInv, WorkOK, AimOK
  <2>2. CASE m.room = job.room /\ m.job = job.id
    BY <1>2, <1>3, <1>4, <2>1, <2>2 DEF PeopleLeftAlone, OwnMail, MInv, WorkOK
  <2>3. CASE ~(m.room = job.room /\ m.job = job.id)
    BY <1>1, <1>2, <1>3, <1>4, <2>3 DEF PeopleLeftAlone, MInv, WorkOK
  <2> QED
    BY <2>2, <2>3
<1>10. JobOK' /\ AimOK' /\ OwnMail' /\ RestIsOver'
  BY <1>2, <1>3, <1>4 DEF JobOK, AimOK, OwnMail, RestIsOver, Aimed, Stopping, MInv, WorkOK
<1>11. WritingOK'
  BY <1>1, <1>2, <1>3, <1>5 DEF WritingOK, Writing, MInv, WorkOK
<1> QED
  BY <1>8, <1>9, <1>10, <1>11 DEF MInv, WorkOK

LEMMA LostKeeps ==
  ASSUME ManagerConstants, MInv, NEW m \in mail, Lost(m)
  PROVE  MInv'
<1>1. mail' = mail \ {m} /\ UNCHANGED <<window, cache, job, dialog, press, due, kept, unseen, still>>
  BY DEF Lost, info, stops, games
<1>2. TypeOK' /\ ShownAsAsked' /\ StoppedIsOver' /\ HistoryOK' /\ MailOK' /\ GamesKnown'
  BY <1>1 DEF MInv, WorldOK, TypeOK, ShownAsAsked, StoppedIsOver, HistoryOK, MailOK, GamesKnown
<1>3. WorkOK'
  BY <1>1 DEF MInv, WorkOK, JobOK, PeopleLeftAlone, AimOK, WritingOK, OwnMail, RestIsOver, Writing, Aimed, Stopping
<1> QED
  BY <1>2, <1>3 DEF MInv, WorldOK

\* A game begins behind the back of the bridge.
LEMMA BegunKeeps ==
  ASSUME MInv, NEW r \in Panels, Begun(r), UNCHANGED <<dialog, mail, press, cache, job, due, kept>>
  PROVE  MInv'
<1>1. /\ window' = [window EXCEPT ![r].playing = TRUE]
      /\ unseen' = unseen \cup {r} /\ still' = still \ {r}
  BY DEF Begun
<1>2. TypeOK' /\ HistoryOK'
  BY <1>1 DEF MInv, WorldOK, TypeOK, HistoryOK
<1>3. /\ \A x \in Panels : window'[x].name = window[x].name /\ window'[x].people = window[x].people
      /\ \A x \in Panels \ {r} : window'[x] = window[x]
  BY <1>1 DEF MInv, WorldOK, TypeOK
<1>4. ShownAsAsked' /\ StoppedIsOver' /\ MailOK' /\ GamesKnown'
  BY <1>1, <1>3 DEF MInv, WorldOK, ShownAsAsked, StoppedIsOver, MailOK, GamesKnown, HistoryOK
<1>5. job.room \in Panels
  BY DEF MInv, WorkOK, JobOK, Command
<1>6. WorkOK'
  BY <1>1, <1>3, <1>5 DEF MInv, WorkOK, JobOK, PeopleLeftAlone, AimOK, WritingOK, OwnMail, RestIsOver,
                          Writing, Aimed, Stopping
<1> QED
  BY <1>2, <1>4, <1>6 DEF MInv, WorldOK

LEMMA GameBeginsKeeps ==
  ASSUME ManagerConstants, MInv, NEW r \in Panels, GameBegins(r)
  PROVE  MInv'
<1>1. UNCHANGED <<dialog, mail, press, cache, job, due, kept>>
  BY DEF GameBegins, info
<1>2. CASE Begun(r)
  BY <1>1, <1>2, BegunKeeps
<1>3. CASE UNCHANGED <<window, unseen, still>>
  BY <1>1, <1>3, WorkGoesOn, WorldStands DEF MInv, WorldOK, WorkOK, HistoryOK, JobOK, Command
<1> QED
  BY <1>2, <1>3 DEF GameBegins

LEMMA GameEndsKeeps ==
  ASSUME ManagerConstants, MInv, NEW r \in Panels, GameEnds(r)
  PROVE  MInv'
<1>1. UNCHANGED <<dialog, mail, press, cache, job, due, kept, unseen, still>>
  BY DEF GameEnds, info, stops, games
<1>2. /\ WorldOK'
      /\ \A x \in Panels : /\ window'[x].playing => window[x].playing
                           /\ window'[x].people = window[x].people
  BY <1>1, GameOver DEF GameEnds
<1>3. WorkOK'
  BY <1>1, <1>2, WorkGoesOn
<1> QED
  BY <1>2, <1>3 DEF MInv

LEMMA HandEditsKeeps ==
  ASSUME ManagerConstants, MInv, NEW r \in Panels, NEW n \in Names, NEW p \in 1..MaxPeople, HandEdits(r, n, p)
  PROVE  MInv'
<1>1. /\ UNCHANGED <<mail, cache, job, dialog, press, unseen, still>>
      /\ window' = [window EXCEPT ![r].name = n, ![r].people = p]
      /\ due' = [due EXCEPT ![r] = Nothing] /\ kept' = IF r = job.room THEN 0 ELSE kept
  BY DEF HandEdits, Handled, Promises, stops, games
<1>2. /\ \A x \in Panels : window'[x].playing = window[x].playing
      /\ \A x \in Panels \ {r} : window'[x] = window[x] /\ due'[x] = due[x]
      /\ due'[r] = Nothing
  BY <1>1 DEF MInv, WorldOK, TypeOK, HistoryOK
<1>3. TypeOK'
  BY <1>1 DEF MInv, WorldOK, TypeOK
<1>4. HistoryOK'
  BY <1>1, NothingIs DEF MInv, WorldOK, HistoryOK, ManagerConstants
<1>5. WorldOK'
  BY <1>1, <1>2, <1>3, <1>4, NothingIs, PanelWritten
<1>6. job.room \in Panels
  BY DEF MInv, WorkOK, JobOK, Command
<1>7. PeopleLeftAlone' /\ JobOK' /\ AimOK' /\ OwnMail'
  <2>1. kept' = 0 \/ (kept' = kept /\ window'[job.room] = window[job.room])
    BY <1>1, <1>2, <1>6
  <2>2. PeopleLeftAlone'
    BY <1>1, <2>1 DEF MInv, WorkOK, PeopleLeftAlone
  <2>3. AimOK'
    BY <1>1, <2>1 DEF MInv, WorkOK, AimOK, Aimed, Stopping
  <2>4. JobOK' /\ OwnMail'
    BY <1>1, <2>1 DEF MInv, WorkOK, JobOK, OwnMail, Stopping
  <2> QED
    BY <2>2, <2>3, <2>4
<1>8. WritingOK' /\ RestIsOver'
  BY <1>1, <1>2, <1>6 DEF MInv, WorkOK, WritingOK, RestIsOver, Writing, Stopping
<1> QED
  BY <1>5, <1>7, <1>8 DEF MInv, WorkOK

LEMMA HandStartsKeeps ==
  ASSUME ManagerConstants, MInv, NEW r \in Panels, HandStarts(r)
  PROVE  MInv'
  BY BegunKeeps DEF HandStarts, Handled, info, stops

LEMMA HandAsksKeeps ==
  ASSUME ManagerConstants, MInv, NEW r \in Panels, HandAsks(r)
  PROVE  MInv'
<1>1. UNCHANGED <<window, mail, press, cache, job, due, kept, unseen, still>> /\ dialog' = r
  BY DEF HandAsks, Handled, info, games
<1>2. TypeOK' /\ ShownAsAsked' /\ StoppedIsOver' /\ HistoryOK' /\ MailOK' /\ GamesKnown'
  BY <1>1 DEF MInv, WorldOK, TypeOK, ShownAsAsked, StoppedIsOver, HistoryOK, MailOK, GamesKnown
<1>3. WorkOK'
  BY <1>1, WorkGoesOn
<1> QED
  BY <1>2, <1>3 DEF MInv, WorldOK

LEMMA HandAnswersKeeps ==
  ASSUME ManagerConstants, MInv, HandAnswers
  PROVE  MInv'
<1>1. UNCHANGED <<mail, press, cache, job, due, kept, unseen, still>> /\ dialog \in Panels
  BY DEF HandAnswers, info, games, MInv, WorldOK, TypeOK
<1>2. CASE Yes
  <2>1. /\ WorldOK'
        /\ \A x \in Panels : /\ window'[x].playing => window[x].playing
                             /\ window'[x].people = window[x].people
    BY <1>1, <1>2, GameOver DEF Yes
  <2> QED
    BY <1>1, <2>1, WorkGoesOn DEF MInv
<1>3. CASE dialog' = Nil /\ UNCHANGED window
  <2>1. TypeOK' /\ ShownAsAsked' /\ StoppedIsOver' /\ HistoryOK' /\ MailOK' /\ GamesKnown'
    BY <1>1, <1>3 DEF MInv, WorldOK, TypeOK, ShownAsAsked, StoppedIsOver, HistoryOK, MailOK, GamesKnown
  <2> QED
    BY <1>1, <1>3, <2>1, WorkGoesOn DEF MInv, WorldOK
<1> QED
  BY <1>2, <1>3 DEF HandAnswers

-----------------------------------------------------------------------------
(* The theorems.                                                           *)

\* A step of nobody.
LEMMA StutterKeeps ==
  ASSUME MInv, UNCHANGED mvars
  PROVE  MInv'
<1>1. UNCHANGED <<window, dialog, mail, press, cache, job, due, kept, unseen, still>>
  BY DEF mvars, info, stops, games
<1>2. WorldOK'
  BY <1>1, WorldStands DEF MInv, WorldOK, WorkOK, HistoryOK, JobOK, Command
<1> QED
  BY <1>1, <1>2, WorkGoesOn DEF MInv

LEMMA InitHolds ==
  ASSUME ManagerConstants, ManagerInit
  PROVE  MInv
<1>1. (CHOOSE n \in Names : TRUE) \in Names /\ 1 \in 1..MaxPeople /\ 0 \in 0..MaxPeople /\ 0 \in 0..MaxJobs
  BY DEF ManagerConstants
<1>2. Min(Panels) \in Panels
  BY LeastRoom DEF ManagerConstants
<1>3. TypeOK
  BY <1>1 DEF ManagerInit, TypeOK
<1>4. JobOK /\ job.pc = "idle" /\ job.id = 0 /\ ~job.skip
  BY <1>1, <1>2 DEF ManagerInit, Resting, JobOK, Command, Steps, Orders
<1>5. HistoryOK /\ \A r \in Panels : due[r] = Nothing
  BY <1>1, NothingIs DEF ManagerInit, HistoryOK
<1>6. ShownAsAsked /\ StoppedIsOver /\ MailOK /\ GamesKnown
  BY <1>4, <1>5, NothingIs DEF ManagerInit, ShownAsAsked, StoppedIsOver, MailOK, GamesKnown
<1>7. PeopleLeftAlone /\ AimOK /\ WritingOK /\ OwnMail /\ RestIsOver
  BY <1>4 DEF ManagerInit, Resting, PeopleLeftAlone, AimOK, WritingOK, OwnMail, RestIsOver, Writing, Aimed, Stopping
<1> QED
  BY <1>3, <1>4, <1>5, <1>6, <1>7 DEF MInv, WorldOK, WorkOK

LEMMA NextKeeps ==
  ASSUME ManagerConstants, MInv, ManagerNext
  PROVE  MInv'
  BY BeginInfoKeeps, BeginStopKeeps, BeginAllStopKeeps, CannotReadKeeps, ReadPanelKeeps, SendKeeps, SendFailsKeeps,
     VerifyKeeps, ReadToTypeKeeps, TypeNameKeeps, TypeNameFailsKeeps, TypePeopleKeeps, TypePeopleFailsKeeps,
     CheckKeeps, PressPlayKeeps, StartedKeeps, HaltKeeps, ConfirmKeeps, WatchTimeoutKeeps, ConfirmFailsKeeps,
     WaitKeeps, StopPressedKeeps, PressFailsKeeps, RefreshStateKeeps, ArrivesKeeps, LostKeeps, GameBeginsKeeps,
     GameEndsKeeps, HandEditsKeeps, HandStartsKeeps, HandAsksKeeps, HandAnswersKeeps DEF ManagerNext

\* Whatever the bridge reported of the Manager is so: a panel shows the team and
\* the people of the last command that was verified, until somebody else writes to
\* it; a command that leaves the people alone does; and a room whose stop was
\* reported completed does not play until a game begins.
THEOREM ManagerReal == ManagerSpec => []ManagerIsReal
<1>1. ManagerInit => MInv
  BY ManagerAssumption, InitHolds
<1>2. MInv /\ [ManagerNext]_mvars => MInv'
  BY ManagerAssumption, NextKeeps, StutterKeeps
<1>3. MInv => ManagerIsReal
  BY DEF MInv, WorldOK, WorkOK, ManagerIsReal
<1> QED
  BY <1>1, <1>2, <1>3, PTL DEF ManagerSpec
=============================================================================

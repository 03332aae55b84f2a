------------------------- MODULE LocalPayment_proofs -------------------------
(***************************************************************************)
(* What is proved of the payments that the screens send to the bridge, for *)
(* any number of screens, rows, intents and stops of the bridge: the       *)
(* terminal is asked once, the customer pays once, and what the bridge     *)
(* takes for delivered is in the ledger.                                   *)
(***************************************************************************)
EXTENDS LocalPayment, TLAPS

-----------------------------------------------------------------------------
(* The invariant.                                                          *)

\* A request of a screen, or of the outbox, is about an intent that was made.
OfIntent == {"prepare", "wait", "release", "revoke", "unknown", "unknownBind", "unknownMark", "unknownApply"}
ScreenState == {Idle} \cup [pc : {"bind"}, a : Attempts] \cup [pc : OfIntent, i : Intents]
Request == [of : Screens, i : Intents]
Final == {"APPROVED", "DECLINED", "UNKNOWN"}

\* The tables hold what their handlers write.
RowOK ==
  row \in [Attempts -> [status : {"none", "PENDING", "PROCESSING", "COMPLETED", "CANCELLED"} \cup Final,
                        by : Intents \cup {None, Cloud}, active : BOOLEAN]]
IntentOK ==
  /\ intent \in [Intents -> [of : Attempts \cup {None}, synced : BOOLEAN,
                             status : {"none", "READY", "EXPIRED", "REVOKED"} \cup Final]]
  /\ \A i \in Intents : (Made(i) <=> intent[i].of \in Attempts) /\ (intent[i].synced => Made(i))
  /\ old \subseteq Intents /\ \A i \in old : Made(i)
ScreenOK ==
  /\ screen \in [Screens -> ScreenState]
  /\ \A s \in Screens : screen[s].pc \in OfIntent => Made(screen[s].i)
  /\ flight \subseteq Request /\ \A f \in flight : Made(f.i)
StoreOK ==
  /\ saved \in [Intents -> {"none", "READY", "REVOKED", "PROCESSING"} \cup Final]
  /\ deal \in [Attempts -> [by : Intents \cup {None}, status : {"none", "PROCESSING"} \cup Final]]
  /\ posts \in [Attempts -> {"none", "PENDING", "SYNCED", "QUARANTINED"}]
  /\ \A i \in Intents : saved[i] # "none" => Made(i)
  /\ \A a \in Attempts :
       /\ deal[a].status = "none" <=> deal[a].by = None
       /\ deal[a].by # None => intent[deal[a].by].of = a
       /\ posts[a] # "none" <=> deal[a].status \in Final
RunOK ==
  /\ running \in {Idle} \cup [pc : {"present"}, f : Request] \cup [pc : {"complete"}, f : Request, outcome : Final]
  /\ running # Idle => Made(running.f.i) /\ deal[intent[running.f.i].of] = [by |-> running.f.i, status |-> "PROCESSING"]
  /\ \A a \in Attempts : deal[a].status = "PROCESSING" => running # Idle /\ a = intent[running.f.i].of
SyncOK ==
  /\ sync \in {Idle} \cup [pc : {"bind", "core", "keep", "apply", "synced", "done"},
                           a : Attempts, i : Intents, status : Final]
  /\ sync # Idle => deal[sync.a] = [by |-> sync.i, status |-> sync.status]
TerminalOK ==
  /\ mpos \in [Attempts -> {"none"} \cup Final] /\ charged \in [Attempts -> BOOLEAN]
  /\ tries \in [Attempts -> Nat] /\ stops \in Nat
Shapes == RowOK /\ IntentOK /\ ScreenOK /\ StoreOK /\ RunOK /\ SyncOK /\ TerminalOK

\* The terminal is asked when the transaction is begun, and tells its outcome.
Asked ==
  /\ AskedOnce
  /\ \A a \in Attempts : deal[a].by = None => tries[a] = 0
  /\ running.pc = "present" => tries[intent[running.f.i].of] = 0
Told ==
  /\ \A a \in Attempts :
       /\ charged[a] => mpos[a] \in {"APPROVED", "UNKNOWN"}
       /\ deal[a].status \in {"APPROVED", "DECLINED"} => mpos[a] = deal[a].status
       /\ row[a].status = "DECLINED" => mpos[a] = "DECLINED"
  /\ running.pc = "complete" => mpos[intent[running.f.i].of] = running.outcome

\* A row whose intents are in time has at most one, is bound to it from then on,
\* and nobody gives that one up.
Bound ==
  \A i \in Intents : Made(i) =>
    \/ Late(intent[i].of)
    \/ /\ row[intent[i].of].by = i
       /\ intent[i].status \notin {"EXPIRED", "REVOKED"} /\ saved[i] # "REVOKED"
Kept == \A s \in Screens : screen[s].pc \in {"release", "revoke"} => Late(intent[screen[s].i].of)
\* A row that is bound to nothing was not paid with a card.
Bare ==
  \A a \in Attempts :
    /\ row[a].by \in Intents => intent[row[a].by].of = a
    /\ row[a].status \in {"none", "CANCELLED", "COMPLETED"} => row[a].by = None
    /\ row[a].by = None => Late(a) \/ mpos[a] = "none"
\* A row is followed by another only when it was declined or given up.
Followed ==
  \A a, b \in Attempts : a < b /\ row[b].status # "none" =>
    /\ row[a].status # "none"
    /\ Late(a) \/ mpos[a] = "DECLINED" \/ row[a].status = "CANCELLED"

\* What the cloud answered, or the outbox remembers, is in the ledger.
Booked(a) == Late(a) \/ row[a].status \in {"APPROVED", "UNKNOWN"}
Booking ==
  /\ \A a \in Attempts : posts[a] = "SYNCED" /\ deal[a].status = "APPROVED" => Booked(a)
  /\ \A i \in Intents : intent[i].synced =>
       LET a == intent[i].of IN Late(a) \/ (deal[a].status \in Final /\ (deal[a].status = "APPROVED" => Booked(a)))
  /\ sync.pc \in {"keep", "synced", "done"} /\ sync.status = "APPROVED" => Booked(sync.a)

LInv == Shapes /\ Asked /\ Told /\ Bound /\ Kept /\ Bare /\ Followed /\ Booking

-----------------------------------------------------------------------------
(* The operators.                                                          *)

LEMMA Numbers ==
  /\ Intents \subseteq Nat /\ 0 \notin Intents /\ None \notin Intents /\ Cloud \notin Intents
  /\ Attempts \subseteq Nat /\ None \notin Attempts /\ None # Cloud
BY DEF Intents, Attempts, None, Cloud

\* A screen, the terminal and the post say what they are by their pc.
LEMMA ScreenIs ==
  ASSUME NEW x \in ScreenState
  PROVE  /\ x.pc = "bind" => x \in [pc : {"bind"}, a : Attempts]
         /\ x.pc \in OfIntent => x \in [pc : OfIntent, i : Intents]
         /\ x.pc \in {"idle", "bind"} \cup OfIntent
BY DEF ScreenState, Idle, OfIntent
LEMMA RunIs ==
  ASSUME LInv
  PROVE  /\ running # Idle => running.pc \in {"present", "complete"} /\ running.f \in Request
         /\ running.pc = "present" => running # Idle
         /\ running.pc = "complete" => running # Idle /\ running.outcome \in Final
BY DEF LInv, Shapes, RunOK, Idle
LEMMA SyncIs ==
  ASSUME LInv, sync.pc # "idle"
  PROVE  /\ sync \in [pc : {"bind", "core", "keep", "apply", "synced", "done"}, a : Attempts, i : Intents, status : Final]
         /\ deal[sync.a].by = sync.i /\ deal[sync.a].status = sync.status
         /\ intent[sync.i].of = sync.a /\ Made(sync.i)
         /\ Late(sync.a) \/ row[sync.a].by = sync.i
<1>1. sync # Idle
  BY DEF Idle
<1>2. sync \in [pc : {"bind", "core", "keep", "apply", "synced", "done"}, a : Attempts, i : Intents, status : Final]
  BY <1>1 DEF LInv, Shapes, SyncOK
<1>3. deal[sync.a].by = sync.i /\ deal[sync.a].status = sync.status
  BY <1>1 DEF LInv, Shapes, SyncOK
<1>4. intent[sync.i].of = sync.a /\ Made(sync.i)
  <2>1. sync.a \in Attempts /\ sync.i \in Intents /\ sync.i # None
    BY <1>2, Numbers
  <2>2. intent[deal[sync.a].by].of = sync.a
    BY <1>3, <2>1 DEF LInv, Shapes, StoreOK
  <2> QED
    BY <1>3, <2>1, <2>2 DEF LInv, Shapes, IntentOK
<1>5. Late(sync.a) \/ row[sync.a].by = sync.i
  BY <1>2, <1>4 DEF LInv, Bound
<1> QED
  BY <1>2, <1>3, <1>4, <1>5

-----------------------------------------------------------------------------
(* What a step may do.                                                     *)

\* Intents that were made stay made, and keep their row.
Grows ==
  /\ old \subseteq old'
  /\ \A i \in Intents : Made(i) => intent'[i].of = intent[i].of
SameOf == \A i \in Intents : intent'[i].of = intent[i].of
LEMMA LateStays ==
  ASSUME LInv, Grows, NEW a \in Attempts, Late(a)
  PROVE  Late(a)'
BY DEF LInv, Shapes, IntentOK, Grows, Late
LEMMA LateSame ==
  ASSUME LInv, SameOf, IntentOK', UNCHANGED old
  PROVE  /\ \A a \in Attempts : Late(a)' <=> Late(a)
         /\ \A i \in Intents : Made(i)' <=> Made(i)
         /\ Grows
BY DEF LInv, Shapes, IntentOK, SameOf, Late, Grows

\* A row stays; is bound to another intent, or to none, when it is late; is told
\* an outcome, or begins; or, unbound and the last, is taken.
RowMove(a) ==
  \/ row'[a] = row[a]
  \/ /\ Late(a) /\ row[a].status = "PENDING" /\ row'[a].status = "PENDING"
     /\ row'[a].by # None => row'[a].by \in Intents /\ intent[row'[a].by].of = a
  \/ /\ row[a].status \notin {"none", "CANCELLED", "COMPLETED"}
     /\ row'[a].by = row[a].by
     /\ \/ row'[a].status \in {"PENDING", "PROCESSING"} /\ row[a].status \in {"PENDING", "PROCESSING"}
        \/ row'[a].status \in {"APPROVED", "UNKNOWN"}
        \/ row'[a].status = "DECLINED" /\ mpos[a] = "DECLINED"
  \/ /\ row[a].status = "PENDING" /\ row[a].by = None
     /\ \/ row'[a].status \in {"COMPLETED", "CANCELLED"} /\ row'[a].by = None
        \/ row'[a].status = "PROCESSING" /\ row'[a].by = Cloud
\* A row that was not there is planned.
RowBegins(a) ==
  /\ row[a].status = "none" /\ row[a].by = None
  /\ row'[a].status = "PENDING" /\ row'[a].by = None
IntentMove(i) ==
  /\ intent'[i].of = intent[i].of
  /\ intent'[i].status \in {"EXPIRED", "REVOKED"} => intent'[i].status = intent[i].status \/ Late(intent[i].of)
  /\ intent'[i].synced => intent[i].synced \/ (sync.pc = "synced" /\ i = sync.i)

LEMMA RowsMove ==
  ASSUME LInv, UNCHANGED <<old, storeVars, running, terminal>>, IntentOK', RowOK', SameOf,
         \A a \in Attempts : RowMove(a) \/ RowBegins(a)
  PROVE  /\ Told' /\ Bare'
         /\ \A a \in Attempts : deal[a].status = "APPROVED" /\ Booked(a) => Booked(a)'
         /\ \A i \in Intents : Made(i) => Late(intent[i].of) \/ row'[intent[i].of].by = i
<1>1. /\ \A a \in Attempts : Late(a)' <=> Late(a)
      /\ \A i \in Intents : Made(i)' <=> Made(i)
  BY LateSame
<1>2. Told'
  BY DEF LInv, Told, RowMove, RowBegins, Shapes, RowOK, RunOK, SameOf, terminal, storeVars, Request, Idle
<1>3. Bare'
  <2> SUFFICES ASSUME NEW a \in Attempts
               PROVE  /\ row'[a].by \in Intents => intent[row'[a].by].of = a
                      /\ row'[a].status \in {"none", "CANCELLED", "COMPLETED"} => row'[a].by = None
                      /\ row'[a].by = None => Late(a) \/ mpos[a] = "none"
    BY <1>1 DEF Bare, SameOf, terminal
  <2> QED
    BY Numbers DEF LInv, Bare, RowMove, RowBegins
<1>4. \A a \in Attempts : deal[a].status = "APPROVED" /\ Booked(a) => Booked(a)'
  BY <1>1 DEF LInv, Told, RowMove, RowBegins, Booked
<1>5. \A i \in Intents : Made(i) => Late(intent[i].of) \/ row'[intent[i].of].by = i
  <2> SUFFICES ASSUME NEW i \in Intents, Made(i), ~Late(intent[i].of)
               PROVE  row'[intent[i].of].by = i
    OBVIOUS
  <2>1. intent[i].of \in Attempts /\ row[intent[i].of].by = i
    BY DEF LInv, Shapes, IntentOK, Bound
  <2> QED
    BY <2>1, Numbers DEF RowMove, RowBegins
<1> QED
  BY <1>2, <1>3, <1>4, <1>5

\* A step of the cloud leaves the bridge as it is.
LEMMA BridgeStands ==
  ASSUME LInv, SameOf, IntentOK', UNCHANGED <<old, storeVars, running, terminal, stops>>
  PROVE  StoreOK' /\ RunOK' /\ TerminalOK' /\ Asked'
<1>1. \A i \in Intents : Made(i)' <=> Made(i)
  BY LateSame
<1>2. StoreOK'
  <2> SUFFICES ASSUME NEW a \in Attempts, deal[a].by # None PROVE intent'[deal[a].by].of = a
    BY <1>1 DEF LInv, Shapes, StoreOK, storeVars
  <2>1. deal[a].by \in Intents
    BY DEF LInv, Shapes, StoreOK
  <2> QED
    BY <2>1 DEF LInv, Shapes, StoreOK, SameOf
<1>3. RunOK' /\ TerminalOK' /\ Asked'
  <2>1. running # Idle => running.f.i \in Intents
    BY RunIs DEF Request
  <2>2. running # Idle => intent'[running.f.i].of = intent[running.f.i].of /\ (Made(running.f.i)' <=> Made(running.f.i))
    BY <1>1, <2>1 DEF SameOf
  <2>3. TerminalOK'
    BY DEF LInv, Shapes, TerminalOK, terminal
  <2>4. RunOK'
    BY <2>2 DEF LInv, Shapes, RunOK, storeVars
  <2>5. Asked'
    BY <2>2, RunIs DEF LInv, Asked, AskedOnce, storeVars, terminal
  <2> QED
    BY <2>3, <2>4, <2>5
<1> QED
  BY <1>2, <1>3

\* The outbox posts what the bridge recorded, whatever the cloud makes of it.
PostOK == sync.pc \in {"keep", "synced", "done"} /\ sync.status = "APPROVED" => Booked(sync.a)

LEMMA LedgerKeeps ==
  ASSUME LInv, UNCHANGED <<old, flight, storeVars, running, terminal, stops>>,
         RowOK', IntentOK', ScreenOK', SyncOK', Kept', PostOK', Followed',
         \A a \in Attempts : RowMove(a) \/ RowBegins(a), \A i \in Intents : IntentMove(i)
  PROVE  LInv'
<1>1. SameOf
  BY DEF SameOf, IntentMove
<1>2. /\ \A a \in Attempts : Late(a)' <=> Late(a)
      /\ \A i \in Intents : Made(i)' <=> Made(i)
  BY <1>1, LateSame
<1>3. Shapes' /\ Asked'
  BY <1>1, BridgeStands DEF Shapes
<1>4. /\ Told' /\ Bare'
      /\ \A a \in Attempts : deal[a].status = "APPROVED" /\ Booked(a) => Booked(a)'
      /\ \A i \in Intents : Made(i) => Late(intent[i].of) \/ row'[intent[i].of].by = i
  BY <1>1, RowsMove
<1>5. Bound'
  <2> SUFFICES ASSUME NEW i \in Intents, Made(i), ~Late(intent[i].of)
               PROVE  /\ row'[intent[i].of].by = i
                      /\ intent'[i].status \notin {"EXPIRED", "REVOKED"} /\ saved[i] # "REVOKED"
    <3>1. \A i \in Intents : Made(i) => intent[i].of \in Attempts
      BY DEF LInv, Shapes, IntentOK
    <3> QED
      BY <1>1, <1>2, <3>1 DEF Bound, SameOf, storeVars
  <2> QED
    BY <1>4 DEF LInv, Bound, IntentMove
<1>6. Booking'
  <2>1. \A a \in Attempts : posts[a] = "SYNCED" /\ deal[a].status = "APPROVED" => Booked(a)'
    BY <1>4 DEF LInv, Booking
  <2>2. ASSUME NEW i \in Intents, intent'[i].synced, NEW a \in Attempts, intent[i].of = a
        PROVE  Late(a) \/ (deal[a].status \in Final /\ (deal[a].status = "APPROVED" => Booked(a)'))
    <3>1. Late(a) \/ (deal[a].status \in Final /\ (deal[a].status = "APPROVED" => Booked(a)))
      <4>1. CASE intent[i].synced
        BY <2>2, <4>1 DEF LInv, Booking
      <4>2. CASE sync.pc = "synced" /\ i = sync.i
        <5>1. sync.status \in Final /\ deal[sync.a].status = sync.status /\ sync.a = a
          BY <2>2, <4>2, SyncIs
        <5> QED
          BY <4>2, <5>1 DEF LInv, Booking
      <4> QED
        BY <2>2, <4>1, <4>2 DEF IntentMove
    <3> QED
      BY <1>4, <3>1
  <2>3. ASSUME NEW i \in Intents, intent'[i].synced, NEW a \in Attempts, intent'[i].of = a
        PROVE  Late(a)' \/ (deal'[a].status \in Final /\ (deal'[a].status = "APPROVED" => Booked(a)'))
    BY <1>1, <1>2, <2>2, <2>3 DEF SameOf, storeVars
  <2>4. \A i \in Intents : intent'[i].synced => intent'[i].of \in Attempts
    BY DEF IntentOK
  <2> QED
    BY <2>1, <2>3, <2>4 DEF Booking, PostOK, storeVars
<1> QED
  BY <1>3, <1>4, <1>5, <1>6 DEF LInv

LEMMA CloudKeeps ==
  ASSUME LInv, UNCHANGED <<old, flight, storeVars, running, terminal, stops>>,
         RowOK', IntentOK', ScreenOK', SyncOK', Kept', PostOK',
         \A a \in Attempts : RowMove(a), \A i \in Intents : IntentMove(i)
  PROVE  LInv'
<1>1. \A a \in Attempts : Late(a)' <=> Late(a)
  BY LateSame DEF SameOf, IntentMove
<1>2. \A a \in Attempts : row'[a].status = "none" <=> row[a].status = "none"
  BY DEF RowMove
<1>3. Followed'
  <2> SUFFICES ASSUME NEW a \in Attempts, NEW b \in Attempts, a < b, row[b].status # "none"
               PROVE  row'[a].status # "none" /\ (Late(a) \/ mpos[a] = "DECLINED" \/ row'[a].status = "CANCELLED")
    BY <1>1, <1>2 DEF Followed, terminal
  <2>1. row[a].status # "none" /\ (Late(a) \/ mpos[a] = "DECLINED" \/ row[a].status = "CANCELLED")
    BY DEF LInv, Followed
  <2>2. row[a].status = "CANCELLED" => row'[a].status = "CANCELLED"
    BY DEF RowMove
  <2> QED
    BY <1>2, <2>1, <2>2
<1> QED
  BY <1>3, LedgerKeeps

\* A screen goes on.
LEMMA ScreenGoes ==
  ASSUME LInv, NEW s \in Screens, NEW x \in ScreenState, ScreenGo(s, x), flight' = flight, Grows, IntentOK',
         x.pc \in OfIntent => intent'[x.i].of \in Attempts,
         x.pc \in {"release", "revoke"} => Made(x.i) /\ Late(intent[x.i].of)
  PROVE  ScreenOK' /\ Kept'
<1>1. \A i \in Intents : Made(i) => intent'[i].of = intent[i].of /\ Made(i)' /\ intent[i].of \in Attempts
  BY DEF LInv, Shapes, IntentOK, Grows
<1>2. screen \in [Screens -> ScreenState] /\ x \in ScreenState
  BY DEF LInv, Shapes, ScreenOK
<1>3. \A t \in Screens : screen'[t] = IF t = s THEN x ELSE screen[t]
  BY <1>2 DEF ScreenGo
<1>4. \A t \in Screens : screen'[t].pc \in OfIntent =>
        /\ screen'[t].i \in Intents /\ intent'[screen'[t].i].of \in Attempts
        /\ screen'[t].pc \in {"release", "revoke"} =>
             Made(screen'[t].i) /\ Late(intent[screen'[t].i].of)
  <2> TAKE t \in Screens
  <2> HAVE screen'[t].pc \in OfIntent
  <2>1. CASE t = s
    BY <1>2, <1>3, <2>1, ScreenIs
  <2>2. CASE t # s
    <3>1. screen'[t] = screen[t] /\ screen[t] \in ScreenState
      BY <1>2, <1>3, <2>2
    <3>2. screen[t].i \in Intents /\ Made(screen[t].i)
      BY <3>1, ScreenIs DEF LInv, Shapes, ScreenOK
    <3> QED
      BY <1>1, <3>1, <3>2 DEF LInv, Kept
  <2> QED
    BY <2>1, <2>2
<1>5. ScreenOK'
  <2>1. screen' \in [Screens -> ScreenState]
    BY <1>2 DEF ScreenGo
  <2>2. \A t \in Screens : screen'[t].pc \in OfIntent => intent'[screen'[t].i].status # "none"
    BY <1>4 DEF IntentOK, Made
  <2>3. flight \subseteq Request /\ \A f \in flight : f.i \in Intents /\ Made(f.i)
    BY DEF ScreenOK, LInv, Shapes, Request
  <2>4. \A f \in flight : intent'[f.i].status # "none"
    BY <1>1, <2>3 DEF Made
  <2> QED
    BY <2>1, <2>2, <2>3, <2>4 DEF ScreenOK, Made
<1>6. Kept'
  <2> SUFFICES ASSUME NEW t \in Screens, screen'[t].pc \in {"release", "revoke"},
                      NEW a, intent'[screen'[t].i].of = a
               PROVE  Late(a)'
    BY DEF Kept
  <2>1. /\ screen'[t].i \in Intents /\ Made(screen'[t].i) /\ Late(intent[screen'[t].i].of)
    BY <1>4 DEF OfIntent
  <2>2. intent[screen'[t].i].of = a /\ a \in Attempts
    BY <1>1, <2>1
  <2> QED
    BY <2>1, <2>2, LateStays
<1> QED
  BY <1>5, <1>6

\* A step of a screen that tells nobody.
LEMMA ScreenKeeps ==
  ASSUME LInv, NEW s \in Screens, NEW x \in ScreenState, ScreenGo(s, x),
         UNCHANGED <<cloudVars, flight, storeVars, running, sync, terminal, stops>>,
         x.pc \in OfIntent => Made(x.i),
         x.pc \in {"release", "revoke"} => Late(intent[x.i].of)
  PROVE  LInv'
<1>1. IntentOK' /\ RowOK' /\ SyncOK' /\ PostOK'
  BY DEF LInv, Shapes, RowOK, IntentOK, SyncOK, Booking, PostOK, Booked, Made, Late, cloudVars, storeVars
<1>2. Grows /\ \A i \in Intents : IntentMove(i)
  BY DEF cloudVars, Grows, IntentMove
<1>3. x.pc \in OfIntent => intent'[x.i].of \in Attempts
  BY ScreenIs DEF LInv, Shapes, IntentOK, cloudVars
<1>4. x.pc \in {"release", "revoke"} => x.pc \in OfIntent
  BY DEF OfIntent
<1>5. ScreenOK' /\ Kept'
  BY <1>1, <1>2, <1>3, <1>4, ScreenGoes
<1>6. \A a \in Attempts : RowMove(a)
  BY DEF RowMove, cloudVars
<1> QED
  BY <1>1, <1>2, <1>5, <1>6, CloudKeeps DEF cloudVars

\* A screen at work on an intent.
LEMMA AtWork ==
  ASSUME LInv, NEW s \in Screens, screen[s].pc \in OfIntent
  PROVE  /\ screen[s].i \in Intents /\ Made(screen[s].i)
         /\ intent[screen[s].i].of \in Attempts
         /\ \A pc \in OfIntent : /\ [screen[s] EXCEPT !.pc = pc] \in ScreenState
                                 /\ [screen[s] EXCEPT !.pc = pc].pc = pc
                                 /\ [screen[s] EXCEPT !.pc = pc].i = screen[s].i
<1>1. screen[s] \in ScreenState /\ Made(screen[s].i)
  BY DEF LInv, Shapes, ScreenOK
<1>2. screen[s] \in [pc : OfIntent, i : Intents]
  BY <1>1, ScreenIs
<1>3. intent[screen[s].i].of \in Attempts
  BY <1>1, <1>2 DEF LInv, Shapes, IntentOK
<1>4. \A pc \in OfIntent : /\ [screen[s] EXCEPT !.pc = pc] \in [pc : OfIntent, i : Intents]
                           /\ [screen[s] EXCEPT !.pc = pc].pc = pc
                           /\ [screen[s] EXCEPT !.pc = pc].i = screen[s].i
  BY <1>2
<1> QED
  BY <1>1, <1>2, <1>3, <1>4 DEF ScreenState
LEMMA IdleIs == Idle \in ScreenState /\ Idle.pc = "idle" /\ "idle" \notin OfIntent
BY DEF Idle, ScreenState, OfIntent

LEMMA NoAnswerKeeps == ASSUME LInv, NEW s \in Screens, NoAnswer(s) PROVE LInv'
<1>1. screen[s].pc \in OfIntent /\ "unknown" \in OfIntent
  BY DEF NoAnswer, ScreenAt, OfIntent
<1> QED
  BY <1>1, AtWork, ScreenKeeps DEF NoAnswer, Turn
LEMMA ClosedKeeps == ASSUME LInv, NEW s \in Screens, Closed(s) PROVE LInv'
BY IdleIs, ScreenKeeps DEF Closed
LEMMA ReleaseReadKeeps == ASSUME LInv, NEW s \in Screens, ReleaseRead(s) PROVE LInv'
<1>1. screen[s].pc \in OfIntent /\ "revoke" \in OfIntent /\ Late(intent[screen[s].i].of)
  BY DEF ReleaseRead, ScreenAt, OfIntent, LInv, Kept
<1>2. CASE Turn(s, "revoke")
  BY <1>1, <1>2, AtWork, ScreenKeeps DEF ReleaseRead, Turn
<1>3. CASE ScreenGo(s, Idle)
  BY <1>3, IdleIs, ScreenKeeps DEF ReleaseRead
<1> QED
  BY <1>2, <1>3 DEF ReleaseRead
LEMMA UnknownReadKeeps == ASSUME LInv, NEW s \in Screens, UnknownRead(s) PROVE LInv'
<1>1. screen[s].pc \in OfIntent /\ "unknownBind" \in OfIntent
  BY DEF UnknownRead, ScreenAt, OfIntent
<1>2. CASE Turn(s, "unknownBind")
  BY <1>1, <1>2, AtWork, ScreenKeeps DEF UnknownRead, Turn
<1>3. CASE ScreenGo(s, Idle)
  BY <1>3, IdleIs, ScreenKeeps DEF UnknownRead
<1> QED
  BY <1>2, <1>3 DEF UnknownRead

-----------------------------------------------------------------------------
(* The cloud.                                                              *)

LEMMA PostStands ==
  ASSUME LInv, UNCHANGED <<old, storeVars, running, terminal, sync>>, IntentOK', RowOK', SameOf,
         \A a \in Attempts : RowMove(a) \/ RowBegins(a)
  PROVE  SyncOK' /\ PostOK'
<1>1. SyncOK'
  BY DEF LInv, Shapes, SyncOK, storeVars
<1>2. ASSUME NEW a \in Attempts, a = sync.a, sync.pc \in {"keep", "synced", "done"}, sync.status = "APPROVED"
      PROVE  Booked(a)'
  <2>1. deal[a].status = "APPROVED"
    BY <1>2, SyncIs
  <2>2. Booked(a)
    BY <1>2 DEF LInv, Booking
  <2> QED
    BY <2>1, <2>2, RowsMove
<1>3. sync.pc \in {"keep", "synced", "done"} => sync.a \in Attempts
  BY SyncIs
<1> QED
  BY <1>1, <1>2, <1>3 DEF PostOK

\* A step of the cloud with which a screen ends its work on an intent.
LEMMA CloudTurnKeeps ==
  ASSUME LInv, NEW s \in Screens, NEW x \in ScreenState, ScreenGo(s, x),
         UNCHANGED <<old, flight, storeVars, running, sync, terminal, stops>>,
         x.pc \in OfIntent \ {"release", "revoke"} => Made(x.i), x.pc \notin {"release", "revoke"},
         RowOK', IntentOK', \A a \in Attempts : RowMove(a), \A i \in Intents : IntentMove(i)
  PROVE  LInv'
<1>1. SameOf /\ Grows
  BY DEF SameOf, Grows, IntentMove
<1>2. SyncOK' /\ PostOK'
  BY <1>1, PostStands
<1>3. x.pc \in OfIntent => intent'[x.i].of \in Attempts
  BY <1>1, ScreenIs DEF LInv, Shapes, IntentOK, SameOf
<1>4. ScreenOK' /\ Kept'
  BY <1>1, <1>3, ScreenGoes
<1> QED
  BY <1>2, <1>4, CloudKeeps

\* A step of the cloud of which no screen knows.
LEMMA ScreenStands ==
  ASSUME LInv, SameOf, IntentOK', UNCHANGED <<old, screen, flight>>
  PROVE  ScreenOK' /\ Kept'
<1>1. /\ \A a \in Attempts : Late(a)' <=> Late(a)
      /\ \A i \in Intents : Made(i)' <=> Made(i)
  BY LateSame
<1>2. \A s \in Screens : screen[s].pc \in OfIntent => screen[s].i \in Intents /\ intent[screen[s].i].of \in Attempts
  BY AtWork
<1>3. ScreenOK'
  <2>1. \A s \in Screens : screen[s].pc \in OfIntent => Made(screen[s].i)'
    BY <1>1, <1>2 DEF LInv, Shapes, ScreenOK
  <2>2. \A f \in flight : f.i \in Intents
    BY DEF LInv, Shapes, ScreenOK, Request
  <2> QED
    BY <1>1, <2>1, <2>2 DEF LInv, Shapes, ScreenOK
<1>4. Kept'
  <2> SUFFICES ASSUME NEW s \in Screens, screen[s].pc \in {"release", "revoke"},
                      NEW a, intent'[screen[s].i].of = a
               PROVE  Late(a)'
    BY DEF Kept
  <2>1. intent[screen[s].i].of = a /\ a \in Attempts /\ Late(a)
    BY <1>2 DEF OfIntent, SameOf, LInv, Kept
  <2> QED
    BY <1>1, <2>1
<1> QED
  BY <1>3, <1>4
LEMMA QuietKeeps ==
  ASSUME LInv, UNCHANGED <<old, screen, flight, storeVars, running, terminal, stops>>,
         RowOK', IntentOK', SyncOK', PostOK', \A a \in Attempts : RowMove(a), \A i \in Intents : IntentMove(i)
  PROVE  LInv'
<1>1. ScreenOK' /\ Kept'
  BY ScreenStands DEF SameOf, IntentMove
<1> QED
  BY <1>1, CloudKeeps

\* An intent is bound again: only a late row had another, or was bound to none.
LEMMA ReactivateMoves ==
  ASSUME LInv, NEW i \in Intents, Made(i), Reactivate(i), UNCHANGED old
  PROVE  RowOK' /\ IntentOK' /\ (\A a \in Attempts : RowMove(a)) /\ (\A j \in Intents : IntentMove(j))
<1> DEFINE a == intent[i].of
<1>1. a \in Attempts
  BY DEF LInv, Shapes, IntentOK
<1>2. \A j \in Intents : intent'[j] = IF j # i /\ intent[j].of = a /\ intent[j].status = "READY"
                                      THEN [intent[j] EXCEPT !.status = "REVOKED"] ELSE intent[j]
  BY DEF Reactivate
<1>3. \A j \in Intents : IntentMove(j)
  <2> TAKE j \in Intents
  <2>1. CASE j # i /\ intent[j].of = a /\ intent[j].status = "READY"
    <3>1. Made(j) /\ Late(a)
      BY <2>1 DEF Made, LInv, Bound
    <3>2. intent[j] \in [of : Attempts \cup {None}, synced : BOOLEAN,
                         status : {"none", "READY", "EXPIRED", "REVOKED"} \cup Final]
      BY DEF LInv, Shapes, IntentOK
    <3> QED
      BY <1>2, <2>1, <3>1, <3>2 DEF IntentMove
  <2>2. CASE ~(j # i /\ intent[j].of = a /\ intent[j].status = "READY")
    BY <1>2, <2>2 DEF IntentMove
  <2> QED
    BY <2>1, <2>2
<1>4. IntentOK'
  <2>1. intent' \in [Intents -> [of : Attempts \cup {None}, synced : BOOLEAN,
                                 status : {"none", "READY", "EXPIRED", "REVOKED"} \cup Final]]
    BY DEF LInv, Shapes, IntentOK, Reactivate
  <2>2. \A j \in Intents : intent'[j].of = intent[j].of /\ intent'[j].synced = intent[j].synced
                           /\ (intent'[j].status # "none" <=> intent[j].status # "none")
    BY <1>2 DEF LInv, Shapes, IntentOK
  <2> QED
    BY <2>1, <2>2 DEF LInv, Shapes, IntentOK, Made
<1>5. row[a] \in [status : {"none", "PENDING", "PROCESSING", "COMPLETED", "CANCELLED"} \cup Final,
                  by : Intents \cup {None, Cloud}, active : BOOLEAN]
  BY <1>1 DEF LInv, Shapes, RowOK
<1>6. \/ row' = row
      \/ row[a].status = "PENDING" /\ row' = [row EXCEPT ![a] = [row[a] EXCEPT !.by = i, !.active = TRUE]]
  BY <1>1, <1>5 DEF Reactivate, LInv, Shapes, RowOK
<1>7. RowOK'
  BY <1>1, <1>5, <1>6 DEF LInv, Shapes, RowOK
<1>8. \A b \in Attempts : RowMove(b)
  <2> TAKE b \in Attempts
  <2>1. CASE row'[b] = row[b]
    BY <2>1 DEF RowMove
  <2>2. CASE row'[b] # row[b]
    <3>1. b = a /\ row[a].status = "PENDING" /\ row'[a] = [row[a] EXCEPT !.by = i, !.active = TRUE]
      BY <1>1, <1>6, <2>2 DEF LInv, Shapes, RowOK
    <3>2. row'[a].status = "PENDING" /\ row'[a].by = i
      BY <1>5, <3>1
    <3>3. Late(a) \/ row[a].by = i
      BY DEF LInv, Bound
    <3> QED
      BY <3>1, <3>2, <3>3 DEF RowMove
  <2> QED
    BY <2>1, <2>2
<1> QED
  BY <1>3, <1>4, <1>7, <1>8

\* A result is applied to the row that is bound to its intent.
LEMMA ApplyMoves ==
  ASSUME LInv, NEW i \in Intents, NEW status \in Final, Apply(i, status),
         \A a \in Attempts : row[a].by = i /\ status = "DECLINED" => mpos[a] = "DECLINED"
  PROVE  /\ RowOK' /\ \A a \in Attempts : RowMove(a)
         /\ \A a \in Attempts : row[a].by = i => row'[a].status = status
<1>1. \A a \in Attempts : row[a] \in [status : {"none", "PENDING", "PROCESSING", "COMPLETED", "CANCELLED"} \cup Final,
                                     by : Intents \cup {None, Cloud}, active : BOOLEAN]
  BY DEF LInv, Shapes, RowOK
<1> DEFINE held(a) == row[a].active /\ status = "UNKNOWN"
           told(a) == [row[a] EXCEPT !.status = status, !.active = held(a)]
<1>2. row' = [a \in Attempts |-> IF row[a].by # i THEN row[a] ELSE told(a)]
  BY DEF Apply
<1>a. \A a \in Attempts : held(a) \in BOOLEAN
  OBVIOUS
<1> HIDE DEF held
<1>b. ASSUME NEW a \in Attempts, row[a].by = i
      PROVE  /\ told(a) \in [status : {"none", "PENDING", "PROCESSING", "COMPLETED", "CANCELLED"} \cup Final,
                             by : Intents \cup {None, Cloud}, active : BOOLEAN]
             /\ told(a).status = status /\ told(a).by = i
  BY <1>1, <1>a, <1>b
<1> HIDE DEF told
<1>3. RowOK'
  BY <1>1, <1>2, <1>b DEF RowOK
<1>4. ASSUME NEW a \in Attempts PROVE RowMove(a) /\ (row[a].by = i => row'[a].status = status)
  <2>1. CASE row[a].by # i
    BY <1>2, <2>1 DEF RowMove
  <2>2. CASE row[a].by = i
    <3>1. row'[a].status = status /\ row'[a].by = i
      BY <1>2, <1>b, <2>2
    <3>2. row[a].status \notin {"none", "CANCELLED", "COMPLETED"}
      BY <2>2, Numbers DEF LInv, Bare
    <3> QED
      BY <2>2, <3>1, <3>2 DEF RowMove, Final
  <2> QED
    BY <2>1, <2>2
<1> QED
  BY <1>3, <1>4

LEMMA NewRowIs ==
  /\ NewRow = [status |-> "PENDING", by |-> None, active |-> FALSE]
  /\ NewRow.status = "PENDING" /\ NewRow.by = None
<1>1. NoRow \in [status : {"none"}, by : {None}, active : {FALSE}]
  BY DEF NoRow
<1>2. NewRow \in [status : {"PENDING"}, by : {None}, active : {FALSE}]
  BY <1>1 DEF NewRow
<1> QED
  BY <1>2

\* One intent gets another status.
LEMMA StatusMoves ==
  ASSUME LInv, NEW i \in Intents, Made(i), NEW status \in {"REVOKED"} \cup Final,
         intent' = [intent EXCEPT ![i].status = status], UNCHANGED old,
         status = "REVOKED" => Late(intent[i].of)
  PROVE  IntentOK' /\ \A j \in Intents : IntentMove(j)
<1>1. intent \in [Intents -> [of : Attempts \cup {None}, synced : BOOLEAN,
                              status : {"none", "READY", "EXPIRED", "REVOKED"} \cup Final]]
  BY DEF LInv, Shapes, IntentOK
<1>2. \A j \in Intents : /\ intent'[j].of = intent[j].of /\ intent'[j].synced = intent[j].synced
                         /\ intent'[j].status = IF j = i THEN status ELSE intent[j].status
  BY <1>1
<1>3. intent' \in [Intents -> [of : Attempts \cup {None}, synced : BOOLEAN,
                               status : {"none", "READY", "EXPIRED", "REVOKED"} \cup Final]]
  BY <1>1
<1>4. \A j \in Intents : Made(j)' <=> Made(j)
  BY <1>2 DEF Made, Final
<1>5. IntentOK'
  BY <1>2, <1>3, <1>4 DEF LInv, Shapes, IntentOK
<1>6. \A j \in Intents : IntentMove(j)
  BY <1>2 DEF IntentMove, Final
<1> QED
  BY <1>5, <1>6

LEMMA UnknownBindKeeps == ASSUME LInv, NEW s \in Screens, UnknownBind(s) PROVE LInv'
<1>1. screen[s].pc \in OfIntent /\ "unknownMark" \in OfIntent
  BY DEF UnknownBind, ScreenAt, OfIntent
<1>2. /\ RowOK' /\ IntentOK'
      /\ \A a \in Attempts : RowMove(a)
      /\ \A i \in Intents : IntentMove(i)
  BY <1>1, AtWork, ReactivateMoves DEF UnknownBind
<1> DEFINE x == [screen[s] EXCEPT !.pc = "unknownMark"]
<1>3. x \in ScreenState /\ x.pc = "unknownMark" /\ x.i = screen[s].i /\ Made(screen[s].i)
  BY <1>1, AtWork
<1>4. ScreenGo(s, x)
  BY DEF UnknownBind, Turn
<1> HIDE DEF x
<1> QED
  BY <1>2, <1>3, <1>4, CloudTurnKeeps DEF UnknownBind
LEMMA UnknownMarkKeeps == ASSUME LInv, NEW s \in Screens, UnknownMark(s) PROVE LInv'
<1>1. screen[s].pc \in OfIntent /\ "unknownApply" \in OfIntent
  BY DEF UnknownMark, ScreenAt, OfIntent
<1> DEFINE i == screen[s].i
           x == [screen[s] EXCEPT !.pc = "unknownApply"]
<1>2. x \in ScreenState /\ x.pc = "unknownApply" /\ x.i = i /\ Made(i) /\ i \in Intents
  BY <1>1, AtWork
<1>3. ScreenGo(s, x) /\ intent' = [intent EXCEPT ![i].status = "UNKNOWN"]
  BY DEF UnknownMark, Turn
<1> HIDE DEF x, i
<1>4. IntentOK' /\ \A j \in Intents : IntentMove(j)
  BY <1>2, <1>3, StatusMoves DEF UnknownMark, Final
<1>5. RowOK' /\ \A a \in Attempts : RowMove(a)
  BY DEF UnknownMark, RowMove, LInv, Shapes, RowOK
<1> QED
  BY <1>2, <1>3, <1>4, <1>5, CloudTurnKeeps DEF UnknownMark
LEMMA UnknownApplyKeeps == ASSUME LInv, NEW s \in Screens, UnknownApply(s) PROVE LInv'
<1>1. screen[s].i \in Intents
  BY AtWork DEF UnknownApply, ScreenAt, OfIntent
<1>2. RowOK' /\ \A a \in Attempts : RowMove(a)
  BY <1>1, ApplyMoves DEF UnknownApply, Final
<1>3. IntentOK' /\ \A i \in Intents : IntentMove(i)
  BY DEF UnknownApply, IntentMove, LInv, Shapes, IntentOK, Made
<1> QED
  BY <1>2, <1>3, IdleIs, CloudTurnKeeps DEF UnknownApply, OfIntent

LEMMA RevokeKeeps == ASSUME LInv, NEW s \in Screens, Revoke(s) PROVE LInv'
<1> DEFINE i == screen[s].i
           a == intent[i].of
<1>1. i \in Intents /\ Made(i) /\ a \in Attempts /\ Late(a)
  BY AtWork DEF Revoke, ScreenAt, OfIntent, LInv, Kept
<1>2. /\ intent' = IF intent[i].status = "READY" THEN [intent EXCEPT ![i].status = "REVOKED"] ELSE intent
      /\ row' = IF row[a].by = i /\ row[a].status = "PENDING" THEN [row EXCEPT ![a] = NewRow] ELSE row
  BY DEF Revoke
<1> HIDE DEF i, a
<1>3. intent[i].of = a
  BY DEF a
<1>4. IntentOK' /\ \A j \in Intents : IntentMove(j)
  <2>1. CASE intent' = intent
    BY <2>1 DEF Revoke, LInv, Shapes, IntentOK, IntentMove, Made
  <2>2. CASE intent' = [intent EXCEPT ![i].status = "REVOKED"]
    BY <1>1, <1>3, <2>2, StatusMoves DEF Revoke
  <2> QED
    BY <1>2, <2>1, <2>2
<1>5. RowOK'
  BY <1>1, <1>2, NewRowIs DEF LInv, Shapes, RowOK
<1>6. \A b \in Attempts : RowMove(b)
  BY <1>1, <1>2, NewRowIs DEF RowMove, LInv, Shapes, RowOK
<1> QED
  BY <1>4, <1>5, <1>6, IdleIs, CloudTurnKeeps DEF Revoke, OfIntent

\* The screen asks: lapsed intents are ended first.
LEMMA AskKeeps == ASSUME LInv, NEW s \in Screens, NEW a \in Attempts, Ask(s, a) PROVE LInv'
<1>1. \A i \in Lapsed : i \in Intents /\ Made(i) /\ i \in old /\ intent[i].of \in Attempts /\ Late(intent[i].of)
  BY DEF Lapsed, LInv, Shapes, IntentOK, Late, Made
<1>2. intent' = [i \in Intents |-> IF i \in Lapsed THEN [intent[i] EXCEPT !.status = "EXPIRED"] ELSE intent[i]]
  BY DEF Ask
<1>3. row' = [b \in Attempts |-> IF row[b].status = "PENDING" /\ row[b].by \in Lapsed THEN NewRow ELSE row[b]]
  BY DEF Ask
<1>4. IntentOK' /\ \A i \in Intents : IntentMove(i)
  <2>1. \A i \in Intents : /\ intent'[i] \in [of : Attempts \cup {None}, synced : BOOLEAN,
                                             status : {"none", "READY", "EXPIRED", "REVOKED"} \cup Final]
                           /\ intent'[i].of = intent[i].of /\ intent'[i].synced = intent[i].synced
                           /\ intent'[i].status \in {intent[i].status, "EXPIRED"}
                           /\ intent'[i].status # intent[i].status => i \in Lapsed
    BY <1>2 DEF LInv, Shapes, IntentOK
  <2>2. intent' \in [Intents -> [of : Attempts \cup {None}, synced : BOOLEAN,
                                 status : {"none", "READY", "EXPIRED", "REVOKED"} \cup Final]]
    BY <1>2, <2>1
  <2>3. \A i \in Intents : Made(i)' <=> Made(i)
    BY <1>1, <2>1 DEF Made
  <2> QED
    BY <1>1, <2>1, <2>2, <2>3 DEF Ask, LInv, Shapes, IntentOK, IntentMove
<1>5. NewRow.status = "PENDING" /\ NewRow.by = None
      /\ NewRow = [status |-> "PENDING", by |-> None, active |-> FALSE]
  BY NewRowIs
<1>6. RowOK'
  BY <1>3, <1>5 DEF LInv, Shapes, RowOK
<1>7. ASSUME NEW b \in Attempts PROVE RowMove(b)
  <2>1. CASE row[b].status = "PENDING" /\ row[b].by \in Lapsed
    <3>1. intent[row[b].by].of = b /\ Late(b)
      BY <1>1, <2>1 DEF LInv, Bare
    <3> QED
      BY <1>3, <1>5, <2>1, <3>1 DEF RowMove
  <2>2. CASE ~(row[b].status = "PENDING" /\ row[b].by \in Lapsed)
    BY <1>3, <2>2 DEF RowMove
  <2> QED
    BY <2>1, <2>2
<1>8. CASE \E i \in Intents : intent[i].status = "READY" /\ ScreenGo(s, [pc |-> "prepare", i |-> i])
  <2>1. PICK i \in Intents : intent[i].status = "READY" /\ ScreenGo(s, [pc |-> "prepare", i |-> i])
    BY <1>8
  <2>2. [pc |-> "prepare", i |-> i] \in ScreenState /\ Made(i)
    BY <2>1 DEF ScreenState, OfIntent, Made
  <2> QED
    BY <1>4, <1>6, <1>7, <2>1, <2>2, CloudTurnKeeps DEF Ask
<1>9. CASE ScreenGo(s, [pc |-> "bind", a |-> a])
  <2>1. [pc |-> "bind", a |-> a] \in ScreenState /\ "bind" \notin OfIntent
    BY DEF ScreenState, OfIntent
  <2> QED
    BY <1>4, <1>6, <1>7, <1>9, <2>1, CloudTurnKeeps DEF Ask
<1>10. CASE UNCHANGED screen
  <2>1. SyncOK' /\ PostOK'
    BY <1>4, <1>6, <1>7, PostStands DEF Ask, SameOf, IntentMove
  <2> QED
    BY <1>4, <1>6, <1>7, <1>10, <2>1, QuietKeeps DEF Ask
<1> QED
  BY <1>8, <1>9, <1>10 DEF Ask

-----------------------------------------------------------------------------
(* The outbox.                                                             *)

LEMMA StepIs ==
  ASSUME LInv, sync.pc # "idle", NEW pc \in {"bind", "core", "keep", "apply", "synced", "done"}, Step(pc), deal' = deal
  PROVE  SyncOK' /\ sync'.pc = pc /\ sync'.a = sync.a /\ sync'.i = sync.i /\ sync'.status = sync.status
<1>1. sync \in [pc : {"bind", "core", "keep", "apply", "synced", "done"}, a : Attempts, i : Intents, status : Final]
  BY SyncIs
<1>2. sync # Idle
  BY DEF Idle
<1>3. /\ sync' \in [pc : {"bind", "core", "keep", "apply", "synced", "done"}, a : Attempts, i : Intents, status : Final]
      /\ sync'.pc = pc /\ sync'.a = sync.a /\ sync'.i = sync.i /\ sync'.status = sync.status
  BY <1>1 DEF Step
<1>4. deal[sync.a] = [by |-> sync.i, status |-> sync.status]
  BY <1>2 DEF LInv, Shapes, SyncOK
<1> QED
  BY <1>3, <1>4 DEF SyncOK

LEMMA SyncBindKeeps == ASSUME LInv, SyncBind PROVE LInv'
<1>1. sync.pc # "idle"
  BY DEF SyncBind
<1>2. /\ RowOK' /\ IntentOK'
      /\ \A a \in Attempts : RowMove(a)
      /\ \A i \in Intents : IntentMove(i)
  BY <1>1, SyncIs, ReactivateMoves DEF SyncBind
<1>3. SyncOK' /\ sync'.pc = "core"
  BY <1>1, StepIs DEF SyncBind, storeVars
<1>4. PostOK'
  BY <1>3 DEF PostOK
<1> QED
  BY <1>2, <1>3, <1>4, QuietKeeps DEF SyncBind, CloudRests

\* What the cloud applies is what the outbox posts.
LEMMA SyncCoreKeeps == ASSUME LInv, SyncCore PROVE LInv'
<1>1. sync.pc # "idle"
  BY DEF SyncCore
<1>2. sync.i \in Intents /\ sync.a \in Attempts /\ sync.status \in Final
  BY <1>1, SyncIs
<1>3. \A a \in Attempts : row[a].by = sync.i => a = sync.a
  BY <1>1, <1>2, SyncIs DEF LInv, Bare
<1>4. sync.status = "DECLINED" => mpos[sync.a] = "DECLINED"
  BY <1>1, <1>2, SyncIs DEF LInv, Told
<1>5. /\ RowOK'
      /\ \A a \in Attempts : RowMove(a)
      /\ \A a \in Attempts : row[a].by = sync.i => row'[a].status = sync.status
  BY <1>2, <1>3, <1>4, ApplyMoves DEF SyncCore
<1>6. IntentOK' /\ \A i \in Intents : IntentMove(i)
  BY DEF SyncCore, IntentMove, LInv, Shapes, IntentOK, Made
<1>7. SyncOK' /\ sync'.a = sync.a /\ sync'.status = sync.status
  BY <1>1, StepIs DEF SyncCore, storeVars
<1>8. PostOK'
  <2>1. Late(sync.a) \/ row'[sync.a].status = sync.status
    BY <1>1, <1>2, <1>5, SyncIs
  <2>2. ASSUME NEW a \in Attempts, a = sync.a, sync.status = "APPROVED" PROVE Booked(a)'
    BY <2>1, <2>2 DEF Booked, Late, SyncCore
  <2> QED
    BY <1>2, <1>7, <2>2 DEF PostOK
<1> QED
  BY <1>5, <1>6, <1>7, <1>8, QuietKeeps DEF SyncCore, CloudRests

LEMMA SyncKeepKeeps == ASSUME LInv, SyncKeep PROVE LInv'
<1>1. sync.pc # "idle"
  BY DEF SyncKeep
<1>2. Made(sync.i) /\ sync.i \in Intents /\ sync.status \in Final
  BY <1>1, SyncIs
<1>3. IntentOK' /\ \A i \in Intents : IntentMove(i)
  <2>1. CASE intent' = intent
    BY <2>1 DEF SyncKeep, LInv, Shapes, IntentOK, IntentMove, Made
  <2>2. CASE intent' = [intent EXCEPT ![sync.i].status = sync.status]
    BY <1>2, <2>2, StatusMoves DEF SyncKeep, Final
  <2> QED
    BY <2>1, <2>2 DEF SyncKeep
<1>4. RowOK' /\ \A a \in Attempts : RowMove(a)
  BY DEF SyncKeep, RowMove, LInv, Shapes, RowOK
<1>5. SyncOK' /\ PostOK'
  BY DEF SyncKeep, SyncOK, PostOK, Idle
<1> QED
  BY <1>3, <1>4, <1>5, QuietKeeps DEF SyncKeep, CloudRests

LEMMA SyncMarkKeeps == ASSUME LInv, SyncMark PROVE LInv'
<1>1. sync.pc = "synced"
  BY DEF SyncMark
<1>2. Made(sync.i) /\ sync.i \in Intents /\ sync.a \in Attempts
  BY <1>1, SyncIs
<1>3. intent \in [Intents -> [of : Attempts \cup {None}, synced : BOOLEAN,
                              status : {"none", "READY", "EXPIRED", "REVOKED"} \cup Final]]
  BY DEF LInv, Shapes, IntentOK
<1>4. \A j \in Intents : /\ intent'[j].of = intent[j].of /\ intent'[j].status = intent[j].status
                         /\ j # sync.i => intent'[j] = intent[j]
  BY <1>3 DEF SyncMark
<1>5. intent' \in [Intents -> [of : Attempts \cup {None}, synced : BOOLEAN,
                               status : {"none", "READY", "EXPIRED", "REVOKED"} \cup Final]]
  BY <1>3 DEF SyncMark
<1>6. IntentOK' /\ \A i \in Intents : IntentMove(i)
  <2>1. \A i \in Intents : Made(i)' <=> Made(i)
    BY <1>4 DEF Made
  <2>2. \A i \in Intents : IntentMove(i)
    BY <1>1, <1>4 DEF IntentMove
  <2> QED
    BY <1>2, <1>4, <1>5, <2>1, <2>2 DEF SyncMark, LInv, Shapes, IntentOK
<1>7. RowOK' /\ \A a \in Attempts : RowMove(a)
  BY DEF SyncMark, RowMove, LInv, Shapes, RowOK
<1>8. SyncOK' /\ sync'.a = sync.a /\ sync'.status = sync.status
  BY <1>1, StepIs DEF SyncMark, storeVars
<1>9. PostOK'
  <2>1. ASSUME NEW a \in Attempts, a = sync.a, sync.status = "APPROVED" PROVE Booked(a)'
    <3>1. Booked(a)
      BY <1>1, <2>1 DEF LInv, Booking
    <3>2. Late(a)' <=> Late(a)
      BY <1>6, LateSame DEF SyncMark, SameOf, IntentMove
    <3> QED
      BY <3>1, <3>2 DEF Booked, SyncMark
  <2> QED
    BY <1>2, <1>8, <2>1 DEF PostOK
<1> QED
  BY <1>6, <1>7, <1>8, <1>9, QuietKeeps DEF SyncMark, CloudRests

\* A step of the outbox alone.
LEMMA OutboxKeeps ==
  ASSUME LInv, UNCHANGED <<cloudVars, screen, flight, saved, deal, running, terminal, stops>>,
         posts' \in [Attempts -> {"none", "PENDING", "SYNCED", "QUARANTINED"}],
         \A a \in Attempts : posts'[a] # "none" <=> posts[a] # "none",
         \A a \in Attempts : posts'[a] = "SYNCED" /\ deal[a].status = "APPROVED" => posts[a] = "SYNCED" \/ Booked(a),
         SyncOK', PostOK'
  PROVE  LInv'
<1>1. \A a : Late(a)' <=> Late(a)
  BY DEF Late, cloudVars
<1>2. \A i : Made(i)' <=> Made(i)
  BY DEF Made, cloudVars
<1>3. Shapes'
  <2>1. RowOK' /\ IntentOK' /\ TerminalOK'
    BY <1>2 DEF LInv, Shapes, RowOK, IntentOK, TerminalOK, cloudVars, terminal
  <2>2. ScreenOK'
    BY <1>2 DEF LInv, Shapes, ScreenOK
  <2>3. StoreOK'
    BY <1>2 DEF LInv, Shapes, StoreOK, cloudVars
  <2>4. RunOK'
    BY <1>2 DEF LInv, Shapes, RunOK, cloudVars
  <2> QED
    BY <2>1, <2>2, <2>3, <2>4 DEF Shapes
<1>4. Asked' /\ Told'
  BY DEF LInv, Asked, AskedOnce, Told, cloudVars, terminal
<1>5. Bound' /\ Kept'
  BY <1>1, <1>2 DEF LInv, Bound, Kept, cloudVars
<1>6. Bare' /\ Followed'
  BY <1>1 DEF LInv, Bare, Followed, cloudVars, terminal
<1>7. \A a : Booked(a)' <=> Booked(a)
  BY <1>1 DEF Booked, cloudVars
<1>8. Booking'
  BY <1>1, <1>7 DEF LInv, Booking, PostOK, cloudVars
<1> QED
  BY <1>3, <1>4, <1>5, <1>6, <1>8 DEF LInv

LEMMA SyncReadKeeps == ASSUME LInv, NEW a \in Attempts, SyncRead(a) PROVE LInv'
<1> DEFINE i == deal[a].by
<1>1. posts[a] = "PENDING" /\ deal[a].status \in Final
  BY DEF SyncRead, LInv, Shapes, StoreOK
<1>2. deal[a] \in [by : Intents \cup {None}, status : {"none", "PROCESSING"} \cup Final]
  BY DEF LInv, Shapes, StoreOK
<1>3. i \in Intents /\ intent[i].of = a
  <2>1. i # None
    BY <1>1 DEF LInv, Shapes, StoreOK, Final
  <2> QED
    BY <1>2, <2>1 DEF LInv, Shapes, StoreOK
<1>4. CASE intent[i].status = "REVOKED"
  <2>1. posts' = [posts EXCEPT ![a] = "QUARANTINED"] /\ UNCHANGED sync
    BY <1>4 DEF SyncRead
  <2>2. SyncOK'
    BY <2>1 DEF LInv, Shapes, SyncOK, SyncRead
  <2>3. PostOK'
    BY <2>1 DEF SyncRead, LInv, Booking, PostOK, Booked, Late, cloudVars
  <2> QED
    BY <1>1, <2>1, <2>2, <2>3, OutboxKeeps DEF SyncRead, CloudRests, LInv, Shapes, StoreOK
<1>5. CASE intent[i].status # "REVOKED"
  <2>1. sync' = [pc |-> First(i), a |-> a, i |-> i, status |-> deal[a].status] /\ UNCHANGED posts
    BY <1>5 DEF SyncRead
  <2>2. First(i) \in {"done", "bind", "apply"} /\ (First(i) = "done" => intent[i].synced)
    BY DEF First
  <2>3. deal[a] = [by |-> i, status |-> deal[a].status]
    BY <1>2
  <2>4. SyncOK'
    BY <1>1, <1>3, <2>1, <2>2, <2>3 DEF SyncOK, SyncRead
  <2>5. PostOK'
    <3>1. intent[i].synced /\ deal[a].status = "APPROVED" => Booked(a)
      BY <1>3 DEF LInv, Booking, Booked
    <3>2. Booked(a)' <=> Booked(a)
      BY DEF Booked, Late, SyncRead, cloudVars
    <3> QED
      BY <2>1, <2>2, <3>1, <3>2 DEF PostOK
  <2> QED
    BY <2>1, <2>4, <2>5, OutboxKeeps DEF SyncRead, CloudRests, LInv, Shapes, StoreOK
<1> QED
  BY <1>4, <1>5
LEMMA SyncDoneKeeps == ASSUME LInv, SyncDone PROVE LInv'
<1>1. sync.pc = "done"
  BY DEF SyncDone
<1>2. sync.a \in Attempts /\ deal[sync.a].status = sync.status /\ sync.status \in Final
  BY <1>1, SyncIs
<1>3. sync.status = "APPROVED" => Booked(sync.a)
  BY <1>1 DEF LInv, Booking
<1>4. posts' = [posts EXCEPT ![sync.a] = "SYNCED"]
  BY DEF SyncDone
<1>5. posts[sync.a] # "none"
  BY <1>2 DEF LInv, Shapes, StoreOK
<1>6. SyncOK' /\ PostOK'
  BY DEF SyncDone, SyncOK, PostOK, Idle
<1> HIDE DEF Booked
<1> QED
  BY <1>2, <1>3, <1>4, <1>5, <1>6, OutboxKeeps DEF SyncDone, CloudRests, LInv, Shapes, StoreOK
LEMMA SyncLostKeeps == ASSUME LInv, SyncLost PROVE LInv'
<1>1. SyncOK' /\ PostOK'
  BY DEF SyncLost, SyncOK, PostOK, Idle
<1> QED
  BY <1>1, OutboxKeeps DEF SyncLost, CloudRests, LInv, Shapes, StoreOK, storeVars

-----------------------------------------------------------------------------
(* The other ways to pay.                                                  *)

\* A row is paid otherwise; no intent knows.
LEMMA OtherKeeps ==
  ASSUME LInv, Others, UNCHANGED terminal, RowOK', \A a \in Attempts : RowMove(a)
  PROVE  LInv'
<1>1. IntentOK' /\ SameOf /\ \A i \in Intents : IntentMove(i)
  BY DEF Others, SameOf, IntentMove, LInv, Shapes, IntentOK, Made
<1>2. SyncOK' /\ PostOK'
  BY <1>1, PostStands DEF Others
<1> QED
  BY <1>1, <1>2, QuietKeeps DEF Others

LEMMA CloudSendKeeps == ASSUME LInv, NEW a \in Attempts, CloudSend(a) PROVE LInv'
<1>1. row[a].status = "PENDING" /\ row[a].by = None
  BY DEF CloudSend, MayPay, Unbound
<1>2. row' = [row EXCEPT ![a] = [status |-> "PROCESSING", by |-> Cloud, active |-> TRUE]]
  BY DEF CloudSend
<1>3. RowOK' /\ \A b \in Attempts : RowMove(b)
  BY <1>1, <1>2 DEF LInv, Shapes, RowOK, RowMove
<1> QED
  BY <1>3, OtherKeeps DEF CloudSend
LEMMA CashKeeps == ASSUME LInv, NEW a \in Attempts, Cash(a) PROVE LInv'
<1>1. row[a].status = "PENDING" /\ row[a].by = None
  BY DEF Cash, MayPay, Unbound
<1>2. row' = [row EXCEPT ![a].status = "COMPLETED"]
  BY DEF Cash
<1>3. RowOK' /\ \A b \in Attempts : RowMove(b)
  BY <1>1, <1>2 DEF LInv, Shapes, RowOK, RowMove
<1> QED
  BY <1>3, OtherKeeps DEF Cash
LEMMA ReconcileKeeps == ASSUME LInv, NEW a \in Attempts, Reconcile(a) PROVE LInv'
<1>1. row[a].status = "UNKNOWN"
  BY DEF Reconcile
<1>2. row' = [row EXCEPT ![a].status = "APPROVED", ![a].active = FALSE]
  BY DEF Reconcile
<1>3. RowOK' /\ \A b \in Attempts : RowMove(b)
  BY <1>1, <1>2 DEF LInv, Shapes, RowOK, RowMove, Final
<1> QED
  BY <1>3, OtherKeeps DEF Reconcile

\* Another row is planned only after a row that was declined, or in its place.
LEMMA AgainKeeps == ASSUME LInv, NEW a \in Attempts, Again(a) PROVE LInv'
<1>1. a \in Nat /\ a - 1 \in Attempts /\ a # 1
  BY LocalConstants DEF Again, Attempts
<1>2. row[a].status = "none" /\ row[a].by = None /\ row[a - 1].status # "none"
  BY DEF Again, IsLast, LInv, Bare
<1>3. \/ row[a - 1].status = "DECLINED" /\ row' = [row EXCEPT ![a] = NewRow]
      \/ /\ row[a - 1].status = "PENDING" /\ row[a - 1].by = None
         /\ row' = [row EXCEPT ![a] = NewRow, ![a - 1].status = "CANCELLED"]
  BY DEF Again, Unbound
<1>4. /\ row'[a].status = "PENDING" /\ row'[a].by = None
      /\ \/ row'[a - 1] = row[a - 1] /\ row[a - 1].status = "DECLINED"
         \/ row[a - 1].status = "PENDING" /\ row[a - 1].by = None
            /\ row'[a - 1].status = "CANCELLED" /\ row'[a - 1].by = None
      /\ \A b \in Attempts \ {a, a - 1} : row'[b] = row[b]
  <2>1. row \in [Attempts -> [status : {"none", "PENDING", "PROCESSING", "COMPLETED", "CANCELLED"} \cup Final,
                              by : Intents \cup {None, Cloud}, active : BOOLEAN]]
    BY DEF LInv, Shapes, RowOK
  <2> QED
    BY <1>1, <1>3, <2>1, NewRowIs
<1>5. RowOK'
  <2>1. row \in [Attempts -> [status : {"none", "PENDING", "PROCESSING", "COMPLETED", "CANCELLED"} \cup Final,
                              by : Intents \cup {None, Cloud}, active : BOOLEAN]]
    BY DEF LInv, Shapes, RowOK
  <2>2. NewRow \in [status : {"none", "PENDING", "PROCESSING", "COMPLETED", "CANCELLED"} \cup Final,
                    by : Intents \cup {None, Cloud}, active : BOOLEAN]
    BY NewRowIs
  <2>3. CASE row' = [row EXCEPT ![a] = NewRow]
    BY <2>1, <2>2, <2>3 DEF RowOK
  <2>4. CASE row' = [row EXCEPT ![a] = NewRow, ![a - 1].status = "CANCELLED"]
    <3>1. \A b \in Attempts : row'[b] = IF b = a - 1 THEN [row[b] EXCEPT !.status = "CANCELLED"]
                                        ELSE IF b = a THEN NewRow ELSE row[b]
      BY <1>1, <2>1, <2>4
    <3>2. DOMAIN row' = Attempts /\ row' = [b \in DOMAIN row' |-> row'[b]]
      BY <2>1, <2>4
    <3>3. \A b \in Attempts : row'[b] \in [status : {"none", "PENDING", "PROCESSING", "COMPLETED", "CANCELLED"} \cup Final,
                                           by : Intents \cup {None, Cloud}, active : BOOLEAN]
      BY <2>1, <2>2, <3>1
    <3> QED
      BY <3>2, <3>3 DEF RowOK
  <2> QED
    BY <1>3, <2>3, <2>4
<1>6. IntentOK' /\ SameOf /\ \A i \in Intents : IntentMove(i)
  BY DEF Again, Others, SameOf, IntentMove, LInv, Shapes, IntentOK, Made
<1>7. \A b \in Attempts : RowMove(b) \/ RowBegins(b)
  <2> TAKE b \in Attempts
  <2>1. CASE b = a
    BY <1>2, <1>4, <2>1 DEF RowBegins
  <2>2. CASE b = a - 1
    BY <1>4, <2>2 DEF RowMove
  <2>3. CASE b \notin {a, a - 1}
    BY <1>4, <2>3 DEF RowMove
  <2> QED
    BY <2>1, <2>2, <2>3
<1>8. SyncOK' /\ PostOK'
  BY <1>5, <1>6, <1>7, PostStands DEF Again, Others
<1>9. ScreenOK' /\ Kept'
  BY <1>6, ScreenStands DEF Again, Others
<1>10. Followed'
  <2> SUFFICES ASSUME NEW c \in Attempts, NEW b \in Attempts, c < b, row'[b].status # "none"
               PROVE  row'[c].status # "none" /\ (Late(c)' \/ mpos[c] = "DECLINED" \/ row'[c].status = "CANCELLED")
    BY DEF Followed, Again, terminal
  <2>1. \A x \in Attempts : Late(x)' <=> Late(x)
    BY <1>6, LateSame DEF Again, Others
  <2>2. b \in Nat /\ c \in Nat
    BY Numbers
  <2>3. CASE b > a
    <3>1. row[b].status # "none"
      BY <1>1, <1>4, <2>2, <2>3
    <3> QED
      BY <1>2, <2>3, <3>1 DEF LInv, Followed
  <2>4. CASE b <= a /\ c = a - 1
    <3>1. row[c].status = "DECLINED" => mpos[c] = "DECLINED"
      BY DEF LInv, Told
    <3> QED
      BY <1>4, <2>4, <3>1
  <2>5. CASE b <= a /\ c # a - 1
    <3>1. c < a - 1
      BY <1>1, <2>2, <2>5
    <3>2. row[c].status # "none" /\ (Late(c) \/ mpos[c] = "DECLINED" \/ row[c].status = "CANCELLED")
      BY <1>1, <1>2, <3>1 DEF LInv, Followed
    <3>3. row'[c] = row[c]
      BY <1>1, <1>4, <2>2, <3>1
    <3> QED
      BY <2>1, <3>2, <3>3
  <2> QED
    BY <1>1, <2>2, <2>3, <2>4, <2>5
<1> QED
  BY <1>5, <1>6, <1>7, <1>8, <1>9, <1>10, LedgerKeeps DEF Again, Others

-----------------------------------------------------------------------------
(* The terminal, and the rest of the cloud.                                *)

\* What the terminal told of a row it tells again.
LEMMA TerminalTells ==
  ASSUME LInv, NEW a \in Attempts, NEW outcome \in Final, Terminal(a, outcome)
  PROVE  /\ mpos' \in [Attempts -> {"none"} \cup Final] /\ charged' \in [Attempts -> BOOLEAN]
         /\ mpos'[a] = outcome
         /\ \A b \in Attempts : mpos[b] # "none" \/ b # a => mpos'[b] = mpos[b]
         /\ \A b \in Attempts : charged'[b] => mpos'[b] \in {"APPROVED", "UNKNOWN"}
<1>1. mpos \in [Attempts -> {"none"} \cup Final] /\ charged \in [Attempts -> BOOLEAN]
  BY DEF LInv, Shapes, TerminalOK
<1>2. \A b \in Attempts : charged[b] => mpos[b] \in {"APPROVED", "UNKNOWN"}
  BY DEF LInv, Told
<1>3. CASE mpos[a] # "none"
  BY <1>1, <1>2, <1>3 DEF Terminal
<1>4. CASE mpos[a] = "none"
  <2>1. mpos' = [mpos EXCEPT ![a] = outcome]
    BY <1>4 DEF Terminal
  <2>2. CASE outcome # "DECLINED" /\ charged' = [charged EXCEPT ![a] = TRUE]
    <3>1. \A b \in Attempts \ {a} : charged'[b] = charged[b] /\ mpos'[b] = mpos[b]
      BY <1>1, <2>1, <2>2
    <3>2. mpos'[a] = outcome /\ outcome \in {"APPROVED", "UNKNOWN"}
      BY <1>1, <2>1, <2>2 DEF Final
    <3>3. \A b \in Attempts : charged'[b] => mpos'[b] \in {"APPROVED", "UNKNOWN"}
      BY <1>2, <3>1, <3>2
    <3>4. charged' \in [Attempts -> BOOLEAN] /\ mpos' \in [Attempts -> {"none"} \cup Final]
      BY <1>1, <2>1, <2>2
    <3> QED
      BY <1>4, <3>1, <3>2, <3>3, <3>4
  <2>3. CASE UNCHANGED charged
    BY <1>1, <1>2, <1>4, <2>1, <2>3
  <2> QED
    BY <1>4, <2>2, <2>3 DEF Terminal
<1> QED
  BY <1>3, <1>4

\* The rows, once the terminal has told of one that is bound.
LEMMA TellsRows ==
  ASSUME LInv, NEW a \in Attempts, NEW outcome \in Final, Terminal(a, outcome), UNCHANGED cloudVars,
         row[a].by # None \/ Late(a)
  PROVE  Bare' /\ Followed'
<1>1. \A b : Late(b)' <=> Late(b)
  BY DEF Late, cloudVars
<1>2. \A b \in Attempts : mpos[b] # "none" \/ b # a => mpos'[b] = mpos[b]
  BY TerminalTells
<1>3. Bare'
  <2> SUFFICES ASSUME NEW b \in Attempts, row[b].by = None PROVE Late(b) \/ mpos'[b] = "none"
    BY <1>1 DEF LInv, Bare, cloudVars
  <2> QED
    BY <1>2 DEF LInv, Bare
<1>4. Followed'
  BY <1>1, <1>2 DEF LInv, Followed, cloudVars
<1> QED
  BY <1>3, <1>4

\* A row that the cloud sent is answered by the terminal.
LEMMA CloudResultKeeps ==
  ASSUME LInv, NEW a \in Attempts, NEW outcome \in Final, CloudResult(a, outcome) PROVE LInv'
<1>1. /\ row[a].by = Cloud /\ row[a].status = "PROCESSING" /\ running = Idle /\ Terminal(a, outcome)
      /\ row' = [row EXCEPT ![a].status = outcome, ![a].active = outcome = "UNKNOWN"]
      /\ Others /\ UNCHANGED tries
  BY DEF CloudResult
<1>2. row[a].by # None
  BY <1>1, Numbers
<1>3. /\ mpos' \in [Attempts -> {"none"} \cup Final] /\ charged' \in [Attempts -> BOOLEAN]
      /\ mpos'[a] = outcome
      /\ \A b \in Attempts : mpos[b] # "none" \/ b # a => mpos'[b] = mpos[b]
      /\ \A b \in Attempts : charged'[b] => mpos'[b] \in {"APPROVED", "UNKNOWN"}
  BY <1>1, TerminalTells
<1>4. row \in [Attempts -> [status : {"none", "PENDING", "PROCESSING", "COMPLETED", "CANCELLED"} \cup Final,
                            by : Intents \cup {None, Cloud}, active : BOOLEAN]]
  BY DEF LInv, Shapes, RowOK
<1>5. /\ row'[a].status = outcome /\ row'[a].by = Cloud
      /\ \A b \in Attempts \ {a} : row'[b] = row[b]
  BY <1>1, <1>4
<1>6. RowOK'
  <2>1. (outcome = "UNKNOWN") \in BOOLEAN
    OBVIOUS
  <2> QED
    BY <1>1, <1>4, <2>1 DEF RowOK
<1>7. \A b : (Late(b)' <=> Late(b)) /\ (Made(b)' <=> Made(b))
  BY <1>1 DEF Late, Made, Others
<1>8. Shapes'
  <2>1. IntentOK' /\ ScreenOK' /\ StoreOK' /\ RunOK' /\ SyncOK'
    BY <1>1, <1>7 DEF LInv, Shapes, IntentOK, ScreenOK, StoreOK, RunOK, SyncOK, Others, storeVars
  <2>2. TerminalOK'
    BY <1>1, <1>3 DEF LInv, Shapes, TerminalOK, Others
  <2> QED
    BY <1>6, <2>1, <2>2 DEF Shapes
<1>9. Asked' /\ Told'
  <2>1. Asked'
    BY <1>1 DEF LInv, Asked, AskedOnce, Others, storeVars, Idle
  <2>2. Told'
    BY <1>1, <1>3, <1>5 DEF LInv, Told, Others, storeVars, Idle
  <2> QED
    BY <2>1, <2>2
<1>10. Bound' /\ Kept'
  <2>1. \A i \in Intents : Made(i) /\ ~Late(intent[i].of) => row'[intent[i].of].by = i
    BY <1>1, <1>5, Numbers DEF LInv, Bound, Shapes, IntentOK
  <2> QED
    BY <1>1, <1>7, <2>1 DEF LInv, Bound, Kept, Others, storeVars
<1>11. Bare'
  <2> SUFFICES ASSUME NEW b \in Attempts
               PROVE  /\ row'[b].by \in Intents => intent[row'[b].by].of = b
                      /\ row'[b].status \in {"none", "CANCELLED", "COMPLETED"} => row'[b].by = None
                      /\ row'[b].by = None => Late(b) \/ mpos'[b] = "none"
    BY <1>1, <1>7 DEF Bare, Others
  <2>1. CASE b = a
    BY <1>5, <2>1, Numbers DEF Final
  <2>2. CASE b # a
    BY <1>3, <1>5, <2>2 DEF LInv, Bare
  <2> QED
    BY <2>1, <2>2
<1>12. Followed'
  <2> SUFFICES ASSUME NEW c \in Attempts, NEW b \in Attempts, c < b, row'[b].status # "none"
               PROVE  row'[c].status # "none" /\ (Late(c) \/ mpos'[c] = "DECLINED" \/ row'[c].status = "CANCELLED")
    BY <1>7 DEF Followed
  <2>1. row[b].status # "none"
    BY <1>1, <1>5
  <2>2. row[c].status # "none" /\ (Late(c) \/ mpos[c] = "DECLINED" \/ row[c].status = "CANCELLED")
    BY <2>1 DEF LInv, Followed
  <2> QED
    BY <1>1, <1>3, <1>5, <2>2 DEF Final
<1>13. Booking'
  <2>1. \A b \in Attempts : Booked(b) => Booked(b)'
    BY <1>1, <1>5, <1>7 DEF Booked
  <2> QED
    BY <1>1, <1>7, <2>1, SyncIs DEF LInv, Booking, Shapes, IntentOK, Others, storeVars
<1> QED
  BY <1>8, <1>9, <1>10, <1>11, <1>12, <1>13 DEF LInv

-----------------------------------------------------------------------------
(* An intent is signed, and gets old.                                      *)

LEMMA BindKeeps == ASSUME LInv, NEW s \in Screens, NEW i \in Intents, Bind(s, i) PROVE LInv'
<1> DEFINE a == screen[s].a
           x == [pc |-> "prepare", i |-> i]
<1>1. a \in Attempts
  BY ScreenIs DEF Bind, ScreenAt, LInv, Shapes, ScreenOK
<1>2. ~Made(i) /\ intent[i].of \notin Attempts /\ i \notin old
  BY DEF Bind, LInv, Shapes, IntentOK
<1>3. CASE ~MayBind(a)
  <2>1. ScreenGo(s, Idle) /\ UNCHANGED cloudVars
    BY <1>3 DEF Bind, cloudVars
  <2> QED
    BY <2>1, IdleIs, ScreenKeeps DEF Bind
<1>4. CASE MayBind(a)
  <2>1. /\ intent' = [intent EXCEPT ![i] = [of |-> a, status |-> "READY", synced |-> FALSE]]
        /\ row' = [row EXCEPT ![a].by = i, ![a].active = TRUE]
        /\ ScreenGo(s, x)
        /\ UNCHANGED <<old, flight, storeVars, running, sync, terminal, stops>>
        /\ row[a].status = "PENDING" /\ row[a].by = None
    BY <1>4 DEF Bind, MayBind, Unbound
  <2> HIDE DEF a
  <2>2. /\ intent'[i] = [of |-> a, status |-> "READY", synced |-> FALSE]
        /\ \A j \in Intents \ {i} : intent'[j] = intent[j]
    BY <2>1 DEF LInv, Shapes, IntentOK
  <2>3. row \in [Attempts -> [status : {"none", "PENDING", "PROCESSING", "COMPLETED", "CANCELLED"} \cup Final,
                              by : Intents \cup {None, Cloud}, active : BOOLEAN]]
    BY DEF LInv, Shapes, RowOK
  <2>4. /\ \A b \in Attempts : row'[b].status = row[b].status /\ row'[b].by = IF b = a THEN i ELSE row[b].by
        /\ RowOK'
    BY <1>1, <2>1, <2>3 DEF RowOK
  <2>5. /\ Made(i)' /\ \A j \in Intents \ {i} : Made(j)' <=> Made(j)
        /\ \A j \in Intents : Made(j) => j # i
    BY <1>2, <2>2 DEF Made
  <2>6. Grows
    BY <2>1, <2>2, <2>5 DEF Grows
  <2>7. \A b \in Attempts : Late(b)' <=> Late(b)
    BY <1>2, <2>1, <2>2 DEF Late, LInv, Shapes, IntentOK
  <2>8. IntentOK'
    <3>1. intent' \in [Intents -> [of : Attempts \cup {None}, synced : BOOLEAN,
                                   status : {"none", "READY", "EXPIRED", "REVOKED"} \cup Final]]
      BY <1>1, <2>1 DEF LInv, Shapes, IntentOK
    <3> QED
      BY <1>1, <2>1, <2>2, <2>5, <3>1 DEF LInv, Shapes, IntentOK
  <2>9. ScreenOK' /\ Kept'
    <3>1. x \in ScreenState /\ x.pc = "prepare" /\ x.i = i /\ intent'[i].of \in Attempts
      BY <1>1, <2>2 DEF ScreenState, OfIntent
    <3> QED
      BY <2>1, <2>6, <2>8, <3>1, ScreenGoes
  <2>10. StoreOK' /\ RunOK' /\ SyncOK' /\ TerminalOK'
    <3>1. \A b \in Attempts : deal[b].by # None => deal[b].by \in Intents \ {i} /\ intent'[deal[b].by].of = b
      <4> TAKE b \in Attempts
      <4> HAVE deal[b].by # None
      <4>1. deal[b].by \in Intents /\ intent[deal[b].by].of = b
        BY DEF LInv, Shapes, StoreOK
      <4> QED
        BY <1>2, <2>2, <4>1
    <3>2. StoreOK'
      BY <2>1, <2>5, <3>1 DEF LInv, Shapes, StoreOK, storeVars
    <3>3. running # Idle => running.f.i \in Intents \ {i} /\ intent'[running.f.i] = intent[running.f.i]
      BY <2>2, <2>5, RunIs DEF LInv, Shapes, RunOK, Request
    <3>4. running # Idle => Made(running.f.i)'
      BY <2>1, <2>5, <3>3 DEF LInv, Shapes, RunOK, Made
    <3>5. RunOK'
      BY <2>1, <3>3, <3>4 DEF LInv, Shapes, RunOK, storeVars
    <3> QED
      BY <2>1, <3>2, <3>5 DEF LInv, Shapes, SyncOK, TerminalOK, storeVars, terminal
  <2>11. Asked' /\ Told'
    <3>1. running # Idle => intent'[running.f.i] = intent[running.f.i]
      BY <2>2, <2>5, RunIs DEF LInv, Shapes, RunOK, Request
    <3> QED
      BY <2>1, <2>4, <3>1, RunIs DEF LInv, Asked, AskedOnce, Told, storeVars, terminal
  <2>12. Bound'
    <3> SUFFICES ASSUME NEW j \in Intents, Made(j)', NEW b \in Attempts, intent'[j].of = b, ~Late(b)'
                 PROVE  /\ row'[b].by = j
                        /\ intent'[j].status \notin {"EXPIRED", "REVOKED"} /\ saved'[j] # "REVOKED"
      BY <2>8 DEF Bound, IntentOK
    <3>1. CASE j = i
      <4>1. saved[i] = "none"
        BY <1>2 DEF LInv, Shapes, StoreOK
      <4>2. b = a /\ intent'[i].status = "READY"
        BY <2>2, <3>1
      <4> QED
        BY <1>1, <2>1, <2>4, <3>1, <4>1, <4>2 DEF storeVars
    <3>2. CASE j # i
      <4>1. Made(j) /\ intent'[j] = intent[j] /\ intent[j].of = b /\ ~Late(b)
        BY <2>2, <2>5, <2>7, <3>2
      <4>2. row[b].by = j /\ intent[j].status \notin {"EXPIRED", "REVOKED"} /\ saved[j] # "REVOKED"
        BY <4>1 DEF LInv, Bound
      <4>3. b # a
        BY <2>1, <4>2, Numbers
      <4> QED
        BY <2>1, <2>4, <4>1, <4>2, <4>3 DEF storeVars
    <3> QED
      BY <3>1, <3>2
  <2>13. Bare'
    <3> SUFFICES ASSUME NEW b \in Attempts
                 PROVE  /\ row'[b].by \in Intents => intent'[row'[b].by].of = b
                        /\ row'[b].status \in {"none", "CANCELLED", "COMPLETED"} => row'[b].by = None
                        /\ row'[b].by = None => Late(b)' \/ mpos[b] = "none"
      BY <2>1 DEF Bare, terminal
    <3>1. CASE b = a
      <4>1. row'[b].by = i /\ row'[b].status = row[b].status
        BY <2>4, <3>1
      <4>2. row[b].status = "PENDING"
        BY <2>1, <3>1
      <4>3. intent'[i].of = b
        BY <2>2, <3>1
      <4> QED
        BY <4>1, <4>2, <4>3, Numbers
    <3>2. CASE b # a
      <4>1. row[b].by \in Intents => intent[row[b].by].of = b /\ row[b].by # i
        BY <1>2 DEF LInv, Bare
      <4> QED
        BY <2>2, <2>4, <2>7, <3>2, <4>1 DEF LInv, Bare
    <3> QED
      BY <3>1, <3>2
  <2>14. Followed'
    BY <2>1, <2>4, <2>7 DEF LInv, Followed, terminal
  <2>15. Booking'
    <3>1. \A b \in Attempts : Booked(b)' <=> Booked(b)
      BY <2>4, <2>7 DEF Booked
    <3>2. sync.pc \in {"keep", "synced", "done"} => sync.a \in Attempts
      BY SyncIs
    <3>3. \A j \in Intents : intent'[j].synced => j # i /\ intent[j].of \in Attempts
      BY <2>2 DEF LInv, Shapes, IntentOK
    <3> QED
      BY <2>1, <2>2, <2>7, <3>1, <3>2, <3>3 DEF LInv, Booking, storeVars
  <2> QED
    BY <2>4, <2>8, <2>9, <2>10, <2>11, <2>12, <2>13, <2>14, <2>15 DEF LInv, Shapes
<1> QED
  BY <1>3, <1>4

\* An intent that gets old only takes promises away.
LEMMA AgeKeeps == ASSUME LInv, NEW i \in Intents, Age(i) PROVE LInv'
<1>1. Made(i) /\ old' = old \cup {i}
      /\ UNCHANGED <<row, intent, screen, flight, storeVars, running, sync, terminal, stops>>
  BY DEF Age
<1>2. \A a : Late(a) => Late(a)'
  BY <1>1 DEF Late
<1>3. \A j : Made(j)' <=> Made(j)
  BY <1>1 DEF Made
<1>4. Shapes'
  BY <1>1, <1>3 DEF LInv, Shapes, RowOK, IntentOK, ScreenOK, StoreOK, RunOK, SyncOK, TerminalOK, storeVars, terminal
<1>5. Asked' /\ Told'
  BY <1>1 DEF LInv, Asked, AskedOnce, Told, storeVars, terminal
<1>6. Bound' /\ Kept' /\ Bare' /\ Followed'
  BY <1>1, <1>2, <1>3 DEF LInv, Bound, Kept, Bare, Followed, storeVars, terminal
<1>7. \A a : Booked(a) => Booked(a)'
  BY <1>1, <1>2 DEF Booked
<1>8. Booking'
  BY <1>1, <1>2, <1>7 DEF LInv, Booking, storeVars
<1> QED
  BY <1>4, <1>5, <1>6, <1>8 DEF LInv

-----------------------------------------------------------------------------
(* The bridge.                                                             *)

\* While the cloud does nothing its tables stay as they are.
LEMMA CloudRestsKeeps ==
  ASSUME LInv, UNCHANGED cloudVars
  PROVE  /\ RowOK' /\ IntentOK'
         /\ \A a : Late(a)' <=> Late(a)
         /\ \A i : Made(i)' <=> Made(i)
         /\ \A a : Booked(a)' <=> Booked(a)
BY DEF LInv, Shapes, RowOK, IntentOK, Made, Late, Booked, cloudVars

\* An intent that the bridge refuses is one of a late row.
LEMMA RefusedIsLate ==
  ASSUME LInv, NEW i \in Intents, Made(i), ~Accepted(i)
  PROVE  Late(intent[i].of)
<1>1. intent[i].of \in Attempts
  BY DEF LInv, Shapes, IntentOK
<1>2. CASE i \in old
  BY <1>2 DEF Late
<1>3. CASE saved[i] = "REVOKED"
  BY <1>3 DEF LInv, Bound
<1>4. CASE Prior(i) # {}
  <2>1. PICK j \in Intents \ {i} : intent[j].of = intent[i].of /\ saved[j] # "none"
    BY <1>4 DEF Prior
  <2>2. Made(j)
    BY <1>1, <2>1 DEF LInv, Shapes, IntentOK
  <2> QED
    BY <2>1, <2>2 DEF LInv, Bound
<1> QED
  BY <1>2, <1>3, <1>4 DEF Accepted

LEMMA PrepareKeeps == ASSUME LInv, NEW s \in Screens, Prepare(s) PROVE LInv'
<1> DEFINE i == screen[s].i
           x == [screen[s] EXCEPT !.pc = "wait"]
<1>1. screen[s].pc \in OfIntent /\ "wait" \in OfIntent /\ "release" \in OfIntent
  BY DEF Prepare, ScreenAt, OfIntent
<1>2. i \in Intents /\ Made(i) /\ intent[i].of \in Attempts
  BY <1>1, AtWork
<1>3. CASE ~Accepted(i)
  <2>1. Turn(s, "release") /\ UNCHANGED <<saved, flight>>
    BY <1>3 DEF Prepare
  <2> QED
    BY <1>1, <1>2, <1>3, <2>1, AtWork, ScreenKeeps, RefusedIsLate DEF Prepare, Turn, storeVars
<1>4. CASE Accepted(i)
  <2>1. /\ SaveIntent(i) /\ ScreenGo(s, x) /\ flight' = flight \cup {[of |-> s, i |-> i]}
        /\ UNCHANGED <<cloudVars, deal, posts, running, sync, terminal, stops>>
    BY <1>4 DEF Prepare, Turn
  <2>2. x \in ScreenState /\ x.pc = "wait" /\ x.i = i
    BY <1>1, AtWork
  <2> HIDE DEF x, i
  <2>3. \A j \in Intents : /\ saved'[j] # "none" => saved[j] # "none" \/ j = i
                           /\ saved'[j] = "REVOKED" => saved[j] = "REVOKED" \/ (j \in Prior(i) /\ saved[j] = "READY")
    BY <2>1 DEF SaveIntent
  <2>4. saved' \in [Intents -> {"none", "READY", "REVOKED", "PROCESSING"} \cup Final]
    BY <2>1 DEF SaveIntent, LInv, Shapes, StoreOK
  <2>5. /\ RowOK' /\ IntentOK'
        /\ \A a : Late(a)' <=> Late(a)
        /\ \A j : Made(j)' <=> Made(j)
        /\ \A a : Booked(a)' <=> Booked(a)
    BY <2>1, CloudRestsKeeps
  <2>6. Shapes'
    <3>1. ScreenOK'
      <4>1. screen' \in [Screens -> ScreenState]
        BY <2>1, <2>2 DEF ScreenGo, LInv, Shapes, ScreenOK
      <4>2. \A t \in Screens : screen'[t].pc \in OfIntent => intent'[screen'[t].i].status # "none"
        BY <1>2, <2>1, <2>2 DEF ScreenGo, LInv, Shapes, ScreenOK, Made, cloudVars
      <4>3. flight' \subseteq Request
        BY <1>2, <2>1 DEF LInv, Shapes, ScreenOK, Request
      <4>4. \A f \in flight' : intent'[f.i].status # "none"
        BY <1>2, <2>1 DEF LInv, Shapes, ScreenOK, Made, cloudVars
      <4> QED
        BY <4>1, <4>2, <4>3, <4>4 DEF ScreenOK, Made
    <3>2. StoreOK'
      BY <1>2, <2>1, <2>3, <2>4, <2>5 DEF LInv, Shapes, StoreOK, cloudVars
    <3>3. RunOK' /\ SyncOK' /\ TerminalOK'
      BY <2>1, <2>5 DEF LInv, Shapes, RunOK, SyncOK, TerminalOK, terminal, cloudVars
    <3> QED
      BY <2>5, <3>1, <3>2, <3>3 DEF Shapes
  <2>7. Asked' /\ Told'
    BY <2>1 DEF LInv, Asked, AskedOnce, Told, cloudVars, terminal
  <2>8. Bound'
    <3>1. ASSUME NEW j \in Intents, j \in Prior(i), saved[j] = "READY" PROVE Late(intent[j].of)
      <4>1. j # i /\ intent[j].of = intent[i].of /\ Made(j)
        BY <3>1 DEF Prior, LInv, Shapes, StoreOK
      <4> QED
        BY <1>2, <4>1 DEF LInv, Bound
    <3> QED
      BY <2>1, <2>3, <2>5, <3>1 DEF LInv, Bound, cloudVars
  <2>9. Kept'
    <3> SUFFICES ASSUME NEW t \in Screens, screen'[t].pc \in {"release", "revoke"}
                 PROVE  Late(intent[screen'[t].i].of)
      BY <2>1, <2>5 DEF Kept, cloudVars
    <3>1. screen'[t] = screen[t]
      BY <2>1, <2>2 DEF ScreenGo, LInv, Shapes, ScreenOK
    <3> QED
      BY <3>1 DEF LInv, Kept
  <2>10. Bare' /\ Followed'
    BY <2>1, <2>5 DEF LInv, Bare, Followed, cloudVars, terminal
  <2>11. Booking'
    BY <2>1, <2>5 DEF LInv, Booking, cloudVars
  <2> QED
    BY <2>6, <2>7, <2>8, <2>9, <2>10, <2>11 DEF LInv
<1> QED
  BY <1>3, <1>4

\* The screen hears of its request, if it still waits.
LEMMA AnswerStands ==
  ASSUME LInv, NEW f \in Request, Made(f.i), NEW pc \in {"idle", "release"}, Answer(f, pc),
         UNCHANGED cloudVars, flight' \subseteq flight,
         pc = "release" => Late(intent[f.i].of)
  PROVE  ScreenOK' /\ Kept'
<1>1. screen \in [Screens -> ScreenState] /\ f.of \in Screens /\ f.i \in Intents
  BY DEF LInv, Shapes, ScreenOK, Request
<1>2. /\ \A a : Late(a)' <=> Late(a)
      /\ \A j : Made(j)' <=> Made(j)
  BY CloudRestsKeeps
<1>3. ScreenAt(f.of, "wait") => /\ [screen[f.of] EXCEPT !.pc = "release"] \in ScreenState
                                /\ [screen[f.of] EXCEPT !.pc = "release"].pc = "release"
                                /\ [screen[f.of] EXCEPT !.pc = "release"].i = screen[f.of].i
                                /\ Made(screen[f.of].i)
  BY <1>1, AtWork DEF ScreenAt, OfIntent
<1>4. /\ screen' \in [Screens -> ScreenState]
      /\ \A t \in Screens : \/ screen'[t] = screen[t]
                            \/ screen'[t] = Idle
                            \/ pc = "release" /\ screen'[t].pc = "release" /\ screen'[t].i = f.i
  <2>1. CASE screen' = screen
    BY <1>1, <2>1
  <2>2. CASE screen' # screen /\ pc = "idle"
    <3>1. screen' = [screen EXCEPT ![f.of] = Idle]
      BY <2>2 DEF Answer
    <3> QED
      BY <1>1, <3>1, IdleIs
  <2>3. CASE screen' # screen /\ pc = "release"
    <3>1. /\ screen' = [screen EXCEPT ![f.of] = [screen[f.of] EXCEPT !.pc = "release"]]
          /\ ScreenAt(f.of, "wait") /\ screen[f.of].i = f.i
      BY <1>1, <2>3 DEF Answer
    <3> QED
      BY <1>1, <1>3, <2>3, <3>1
  <2> QED
    BY <2>1, <2>2, <2>3
<1>5. ScreenOK'
  <2>1. \A t \in Screens : screen'[t].pc \in OfIntent => intent'[screen'[t].i].status # "none"
    BY <1>4, IdleIs DEF LInv, Shapes, ScreenOK, Made, cloudVars
  <2>2. flight' \subseteq Request /\ \A g \in flight' : intent'[g.i].status # "none"
    BY DEF LInv, Shapes, ScreenOK, Made, cloudVars
  <2> QED
    BY <1>4, <2>1, <2>2 DEF ScreenOK, Made
<1>6. Kept'
  <2> SUFFICES ASSUME NEW t \in Screens, screen'[t].pc \in {"release", "revoke"}
               PROVE  Late(intent[screen'[t].i].of)
    BY <1>2 DEF Kept, cloudVars
  <2> QED
    BY <1>4, IdleIs DEF LInv, Kept, OfIntent
<1> QED
  BY <1>5, <1>6

LEMMA BridgeKeeps ==
  ASSUME LInv, UNCHANGED cloudVars, ScreenOK', Kept', StoreOK', RunOK', SyncOK', TerminalOK',
         Asked', Told', Bare', Followed', Booking',
         \A i \in Intents : saved'[i] = "REVOKED" => saved[i] = "REVOKED"
  PROVE  LInv'
<1>1. /\ RowOK' /\ IntentOK'
      /\ \A a : Late(a)' <=> Late(a)
      /\ \A i : Made(i)' <=> Made(i)
  BY CloudRestsKeeps
<1>2. Bound'
  BY <1>1 DEF LInv, Bound, cloudVars
<1> QED
  BY <1>1, <1>2 DEF LInv, Shapes

LEMMA ExecuteKeeps == ASSUME LInv, NEW f \in flight, Execute(f) PROVE LInv'
<1> DEFINE i == f.i
           a == intent[i].of
           begin == ~Recorded(a) /\ running = Idle /\ Accepted(i)
<1>1. f \in Request /\ i \in Intents /\ Made(i) /\ a \in Attempts
  BY DEF LInv, Shapes, ScreenOK, IntentOK, Request
<1>2. /\ UNCHANGED <<cloudVars, posts, sync, terminal, stops>> /\ flight' \subseteq flight
      /\ \/ ~Accepted(i) /\ Answer(f, "release")
         \/ Answer(f, "idle")
         \/ begin /\ UNCHANGED screen
      /\ IF begin
         THEN /\ running' = [pc |-> "present", f |-> f]
              /\ deal' = [deal EXCEPT ![a] = [by |-> i, status |-> "PROCESSING"]]
              /\ saved' = [saved EXCEPT ![i] = "PROCESSING"]
         ELSE UNCHANGED <<running, deal, saved>>
  BY DEF Execute, AfterBusy
<1>3. i = f.i /\ a = intent[i].of
  OBVIOUS
<1> HIDE DEF i, a
<1>4. /\ RowOK' /\ IntentOK'
      /\ \A b : Late(b)' <=> Late(b)
      /\ \A j : Made(j)' <=> Made(j)
      /\ \A b : Booked(b)' <=> Booked(b)
  BY <1>2, CloudRestsKeeps
<1>5. ScreenOK' /\ Kept'
  <2>1. CASE ~Accepted(i) /\ Answer(f, "release")
    BY <1>1, <1>2, <1>3, <2>1, AnswerStands, RefusedIsLate
  <2>2. CASE Answer(f, "idle")
    BY <1>1, <1>2, <1>3, <2>2, AnswerStands
  <2>3. CASE UNCHANGED screen
    BY <1>2, <1>4, <2>3 DEF LInv, Shapes, ScreenOK, Kept, cloudVars
  <2> QED
    BY <1>2, <2>1, <2>2, <2>3
<1>6. Bare' /\ Followed'
  BY <1>2, <1>4 DEF LInv, Bare, Followed, cloudVars, terminal
<1>7. TerminalOK'
  BY <1>2 DEF LInv, Shapes, TerminalOK, terminal
<1>8. CASE ~begin
  <2>1. UNCHANGED <<running, deal, saved>>
    BY <1>2, <1>8
  <2>2. StoreOK' /\ RunOK' /\ SyncOK' /\ Asked' /\ Told' /\ Booking'
    BY <1>2, <1>4, <2>1 DEF LInv, Shapes, StoreOK, RunOK, SyncOK, Asked, AskedOnce, Told, Booking, cloudVars, terminal
  <2> QED
    BY <1>2, <1>5, <1>6, <1>7, <2>1, <2>2, BridgeKeeps
<1>9. CASE begin
  <2>1. /\ running' = [pc |-> "present", f |-> f]
        /\ deal' = [deal EXCEPT ![a] = [by |-> i, status |-> "PROCESSING"]]
        /\ saved' = [saved EXCEPT ![i] = "PROCESSING"]
    BY <1>2, <1>9
  <2>2. deal[a].by = None /\ deal[a].status = "none" /\ running = Idle
    BY <1>1, <1>9 DEF Recorded, LInv, Shapes, StoreOK
  <2> HIDE DEF begin
  <2>3. deal \in [Attempts -> [by : Intents \cup {None}, status : {"none", "PROCESSING"} \cup Final]]
    BY DEF LInv, Shapes, StoreOK
  <2>4. /\ deal' \in [Attempts -> [by : Intents \cup {None}, status : {"none", "PROCESSING"} \cup Final]]
        /\ deal'[a] = [by |-> i, status |-> "PROCESSING"]
        /\ \A b \in Attempts \ {a} : deal'[b] = deal[b]
    BY <1>1, <2>1, <2>3
  <2>5. saved' \in [Intents -> {"none", "READY", "REVOKED", "PROCESSING"} \cup Final]
        /\ \A j \in Intents : saved'[j] = IF j = i THEN "PROCESSING" ELSE saved[j]
    BY <1>1, <2>1 DEF LInv, Shapes, StoreOK
  <2>6. StoreOK'
    <3>1. posts[a] = "none" /\ i # None
      BY <1>1, <2>2, Numbers DEF LInv, Shapes, StoreOK, Final
    <3>2. \A b \in Attempts : /\ deal'[b].status = "none" <=> deal'[b].by = None
                              /\ deal'[b].by # None => intent[deal'[b].by].of = b
                              /\ posts[b] # "none" <=> deal'[b].status \in Final
      <4> TAKE b \in Attempts
      <4>1. CASE b = a
        BY <1>3, <2>4, <3>1, <4>1 DEF Final
      <4>2. CASE b # a
        BY <2>4, <4>2 DEF LInv, Shapes, StoreOK
      <4> QED
        BY <4>1, <4>2
    <3>3. \A j \in Intents : saved'[j] # "none" => Made(j)
      BY <1>1, <2>5 DEF LInv, Shapes, StoreOK
    <3> QED
      BY <1>2, <1>4, <2>4, <2>5, <3>2, <3>3 DEF LInv, Shapes, StoreOK, cloudVars
  <2>7. RunOK'
    <3>1. running' # Idle /\ running'.f = f /\ running'.pc = "present"
      BY <2>1 DEF Idle
    <3>2. running' \in [pc : {"present"}, f : Request]
      BY <1>1, <2>1
    <3>3. \A b \in Attempts : deal'[b].status = "PROCESSING" => b = a
      BY <2>2, <2>4 DEF LInv, Shapes, RunOK
    <3>4. intent'[f.i].of = a /\ intent'[f.i].status # "none"
      BY <1>1, <1>2, <1>3 DEF Made, cloudVars
    <3> QED
      BY <1>3, <2>4, <3>1, <3>2, <3>3, <3>4 DEF RunOK, Made
  <2>8. SyncOK' /\ (sync # Idle => sync.a # a)
    <3>1. sync # Idle => sync.a \in Attempts /\ sync.a # a
      BY <2>2 DEF LInv, Shapes, SyncOK, Final
    <3> QED
      BY <1>2, <2>4, <3>1 DEF LInv, Shapes, SyncOK
  <2>9. Asked'
    <3>1. tries[a] = 0 /\ running'.f.i = i /\ intent' = intent /\ tries' = tries
      BY <1>1, <1>2, <1>3, <2>1, <2>2 DEF LInv, Asked, cloudVars, terminal
    <3> QED
      BY <1>3, <2>4, <3>1, Numbers DEF LInv, Asked, AskedOnce
  <2>10. Told'
    <3>1. running'.pc = "present"
      BY <2>1
    <3> QED
      BY <1>2, <2>4, <3>1 DEF LInv, Told, cloudVars, terminal
  <2>11. Booking'
    <3>1. \A b \in Attempts : posts[b] = "SYNCED" => b # a
      BY <2>2 DEF LInv, Shapes, StoreOK, Final
    <3>2. \A j \in Intents : intent[j].synced => Late(intent[j].of) \/ (intent[j].of \in Attempts \ {a})
      BY <2>2 DEF LInv, Booking, Shapes, IntentOK, Final
    <3> QED
      BY <1>2, <1>4, <2>4, <3>1, <3>2 DEF LInv, Booking, cloudVars
  <2> QED
    BY <1>2, <1>5, <1>6, <1>7, <2>5, <2>6, <2>7, <2>8, <2>9, <2>10, <2>11, BridgeKeeps
<1> QED
  BY <1>8, <1>9

LEMMA PresentKeeps == ASSUME LInv, NEW outcome \in Final, Present(outcome) PROVE LInv'
<1> DEFINE i == running.f.i
           a == intent[i].of
<1>1. /\ running.pc = "present" /\ Terminal(a, outcome) /\ tries' = [tries EXCEPT ![a] = @ + 1]
      /\ running' = [pc |-> "complete", f |-> running.f, outcome |-> outcome]
      /\ UNCHANGED <<cloudVars, screen, flight, storeVars, sync, stops>>
  BY DEF Present
<1>2. running # Idle /\ running.f \in Request /\ i \in Intents
  BY <1>1, RunIs DEF Request
<1>3. Made(i) /\ a \in Attempts /\ deal[a] = [by |-> i, status |-> "PROCESSING"] /\ tries[a] = 0
  BY <1>1, <1>2 DEF LInv, Shapes, RunOK, IntentOK, Asked
<1>4. i = running.f.i /\ a = intent[i].of
  OBVIOUS
<1> HIDE DEF i, a
<1>5. /\ RowOK' /\ IntentOK'
      /\ \A b : Late(b)' <=> Late(b)
      /\ \A j : Made(j)' <=> Made(j)
      /\ \A b : Booked(b)' <=> Booked(b)
  BY <1>1, CloudRestsKeeps
<1>6. /\ mpos' \in [Attempts -> {"none"} \cup Final] /\ charged' \in [Attempts -> BOOLEAN]
      /\ mpos'[a] = outcome
      /\ \A b \in Attempts : mpos[b] # "none" \/ b # a => mpos'[b] = mpos[b]
      /\ \A b \in Attempts : charged'[b] => mpos'[b] \in {"APPROVED", "UNKNOWN"}
  BY <1>1, <1>3, TerminalTells
<1>7. Bare' /\ Followed'
  <2>1. row[a].by # None \/ Late(a)
    BY <1>3, <1>4, Numbers, <1>2 DEF LInv, Bound
  <2> QED
    BY <1>1, <1>3, <2>1, TellsRows
<1>8. ScreenOK' /\ Kept' /\ StoreOK' /\ SyncOK'
  BY <1>1, <1>5 DEF LInv, Shapes, ScreenOK, Kept, StoreOK, SyncOK, storeVars, cloudVars
<1>9. /\ running' # Idle /\ running'.f = running.f /\ running'.pc = "complete" /\ running'.outcome = outcome
      /\ running' \in [pc : {"complete"}, f : Request, outcome : Final]
  BY <1>1, <1>2 DEF Idle
<1>10. RunOK'
  <2>1. intent'[running.f.i].status # "none" /\ intent' = intent /\ deal' = deal
    BY <1>1, <1>3, <1>4 DEF Made, cloudVars, storeVars
  <2> QED
    BY <1>2, <1>9, <2>1 DEF LInv, Shapes, RunOK, Made
<1>11. TerminalOK' /\ Asked'
  <2>1. /\ tries' \in [Attempts -> Nat] /\ tries'[a] = 1
        /\ \A b \in Attempts \ {a} : tries'[b] = tries[b]
    BY <1>1, <1>3 DEF LInv, Shapes, TerminalOK
  <2>2. TerminalOK'
    BY <1>1, <1>6, <2>1 DEF LInv, Shapes, TerminalOK
  <2>3. Asked'
    BY <1>1, <1>2, <1>3, <1>9, <2>1, Numbers DEF LInv, Asked, AskedOnce, storeVars
  <2> QED
    BY <2>2, <2>3
<1>12. Told'
  <2>1. \A b \in Attempts : deal[b].status \in {"APPROVED", "DECLINED"} => mpos'[b] = deal[b].status
    BY <1>6 DEF LInv, Told
  <2>2. \A b \in Attempts : row[b].status = "DECLINED" => mpos'[b] = "DECLINED"
    BY <1>6 DEF LInv, Told
  <2>3. mpos'[intent'[running'.f.i].of] = running'.outcome
    BY <1>1, <1>4, <1>6, <1>9 DEF cloudVars
  <2> QED
    BY <1>1, <1>6, <2>1, <2>2, <2>3 DEF Told, cloudVars, storeVars
<1>13. Booking'
  BY <1>1, <1>5 DEF LInv, Booking, cloudVars, storeVars
<1> QED
  BY <1>1, <1>7, <1>8, <1>10, <1>11, <1>12, <1>13, BridgeKeeps DEF storeVars

LEMMA CompleteKeeps == ASSUME LInv, Complete PROVE LInv'
<1> DEFINE i == running.f.i
           a == intent[i].of
           outcome == running.outcome
<1>1. /\ running.pc = "complete" /\ running' = Idle /\ Answer(running.f, "idle")
      /\ deal' = [deal EXCEPT ![a].status = outcome] /\ saved' = [saved EXCEPT ![i] = outcome]
      /\ posts' = Queued({a})
      /\ UNCHANGED <<cloudVars, flight, sync, terminal, stops>>
  BY DEF Complete
<1>2. running # Idle /\ running.f \in Request /\ i \in Intents /\ outcome \in Final
  BY <1>1, RunIs DEF Request
<1>3. /\ Made(i) /\ a \in Attempts /\ deal[a] = [by |-> i, status |-> "PROCESSING"] /\ mpos[a] = outcome
      /\ \A b \in Attempts : deal[b].status = "PROCESSING" => b = a
  BY <1>1, <1>2 DEF LInv, Shapes, RunOK, IntentOK, Told
<1>4. i = running.f.i /\ a = intent[i].of /\ outcome = running.outcome
  OBVIOUS
<1> HIDE DEF i, a, outcome
<1>5. /\ RowOK' /\ IntentOK'
      /\ \A b : Late(b)' <=> Late(b)
      /\ \A j : Made(j)' <=> Made(j)
      /\ \A b : Booked(b)' <=> Booked(b)
  BY <1>1, CloudRestsKeeps
<1>6. ScreenOK' /\ Kept'
  BY <1>1, <1>2, <1>3, <1>4, AnswerStands
<1>7. Bare' /\ Followed'
  BY <1>1, <1>5 DEF LInv, Bare, Followed, cloudVars, terminal
<1>8. deal \in [Attempts -> [by : Intents \cup {None}, status : {"none", "PROCESSING"} \cup Final]]
  BY DEF LInv, Shapes, StoreOK
<1>9. /\ deal' \in [Attempts -> [by : Intents \cup {None}, status : {"none", "PROCESSING"} \cup Final]]
      /\ deal'[a].by = i /\ deal'[a].status = outcome
      /\ \A b \in Attempts \ {a} : deal'[b] = deal[b]
  BY <1>1, <1>2, <1>3, <1>8
<1>10. /\ posts' \in [Attempts -> {"none", "PENDING", "SYNCED", "QUARANTINED"}]
       /\ posts'[a] = "PENDING"
       /\ \A b \in Attempts \ {a} : posts'[b] = posts[b]
  <2>1. posts[a] = "none"
    BY <1>3 DEF LInv, Shapes, StoreOK, Final
  <2> QED
    BY <1>1, <1>3, <2>1 DEF Queued, LInv, Shapes, StoreOK
<1>11. /\ saved' \in [Intents -> {"none", "READY", "REVOKED", "PROCESSING"} \cup Final]
       /\ \A j \in Intents : saved'[j] = IF j = i THEN outcome ELSE saved[j]
  BY <1>1, <1>2 DEF LInv, Shapes, StoreOK
<1>12. StoreOK'
  <2>1. \A b \in Attempts : /\ deal'[b].status = "none" <=> deal'[b].by = None
                            /\ deal'[b].by # None => intent[deal'[b].by].of = b
                            /\ posts'[b] # "none" <=> deal'[b].status \in Final
    <3> TAKE b \in Attempts
    <3>1. CASE b = a
      BY <1>2, <1>4, <1>9, <1>10, <3>1, Numbers DEF Final
    <3>2. CASE b # a
      BY <1>9, <1>10, <3>2 DEF LInv, Shapes, StoreOK
    <3> QED
      BY <3>1, <3>2
  <2>2. \A j \in Intents : saved'[j] # "none" => Made(j)
    BY <1>3, <1>11 DEF LInv, Shapes, StoreOK
  <2> QED
    BY <1>1, <1>5, <1>9, <1>10, <1>11, <2>1, <2>2 DEF StoreOK, cloudVars
<1>13. RunOK'
  <2>1. \A b \in Attempts : deal'[b].status # "PROCESSING"
    BY <1>2, <1>3, <1>9 DEF Final
  <2> QED
    BY <1>1, <2>1 DEF RunOK
<1>14. SyncOK'
  <2>1. sync # Idle => sync.a \in Attempts /\ sync.a # a
    BY <1>3 DEF LInv, Shapes, SyncOK, Final
  <2> QED
    BY <1>1, <1>9, <2>1 DEF LInv, Shapes, SyncOK
<1>15. TerminalOK' /\ Asked'
  <2>1. \A b \in Attempts : deal'[b].by = None => deal[b].by = None
    BY <1>2, <1>9, Numbers
  <2> QED
    BY <1>1, <2>1 DEF LInv, Shapes, TerminalOK, Asked, AskedOnce, terminal, Idle
<1>16. Told'
  <2>1. \A b \in Attempts : deal'[b].status \in {"APPROVED", "DECLINED"} => mpos[b] = deal'[b].status
    BY <1>3, <1>9 DEF LInv, Told
  <2> QED
    BY <1>1, <2>1 DEF LInv, Told, terminal, cloudVars, Idle
<1>17. Booking'
  <2>1. \A b \in Attempts : posts'[b] = "SYNCED" /\ deal'[b].status = "APPROVED" => Booked(b)
    BY <1>9, <1>10 DEF LInv, Booking
  <2>2. \A j \in Intents : intent[j].synced => Late(intent[j].of) \/ (intent[j].of \in Attempts \ {a})
    BY <1>3 DEF LInv, Booking, Shapes, IntentOK, Final
  <2> QED
    BY <1>1, <1>5, <1>9, <2>1, <2>2 DEF LInv, Booking, cloudVars
<1>18. \A j \in Intents : saved'[j] = "REVOKED" => saved[j] = "REVOKED"
  BY <1>2, <1>11 DEF Final
<1> QED
  BY <1>1, <1>6, <1>7, <1>12, <1>13, <1>14, <1>15, <1>16, <1>17, <1>18, BridgeKeeps

\* A transaction that was under way when the bridge stopped is unknown.
LEMMA BridgeStopsKeeps == ASSUME LInv, BridgeStops PROVE LInv'
<1>1. /\ stops' = stops + 1 /\ running' = Idle /\ flight' = {} /\ sync' = Idle
      /\ deal' = [a \in Attempts |-> IF a \in Interrupted THEN [deal[a] EXCEPT !.status = "UNKNOWN"] ELSE deal[a]]
      /\ posts' = [a \in Attempts |-> IF a \in Interrupted THEN "PENDING" ELSE posts[a]]
      /\ UNCHANGED <<cloudVars, screen, saved, terminal>>
  BY DEF BridgeStops
<1>2. /\ RowOK' /\ IntentOK'
      /\ \A b : Late(b)' <=> Late(b)
      /\ \A j : Made(j)' <=> Made(j)
      /\ \A b : Booked(b)' <=> Booked(b)
  BY <1>1, CloudRestsKeeps
<1>3. deal \in [Attempts -> [by : Intents \cup {None}, status : {"none", "PROCESSING"} \cup Final]]
  BY DEF LInv, Shapes, StoreOK
<1>4. \A a \in Interrupted : a \in Attempts /\ deal[a].status = "PROCESSING"
  BY DEF Interrupted
<1>5. \A a \in Attempts :
        /\ deal'[a] \in [by : Intents \cup {None}, status : {"none", "PROCESSING"} \cup Final]
        /\ deal'[a].by = deal[a].by
        /\ deal'[a].status = IF a \in Interrupted THEN "UNKNOWN" ELSE deal[a].status
        /\ posts'[a] = IF a \in Interrupted THEN "PENDING" ELSE posts[a]
        /\ deal'[a].status # "PROCESSING"
  BY <1>1, <1>3 DEF Interrupted, Final
<1>6. ScreenOK' /\ Kept'
  BY <1>1, <1>2 DEF LInv, Shapes, ScreenOK, Kept, cloudVars
<1>7. StoreOK'
  <2>1. deal' \in [Attempts -> [by : Intents \cup {None}, status : {"none", "PROCESSING"} \cup Final]]
    BY <1>1, <1>5
  <2>2. posts' \in [Attempts -> {"none", "PENDING", "SYNCED", "QUARANTINED"}]
    BY <1>1 DEF LInv, Shapes, StoreOK
  <2>3. \A a \in Attempts : /\ deal'[a].status = "none" <=> deal'[a].by = None
                            /\ posts'[a] # "none" <=> deal'[a].status \in Final
    <3> TAKE a \in Attempts
    <3>1. /\ deal[a].status = "none" <=> deal[a].by = None
          /\ posts[a] # "none" <=> deal[a].status \in Final
      BY DEF LInv, Shapes, StoreOK
    <3> QED
      BY <1>4, <1>5, <3>1 DEF Final
  <2>4. \A a \in Attempts : deal'[a].by # None => intent'[deal'[a].by].of = a
    BY <1>1, <1>5 DEF LInv, Shapes, StoreOK, cloudVars
  <2> QED
    BY <1>1, <1>2, <2>1, <2>2, <2>3, <2>4 DEF LInv, Shapes, StoreOK
<1>8. RunOK' /\ SyncOK' /\ TerminalOK'
  <2>1. RunOK'
    BY <1>1, <1>5 DEF RunOK
  <2>2. SyncOK'
    BY <1>1 DEF SyncOK
  <2>3. TerminalOK'
    BY <1>1 DEF LInv, Shapes, TerminalOK, terminal
  <2> QED
    BY <2>1, <2>2, <2>3
<1>9. Asked' /\ Told'
  BY <1>1, <1>5 DEF LInv, Asked, AskedOnce, Told, terminal, cloudVars, Idle
<1>10. Bare' /\ Followed'
  BY <1>1, <1>2 DEF LInv, Bare, Followed, cloudVars, terminal
<1>11. Booking'
  <2>1. \A a \in Attempts : posts'[a] = "SYNCED" /\ deal'[a].status = "APPROVED" => Booked(a)
    BY <1>5 DEF LInv, Booking
  <2>2. \A a \in Attempts : deal[a].status \in Final => deal'[a].status = deal[a].status
    BY <1>4, <1>5 DEF Final
  <2>3. \A j \in Intents : intent[j].synced => intent[j].of \in Attempts
    BY DEF LInv, Shapes, IntentOK
  <2> QED
    BY <1>1, <1>2, <2>1, <2>2, <2>3 DEF LInv, Booking, cloudVars, Idle
<1> QED
  BY <1>1, <1>6, <1>7, <1>8, <1>9, <1>10, <1>11, BridgeKeeps

-----------------------------------------------------------------------------
(* The specification.                                                      *)

LEMMA InitKeeps == ASSUME LocalInit PROVE LInv
<1>1. /\ NewRow = [status |-> "PENDING", by |-> None, active |-> FALSE]
      /\ NoRow = [status |-> "none", by |-> None, active |-> FALSE]
  BY NewRowIs DEF NoRow
<1>2. \A a \in Attempts : /\ row[a].by = None
                          /\ row[a].status \in {"none", "PENDING"} /\ (row[a].status # "none" => a = 1)
  BY <1>1 DEF LocalInit
<1>3. \A i \in Intents : intent[i].of = None /\ intent[i].status = "none" /\ ~intent[i].synced
  BY DEF LocalInit
<1>4. \A s \in Screens : screen[s] = Idle /\ screen[s].pc = "idle"
  BY DEF LocalInit, Idle
<1>5. RowOK /\ IntentOK
  BY <1>1, <1>3, Numbers DEF LocalInit, RowOK, IntentOK, Made
<1>6. ScreenOK
  BY <1>4, IdleIs DEF LocalInit, ScreenOK
<1>7. StoreOK /\ RunOK /\ SyncOK /\ TerminalOK
  BY DEF LocalInit, StoreOK, RunOK, SyncOK, TerminalOK, Final
<1>8. Asked /\ Told
  BY <1>2 DEF LocalInit, Asked, AskedOnce, Told, Idle
<1>9. Bound /\ Kept
  BY <1>3, <1>4 DEF Bound, Kept, Made
<1>10. Bare
  BY <1>2, Numbers DEF LocalInit, Bare
<1>11. Followed
  BY <1>2 DEF Followed, Attempts
<1>12. Booking
  BY <1>3 DEF LocalInit, Booking, Idle
<1> QED
  BY <1>5, <1>6, <1>7, <1>8, <1>9, <1>10, <1>11, <1>12 DEF LInv, Shapes

LEMMA StutterKeeps == ASSUME LInv, UNCHANGED lvars PROVE LInv'
<1>1. UNCHANGED cloudVars /\ flight' \subseteq flight
  BY DEF lvars, cloudVars
<1>2. SyncOK' /\ PostOK'
  BY <1>1, CloudRestsKeeps DEF LInv, Shapes, SyncOK, Booking, PostOK, lvars
<1> QED
  BY <1>1, <1>2, OutboxKeeps DEF lvars, LInv, Shapes, StoreOK, storeVars, terminal, cloudVars

LEMMA StepKeeps == ASSUME LInv, LocalNext PROVE LInv'
<1>1. ASSUME NEW s \in Screens, NEW a \in Attempts, Ask(s, a) PROVE LInv'
  BY <1>1, AskKeeps
<1>2. ASSUME NEW s \in Screens, NEW i \in Intents, Bind(s, i) PROVE LInv'
  BY <1>2, BindKeeps
<1>3. ASSUME NEW s \in Screens,
             \/ Prepare(s) \/ NoAnswer(s) \/ Closed(s) \/ ReleaseRead(s) \/ Revoke(s)
             \/ UnknownRead(s) \/ UnknownBind(s) \/ UnknownMark(s) \/ UnknownApply(s)
      PROVE  LInv'
  BY <1>3, PrepareKeeps, NoAnswerKeeps, ClosedKeeps, ReleaseReadKeeps, RevokeKeeps,
     UnknownReadKeeps, UnknownBindKeeps, UnknownMarkKeeps, UnknownApplyKeeps
<1>4. ASSUME NEW i \in Intents, Age(i) PROVE LInv'
  BY <1>4, AgeKeeps
<1>5. ASSUME NEW f \in flight, Execute(f) PROVE LInv'
  BY <1>5, ExecuteKeeps
<1>6. ASSUME NEW outcome \in Outcomes, Present(outcome) PROVE LInv'
  BY <1>6, PresentKeeps DEF Outcomes, Final
<1>7. ASSUME Complete \/ BridgeStops PROVE LInv'
  BY <1>7, CompleteKeeps, BridgeStopsKeeps
<1>8. ASSUME NEW a \in Attempts, SyncRead(a) PROVE LInv'
  BY <1>8, SyncReadKeeps
<1>9. ASSUME SyncBind \/ SyncCore \/ SyncKeep \/ SyncMark \/ SyncDone \/ SyncLost PROVE LInv'
  BY <1>9, SyncBindKeeps, SyncCoreKeeps, SyncKeepKeeps, SyncMarkKeeps, SyncDoneKeeps, SyncLostKeeps
<1>10. ASSUME NEW a \in Attempts, CloudSend(a) \/ Cash(a) \/ Again(a) \/ Reconcile(a) PROVE LInv'
  BY <1>10, CloudSendKeeps, CashKeeps, AgainKeeps, ReconcileKeeps
<1>11. ASSUME NEW a \in Attempts, NEW outcome \in Outcomes, CloudResult(a, outcome) PROVE LInv'
  BY <1>11, CloudResultKeeps DEF Outcomes, Final
<1> QED
  BY <1>1, <1>2, <1>3, <1>4, <1>5, <1>6, <1>7, <1>8, <1>9, <1>10, <1>11 DEF LocalNext

\* Whatever the screens, the bridge, the outbox and the cloud do, in whatever
\* order, and wherever a request dies or the bridge stops: LInv.
THEOREM LocalInvariant == LocalSpec => []LInv
<1>1. LocalInit => LInv
  BY InitKeeps
<1>2. LInv /\ [LocalNext]_lvars => LInv'
  BY StepKeeps, StutterKeeps
<1> QED
  BY <1>1, <1>2, PTL DEF LocalSpec

\* The tables of the cloud and the bridge hold what their handlers write, and a
\* transaction is under way in the store only while the lock is held for it.
LEMMA InvType == ASSUME LInv PROVE LocalTypeOK
<1>1. ASSUME NEW a \in Attempts
      PROVE  /\ row[a].status \in {"none", "PENDING", "PROCESSING", "COMPLETED", "CANCELLED"} \cup Outcomes
             /\ row[a].by \in Intents \cup {None, Cloud} /\ row[a].active \in BOOLEAN
             /\ deal[a].status \in {"none", "PROCESSING"} \cup Outcomes
             /\ posts[a] \in {"none", "PENDING", "SYNCED", "QUARANTINED"}
             /\ posts[a] # "none" <=> deal[a].status \in Outcomes
  BY DEF LInv, Shapes, RowOK, StoreOK, Outcomes, Final
<1>2. ASSUME NEW a \in Attempts
      PROVE (deal[a].status = "none") = (deal[a].by = None)
  BY DEF LInv, Shapes, StoreOK
<1>3. ASSUME NEW i \in Intents
      PROVE  /\ intent[i].status \in {"none", "READY", "EXPIRED", "REVOKED"} \cup Outcomes
             /\ saved[i] \in {"none", "READY", "REVOKED", "PROCESSING"} \cup Outcomes
  BY DEF LInv, Shapes, IntentOK, StoreOK, Outcomes, Final
<1>4. {a \in Attempts : deal[a].status = "PROCESSING"} = IF running = Idle THEN {} ELSE {intent[running.f.i].of}
  <2>1. CASE running = Idle
    BY <2>1 DEF LInv, Shapes, RunOK
  <2>2. CASE running # Idle
    <3>1. intent[running.f.i].of \in Attempts /\ deal[intent[running.f.i].of].status = "PROCESSING"
      <4>1. running.f.i \in Intents /\ Made(running.f.i)
        BY <2>2, RunIs DEF Request, LInv, Shapes, RunOK
      <4> QED
        BY <2>2, <4>1 DEF LInv, Shapes, RunOK, IntentOK
    <3> QED
      BY <2>2, <3>1 DEF LInv, Shapes, RunOK
  <2> QED
    BY <2>1, <2>2
<1> QED
  BY <1>1, <1>2, <1>3, <1>4 DEF LocalTypeOK

\* An intent that ran is that of its row's transaction, and only a late row's is
\* given up.
LEMMA InvRevoked == ASSUME LInv PROVE RevokedNotRun
<1> SUFFICES ASSUME NEW i \in Intents, intent[i].status = "REVOKED", deal[intent[i].of].by = i
             PROVE  Late(intent[i].of)
  BY DEF RevokedNotRun
<1>1. Made(i)
  BY DEF Made
<1> QED
  BY <1>1 DEF LInv, Bound

\* Of two rows that were paid the earlier one was declined, cancelled, or late.
LEMMA PaidRow ==
  ASSUME LInv, NEW a \in Attempts, ~Late(a), charged[a] \/ row[a].status = "COMPLETED"
  PROVE  /\ mpos[a] # "DECLINED" /\ row[a].status \notin {"none", "CANCELLED"}
         /\ ~(charged[a] /\ row[a].status = "COMPLETED")
<1>1. CASE charged[a]
  <2>1. mpos[a] \in {"APPROVED", "UNKNOWN"}
    BY <1>1 DEF LInv, Told
  <2> QED
    BY <2>1 DEF LInv, Bare
<1>2. CASE ~charged[a] /\ row[a].status = "COMPLETED"
  <2>1. mpos[a] = "none"
    BY <1>2 DEF LInv, Bare
  <2> QED
    BY <1>2, <2>1
<1> QED
  BY <1>1, <1>2
LEMMA InvPaid == ASSUME LInv PROVE PaidOnce
<1>1. ASSUME NEW a \in Attempts, NEW b \in Attempts, a < b, ~Late(a), ~Late(b),
             charged[a] \/ row[a].status = "COMPLETED", charged[b] \/ row[b].status = "COMPLETED"
      PROVE  FALSE
  <2>1. row[b].status # "none"
    BY <1>1, PaidRow
  <2>2. mpos[a] = "DECLINED" \/ row[a].status = "CANCELLED"
    BY <1>1, <2>1 DEF LInv, Followed
  <2> QED
    BY <1>1, <2>2, PaidRow
<1>2. SUFFICES ASSUME NEW c \in Charges, NEW d \in Charges, c # d, ~Late(c[1]), ~Late(d[1])
               PROVE  FALSE
  BY DEF PaidOnce
<1>3. \A e \in Charges : /\ e[1] \in Attempts
                         /\ \/ e = <<e[1], "card">> /\ charged[e[1]]
                            \/ e = <<e[1], "cash">> /\ row[e[1]].status = "COMPLETED"
  BY DEF Charges
<1>4. c[1] # d[1]
  BY <1>2, <1>3, PaidRow
<1>5. c[1] \in Nat /\ d[1] \in Nat
  BY <1>3, Numbers
<1> QED
  BY <1>1, <1>2, <1>3, <1>4, <1>5

\* An approval is booked in the ledger before the outbox takes it for delivered.
LEMMA InvBooked == ASSUME LInv PROVE DeliveredIsBooked
BY DEF LInv, Booking, Booked, DeliveredIsBooked, Delivered, Paid

THEOREM LocalType == LocalSpec => []LocalTypeOK
BY LocalInvariant, InvType, PTL

\* For any number of screens, repeats, rows and stops: the local server asks the
\* terminal once for a transaction, gives up no intent that was run, and the
\* customer pays once, if no intent of the row got old.
THEOREM PaysOnce == LocalSpec => []ChargedOnce
<1>1. LInv => ChargedOnce
  BY InvRevoked, InvPaid DEF ChargedOnce, LInv, Asked
<1> QED
  BY <1>1, LocalInvariant, PTL

\* An approval that the bridge takes for delivered is in the ledger.
THEOREM ApprovalsAreBooked == LocalSpec => []DeliveredIsBooked
BY LocalInvariant, InvBooked, PTL
=============================================================================

------------------------------ MODULE Parking ------------------------------
(***************************************************************************)
(* Free parking for the car of a reservation: the requests in the cloud    *)
(* (db/parking-discounts.ts, db/parking-registration.ts), the parking lane *)
(* of the bridge (jumping_bridge.py) and the registration on the site of   *)
(* the car park (parking_service.py).                                      *)
(*                                                                         *)
(* A request is a command that is handed to the bridge once.  The bridge   *)
(* reads the discounts of the car, saves one more and reads them again; an *)
(* answer of the site, of a poll or of an acknowledgement may be lost, the *)
(* bridge may stop anywhere, and other shops of the building register      *)
(* discounts of the same car.  A saving whose answer was lost may even     *)
(* take effect after the bridge has looked: `slow` remembers those.        *)
(* Time is counted in half hours.                                          *)
(***************************************************************************)
EXTENDS Integers

CONSTANTS
  Automatic,      \* requests of the reservation's own accord,
  Manual,         \*   and of the staff
  CarOf,          \* the car of each
  Cars,
  MaxOthers,      \* discounts of other shops, one hour each (a bound)
  MaxFaults,      \* stops, lost answers and failed reads in a behaviour (a bound)
  None

Parkings == Automatic \cup Manual
Limit == 9        \* PARKING_MAX_DISCOUNT_MINUTES

ASSUME ParkingConstants == CarOf \in [Parkings -> Cars] /\ None \notin Parkings

VARIABLES
  asked,      \* parking_discount_requests
  command,    \* commands of action parking_register
  due,        \* commands past their time
  shown,      \* the parking columns of the reservation
  inbox,      \* the commands a poll has fetched
  work,       \* the request the bridge is at
  site,       \* the discount of each car
  flying,     \* savings that have not taken effect yet
  saved,      \* how often each request took effect
  others, faults, slow, swapped

kvars == <<asked, command, due, shown, inbox, work, site, flying, saved, others, faults, slow, swapped>>

Waiting == {"PENDING", "PROCESSING"}
Done == {"SUCCESS", "SKIPPED"}        \* SKIPPED also stands for LIMIT_EXCEEDED
Failed == {"NEEDS_REVIEW", "FAILED"}  \* FAILED also stands for the refusals
AtRest == [pc |-> "idle"]

ParkingInit ==
  /\ asked = [r \in Parkings |-> "none"]
  /\ command = [r \in Parkings |-> "none"]
  /\ due = {}
  /\ \E c \in Cars : shown = [car |-> c, status |-> "none", request |-> None, registered |-> None]
  /\ inbox = {} /\ work = AtRest
  /\ site = [c \in Cars |-> 0]
  /\ flying = {} /\ saved = [r \in Parkings |-> 0]
  /\ others = 0 /\ faults = 0 /\ slow = {} /\ swapped = FALSE

Fault == faults < MaxFaults /\ faults' = faults + 1

-----------------------------------------------------------------------------
(* The reservation and its requests.                                       *)

\* queueParkingRegistration: a request of its own accord is keyed by the car.
Queue(r) ==
  /\ asked[r] = "none"
  /\ r \in Automatic => /\ CarOf[r] = shown.car
                        /\ ~(shown.status = "SUCCESS" /\ shown.registered = shown.car)
  /\ asked' = [asked EXCEPT ![r] = "PENDING"]
  /\ command' = [command EXCEPT ![r] = "pending"]
  /\ shown' = [car |-> CarOf[r], status |-> "PENDING", request |-> r, registered |-> None]
  /\ UNCHANGED <<due, inbox, work, site, flying, saved, others, faults, slow, swapped>>

\* updateReservation (details) forgets the registration of another car, and
\* so does the kiosk; linkReservationMember puts the member's car in its place.
ChangeCar(c) ==
  /\ c # shown.car
  /\ shown' = [car |-> c, status |-> "none", request |-> None, registered |-> None]
  /\ UNCHANGED <<asked, command, due, inbox, work, site, flying, saved, others, faults, slow, swapped>>
LinkMember(c) ==
  /\ c # shown.car /\ ~swapped
  /\ shown' = [shown EXCEPT !.car = c]
  /\ swapped' = TRUE
  /\ UNCHANGED <<asked, command, due, inbox, work, site, flying, saved, others, faults, slow>>

TimePasses(r) ==
  /\ command[r] \in {"pending", "claimed"} /\ r \notin due
  /\ due' = due \cup {r}
  /\ UNCHANGED <<asked, command, shown, inbox, work, site, flying, saved, others, faults, slow, swapped>>

\* Mutant of ShowResult: the result of an old request counts too.
ShowResultAlways(r, status) ==
  [shown EXCEPT !.status = IF status \in Done THEN "SUCCESS" ELSE status,
                !.registered = IF status \in Done THEN shown.car ELSE None]
\* What a result does to the request and, if it is still its request, to the
\* reservation (completeParkingDiscountRequest, maintainParkingDiscountRequests).
ShowResult(r, status) ==
  IF shown.request # r THEN shown
  ELSE [shown EXCEPT !.status = IF status \in Done THEN "SUCCESS" ELSE status,
                     !.registered = IF status \in Done THEN shown.car ELSE None]

\* Mutant of GivenUp: only what was not claimed is given up.
GivenUpPending == {r \in due : command[r] = "pending"}
\* A poll of the bridge: commands past their time are given up, those that
\* wait are claimed, the requests are marked, and the answer takes them along.
GivenUp == {r \in due : command[r] \in {"pending", "claimed"}}
Poll(arrives) ==
  /\ work = AtRest /\ inbox = {}
  /\ LET taken == {r \in Parkings : command[r] = "pending"} \ GivenUp
     IN  /\ command' = [r \in Parkings |-> IF r \in GivenUp THEN "failed"
                                           ELSE IF r \in taken THEN "claimed" ELSE command[r]]
         /\ asked' = [r \in Parkings |-> IF r \in GivenUp /\ asked[r] \in Waiting THEN "NEEDS_REVIEW"
                                       ELSE IF r \in taken THEN "PROCESSING" ELSE asked[r]]
         /\ shown' = IF shown.request \in GivenUp /\ shown.status \in Waiting
                     THEN [shown EXCEPT !.status = "NEEDS_REVIEW"]
                     ELSE IF shown.request \in taken THEN [shown EXCEPT !.status = "PROCESSING"] ELSE shown
         /\ inbox' = IF arrives THEN taken ELSE {}
         /\ IF arrives THEN UNCHANGED faults ELSE Fault
  /\ due' = due \ GivenUp
  /\ UNCHANGED <<work, site, flying, saved, others, slow, swapped>>

-----------------------------------------------------------------------------
(* The car park, and the other shops.                                      *)

Lands(r) == site' = [site EXCEPT ![CarOf[r]] = @ + work.added] /\ saved' = [saved EXCEPT ![r] = @ + 1]
OtherShop(c) ==
  /\ others < MaxOthers /\ others' = others + 1
  /\ site[c] + 2 <= Limit /\ site' = [site EXCEPT ![c] = @ + 2]
  /\ UNCHANGED <<asked, command, due, shown, inbox, work, flying, saved, faults, slow, swapped>>
LandsLate(f) ==
  /\ f \in flying
  /\ flying' = flying \ {f}
  /\ site' = [site EXCEPT ![CarOf[f.of]] = @ + f.added]
  /\ saved' = [saved EXCEPT ![f.of] = @ + 1]
  /\ slow' = slow \cup {f.of}
  /\ UNCHANGED <<asked, command, due, shown, inbox, work, others, faults, swapped>>

-----------------------------------------------------------------------------
(* The lane of the bridge: _process_parking_commands and register.         *)

At(pc) == work.pc = pc
Step(pc) == work' = [work EXCEPT !.pc = pc]
Result(status) == work' = [pc |-> "ack", of |-> work.of, status |-> status]
CloudKeeps == UNCHANGED <<asked, command, due, shown, inbox, others, swapped>>
SiteKeeps == UNCHANGED <<site, flying, saved, slow>>

\* Search and read the car: there may be none, or nothing to add.
Take(r) ==
  /\ work = AtRest /\ r \in inbox
  /\ inbox' = inbox \ {r}
  /\ LET before == site[CarOf[r]]
         added == IF before = 0 THEN 4 ELSE 2
     IN  \/ /\ before + added <= Limit
            /\ work' = [pc |-> "save", of |-> r, before |-> before, added |-> added]
         \/ before + added > Limit /\ work' = [pc |-> "ack", of |-> r, status |-> "SKIPPED"]
         \/ \E status \in {"SKIPPED", "FAILED"} : work' = [pc |-> "ack", of |-> r, status |-> status]
  /\ UNCHANGED <<asked, command, due, shown, others, faults, swapped>> /\ SiteKeeps

\* _save_with_verification.  An answer is yes, no (refused, or an error of the
\* site that says nothing), or it is lost; the saving took effect at once,
\* will take effect, or never does.
SaveAnswers == {"yes", "no", "lost"}
SaveLands(r, answer) ==
  \/ Lands(r) /\ UNCHANGED <<flying, slow>>
  \/ answer # "yes" /\ SiteKeeps
  \/ answer = "lost" /\ flying' = flying \cup {[of |-> r, added |-> work.added, try |-> work.pc]}
                     /\ UNCHANGED <<site, saved, slow>>
Save(answer) ==
  /\ At("save") /\ SaveLands(work.of, answer)
  /\ CASE answer = "yes" -> Step("confirm") /\ UNCHANGED faults
       [] answer = "no" -> Result("FAILED") /\ Fault
       [] answer = "lost" -> Step("recheck") /\ Fault
  /\ CloudKeeps
Seen == site[CarOf[work.of]]
IsThere == Seen >= work.before + work.added
Confirm ==
  /\ At("confirm")
  /\ \/ Result(IF IsThere THEN "SUCCESS" ELSE "NEEDS_REVIEW") /\ UNCHANGED faults
     \/ Fault /\ (Step("recheck") \/ Result("FAILED"))        \* the reading failed
  /\ CloudKeeps /\ SiteKeeps

\* Mutant of MayRepeat: saved again without a look at the site.
MayRepeatBlind == At("recheck")
MayRepeat == ~IsThere /\ Seen = work.before
Recheck ==
  /\ At("recheck")
  /\ \/ /\ IsThere /\ Result("SUCCESS") /\ UNCHANGED faults
     \/ /\ ~IsThere /\ ~MayRepeat /\ Result("NEEDS_REVIEW") /\ UNCHANGED faults
     \/ /\ MayRepeat /\ Step("resave") /\ UNCHANGED faults
     \/ Fault /\ Result("NEEDS_REVIEW")
  /\ CloudKeeps /\ SiteKeeps
Resave(answer) ==
  /\ At("resave") /\ SaveLands(work.of, answer)
  /\ IF answer = "yes" THEN Step("final") /\ UNCHANGED faults ELSE Result("NEEDS_REVIEW") /\ Fault
  /\ CloudKeeps
Final ==
  /\ At("final")
  /\ \/ Result(IF IsThere THEN "SUCCESS" ELSE "NEEDS_REVIEW") /\ UNCHANGED faults
     \/ Fault /\ Result("NEEDS_REVIEW")
  /\ CloudKeeps /\ SiteKeeps
\* The policy is asked of the cloud before each saving; the call may fail.
PolicyFails ==
  /\ work.pc \in {"save", "resave"} /\ Fault
  /\ Result("FAILED")
  /\ CloudKeeps /\ SiteKeeps

\* The acknowledgement reaches the cloud or not, its answer comes back or not;
\* when it does not, the lane acknowledges once more, as FAILED.
Acknowledge(reaches, answered) ==
  /\ work.pc \in {"ack", "ackFailed"} /\ (answered => reaches)
  /\ LET r == work.of
     IN  IF reaches
         THEN /\ asked' = [asked EXCEPT ![r] = work.status]
              /\ command' = [command EXCEPT ![r] = IF @ # "claimed" THEN @
                                                   ELSE IF At("ack") THEN "completed" ELSE "failed"]
              /\ shown' = ShowResult(r, work.status)
         ELSE UNCHANGED <<asked, command, shown>>
  /\ IF answered THEN UNCHANGED faults ELSE Fault
  /\ work' = IF answered \/ At("ackFailed") THEN AtRest
             ELSE [pc |-> "ackFailed", of |-> work.of, status |-> "FAILED"]
  /\ UNCHANGED <<due, inbox, others, swapped>> /\ SiteKeeps

\* The bridge stops: what it had fetched and where it was are gone.
Stop ==
  /\ (work # AtRest \/ inbox # {}) /\ Fault
  /\ inbox' = {} /\ work' = AtRest
  /\ UNCHANGED <<asked, command, due, shown, others, swapped>> /\ SiteKeeps

Lane ==
  \/ Poll(TRUE) \/ \E r \in Parkings : Take(r)
  \/ Confirm \/ Recheck \/ Final
  \/ \E answer \in SaveAnswers : Save(answer) \/ Resave(answer)
  \/ \E reaches, answered \in BOOLEAN : Acknowledge(reaches, answered)
ParkingNext ==
  \/ Lane \/ PolicyFails \/ Poll(FALSE) \/ Stop
  \/ \E r \in Parkings : Queue(r) \/ TimePasses(r)
  \/ \E c \in Cars : ChangeCar(c) \/ LinkMember(c) \/ OtherShop(c)
  \/ \E f \in flying : LandsLate(f)

\* The lane polls and works as long as it runs (it is restarted after a stop),
\* and a command that waits gets past its time.
ParkingFairness == WF_kvars(Lane) /\ \A r \in Parkings : WF_kvars(TimePasses(r))
ParkingSpec == ParkingInit /\ [][ParkingNext]_kvars /\ ParkingFairness

-----------------------------------------------------------------------------
WorkItem ==
  {AtRest}
    \cup [pc : {"save", "confirm", "recheck", "resave", "final"}, of : Parkings, before : Nat, added : {2, 4}]
    \cup [pc : {"ack", "ackFailed"}, of : Parkings, status : Done \cup Failed]
\* Requests, commands and the reservation hold what their handlers write.
ParkingTypeOK ==
  /\ asked \in [Parkings -> {"none"} \cup Waiting \cup Done \cup Failed]
  /\ command \in [Parkings -> {"none", "pending", "claimed", "completed", "failed"}]
  /\ shown \in [car : Cars, status : {"none"} \cup Waiting \cup Failed \cup {"SUCCESS"},
                request : Parkings \cup {None}, registered : Cars \cup {None}]
  /\ inbox \subseteq {r \in Parkings : command[r] = "claimed"} /\ work \in WorkItem
  /\ site \in [Cars -> Nat] /\ saved \in [Parkings -> Nat] /\ others \in Nat
  /\ flying \subseteq [of : Parkings, added : {2, 4}, try : {"save", "resave"}]

\* A request adds a discount at most once, whichever answers are lost and
\* wherever the bridge stops ("never register again blindly after an unclear
\* answer", docs/TROUBLESHOOTING.md:51); the exception is a saving that takes
\* effect after the bridge has looked.
RegisteredOnce == \A r \in Parkings : saved[r] <= 1 \/ r \in slow

\* A request that ends in SUCCESS did add its discount, unless another shop or
\* a late saving added one to the car meanwhile, which the bridge takes for the
\* one it is looking for.
SuccessIsReal == others = 0 /\ slow = {} => \A r \in Parkings : asked[r] = "SUCCESS" => saved[r] >= 1

\* A car shown as registered is one a request of its own was made for, even if
\* cars are exchanged while the bridge is at work; the exception is a car that
\* came with a member who was linked later.
ShownCarRegistered ==
  ~swapped /\ shown.status = "SUCCESS" /\ shown.registered = shown.car =>
     shown.request # None /\ CarOf[shown.request] = shown.car /\ asked[shown.request] \in Done

\* A parking request adds a discount at most once; a discount reported as given
\* was given, and for the car that is shown.
ParkingIsReal == RegisteredOnce /\ SuccessIsReal /\ ShownCarRegistered

\* Every request comes to an end, if only as NEEDS_REVIEW: no lost command or
\* answer leaves it PENDING or PROCESSING for ever (maintainParkingDiscountRequests).
ParkingEnds == \A r \in Parkings : asked[r] \in Waiting ~> asked[r] \notin Waiting
=============================================================================

----------------------------- MODULE NaverStock -----------------------------
(***************************************************************************)
(* syncNaverStock of naver-collector/sw.js: a slot that the store has sold *)
(* itself is closed at Naver (stock 0) and opened again when it is free.   *)
(* Which slots a run has closed is kept twice, in the extension and in     *)
(* naver_stock_managed_slots of the cloud (db/naver-stock.ts).  The owner  *)
(* sets stocks at Naver by hand, and guests book there, all the while.     *)
(*                                                                         *)
(* Slots whose time is over, and the limit of 100 actions in a request,    *)
(* are left out.                                                           *)
(***************************************************************************)
EXTENDS Integers

CONSTANTS
  StockSlots,
  MaxStock,         \* the largest stock the owner gives a slot (a bound)
  MaxStockChanges,  \* changes by the store, the owner and guests (a bound)
  MaxStockFaults    \* stops of the worker and lost calls (a bound)

VARIABLES
  taken,     \* the slots of the store's own reservations (listNaverStockPlan)
  stock,     \* stock at Naver
  guest,     \* slots with a booking of Naver
  local,     \* managed stock in the extension: the original stock, or 0
  server,    \* naver_stock_managed_slots: the original stock, or 0
  sync,      \* the run
  moves, slips,
  \* what the properties remember
  ours       \* slots a run closed, empty, and knows that it did

svars == <<taken, stock, guest, local, server, sync, moves, slips, ours>>
Resting == [pc |-> "rest"]
None == [s \in StockSlots |-> 0]

StockInit ==
  /\ taken = {} /\ guest = {} /\ ours = {}
  /\ stock = [s \in StockSlots |-> 1]
  /\ local = None /\ server = None
  /\ sync = Resting
  /\ moves = 0 /\ slips = 0

-----------------------------------------------------------------------------
(* The world: the store sells or frees a slot, the owner sets a stock, and *)
(* guests book what is open.                                               *)

Move == moves < MaxStockChanges /\ moves' = moves + 1 /\ UNCHANGED <<local, server, sync, slips>>
Sell(s) ==
  /\ Move /\ UNCHANGED <<stock, guest, ours>>
  /\ taken' = IF s \in taken THEN taken \ {s} ELSE taken \cup {s}
SetByHand(s) ==
  /\ Move /\ UNCHANGED <<taken, guest>>
  /\ \E n \in 0..MaxStock \ {stock[s]} : stock' = [stock EXCEPT ![s] = n]
  /\ ours' = ours \ {s}
Guest(s) ==
  /\ Move /\ UNCHANGED <<taken, stock, ours>>
  /\ IF s \in guest THEN guest' = guest \ {s} ELSE stock[s] > 0 /\ guest' = guest \cup {s}

-----------------------------------------------------------------------------
(* A run.                                                                  *)

Goes(pc) == sync' = [sync EXCEPT !.pc = pc]
Still == UNCHANGED <<taken, guest, moves, slips>>

\* The status may have been read before the plan (options.statusBody).
ReadStatus ==
  /\ sync = Resting
  /\ sync' = [pc |-> "plan", stock |-> stock, guest |-> guest]
  /\ Still /\ UNCHANGED <<stock, local, server, ours>>
ReadPlan ==
  /\ sync.pc = "plan"
  /\ sync' = [pc |-> "close", stock |-> sync.stock, guest |-> sync.guest, plan |-> taken,
              known |-> server, owned |-> [s \in StockSlots |-> IF local[s] # 0 THEN local[s] ELSE server[s]],
              left |-> taken, claims |-> {}, frees |-> {}, slot |-> <<>>]
  /\ Still /\ UNCHANGED <<stock, local, server, ours>>

\* The stock a slot had before it was closed.
Original(s) == IF sync.owned[s] # 0 THEN sync.owned[s] ELSE sync.stock[s]

\* Mutant of ToClose: a slot that was closed once is not closed again.
ToCloseNew(s) == s \in sync.left /\ s \notin sync.guest /\ sync.stock[s] > 0 /\ sync.owned[s] = 0
ToClose(s) == s \in sync.left /\ s \notin sync.guest /\ sync.stock[s] > 0
Close(s) ==
  /\ sync.pc = "close" /\ ToClose(s)
  /\ stock' = [stock EXCEPT ![s] = 0]
  /\ sync' = [sync EXCEPT !.pc = "keep", !.slot = s]
  /\ Still /\ UNCHANGED <<local, server, ours>>
\* saveLocalManagedStock
Keep ==
  /\ sync.pc = "keep"
  /\ LET s == sync.slot
     IN  /\ local' = [local EXCEPT ![s] = Original(s)]
         /\ ours' = IF stock[s] = 0 /\ s \notin guest THEN ours \cup {s} ELSE ours
         /\ sync' = [sync EXCEPT !.pc = "close", !.left = @ \ {s}, !.claims = @ \cup {s}]
  /\ Still /\ UNCHANGED <<stock, server>>
\* A slot that stays as it is; one that the cloud does not know is claimed again.
Closed ==
  /\ sync.pc = "close" /\ \A s \in sync.left : ~ToClose(s)
  /\ sync' = [sync EXCEPT !.pc = "open",
                          !.left = {s \in StockSlots : local[s] # 0 \/ sync.known[s] # 0} \ sync.plan,
                          !.claims = @ \cup {s \in sync.left \ sync.guest : sync.owned[s] # 0 /\ sync.known[s] = 0}]
  /\ Still /\ UNCHANGED <<stock, local, server, ours>>

ToOpen(s) == s \notin sync.guest /\ sync.stock[s] = 0
Open(s) ==
  /\ sync.pc = "open" /\ s \in sync.left /\ ToOpen(s)
  /\ stock' = [stock EXCEPT ![s] = sync.owned[s]]
  /\ ours' = ours \ {s}
  /\ sync' = [sync EXCEPT !.pc = "forget", !.slot = s]
  /\ Still /\ UNCHANGED <<local, server>>
ForgetSlot(s) ==
  /\ local' = [local EXCEPT ![s] = 0]
  /\ sync' = [sync EXCEPT !.pc = "open", !.left = @ \ {s}, !.frees = @ \cup {s}]
  /\ Still /\ UNCHANGED <<stock, server, ours>>
Forget(s) ==
  /\ \/ sync.pc = "forget" /\ s = sync.slot
     \/ sync.pc = "open" /\ s \in sync.left /\ ~ToOpen(s)
  /\ ForgetSlot(s)
Opened == sync.pc = "open" /\ sync.left = {} /\ Goes("send") /\ Still /\ UNCHANGED <<stock, local, server, ours>>

\* applyNaverStockActions: the first claim of a slot gives its original stock.
Applied ==
  [s \in StockSlots |->
     IF s \in sync.frees THEN 0
     ELSE IF s \in sync.claims /\ server[s] = 0 THEN local[s]
     ELSE server[s]]
Send ==
  /\ sync.pc = "send"
  /\ server' = Applied
  /\ sync' = Resting
  /\ Still /\ UNCHANGED <<stock, local, ours>>

\* The worker is stopped, or a call fails, before or after it took effect;
\* what is left of the run is dropped.
Slip ==
  /\ sync # Resting /\ slips < MaxStockFaults /\ slips' = slips + 1
  /\ sync' = Resting
  /\ server' \in IF sync.pc = "send" THEN {server, Applied} ELSE {server}
  /\ UNCHANGED <<taken, stock, guest, local, moves, ours>>

SyncStep ==
  \/ ReadStatus \/ ReadPlan \/ Keep \/ Closed \/ Opened \/ Send
  \/ \E s \in StockSlots : Close(s) \/ Open(s) \/ Forget(s)
StockNext == SyncStep \/ Slip \/ \E s \in StockSlots : Sell(s) \/ SetByHand(s) \/ Guest(s)
StockSpec == StockInit /\ [][StockNext]_svars
FairStockSpec == StockSpec /\ WF_svars(SyncStep)

-----------------------------------------------------------------------------
\* Stocks are numbers, and a claim is sent for a slot that the extension owns
\* or owned.
StockTypeOK ==
  /\ stock \in [StockSlots -> 0..MaxStock] /\ taken \subseteq StockSlots /\ guest \subseteq StockSlots
  /\ local \in [StockSlots -> 0..MaxStock] /\ server \in [StockSlots -> 0..MaxStock]
  /\ sync.pc \in {"rest", "plan", "close", "keep", "open", "forget", "send"}

\* A slot that a run closed and recorded is not forgotten while it is closed:
\* one of the two memories has it, whatever calls and records were lost.
StockRemembered == \A s \in ours : stock[s] = 0 /\ (local[s] # 0 \/ server[s] # 0)

\* Once nothing changes any more the slots of the store are closed at Naver and
\* none that a run closed stays closed without need.
StockSettles ==
  <>[](/\ \A s \in taken \ guest : stock[s] = 0
       /\ ours \subseteq taken)
=============================================================================

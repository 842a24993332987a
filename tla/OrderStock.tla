----------------------------- MODULE OrderStock -----------------------------
(***************************************************************************)
(* The stock of the shop and the orders that move it: holds at checkout,   *)
(* deductions at confirmation, returns at cancellation, admins'            *)
(* corrections, and saves of a product, which set the units on hand.       *)
(* Every movement but a save is a row of inventory_ledger under a UNIQUE   *)
(* key and a change of its row's counters under the same guard; a save     *)
(* leaves no row in the ledger.  An operation reads what the ledger says,  *)
(* plans against the live counters and commits one batch later; other      *)
(* operations run in between.                                              *)
(***************************************************************************)
EXTENDS Sequences, Sums

CONSTANTS
  Orders,
  Lines,         \* an order's lines with stock, in order
  Rows,          \* stock rows: an option, a colour, a variant, a product
  RowOf, Qty,    \* what a line or a correction takes
  Opening,       \* units on hand of each row
  Prepaid,       \* orders whose cancellation refunds a wallet or points
  Incoming, Outgoing,  \* admins' corrections
  Figures,       \* what a save may ask of a row
  MaxSaves,      \* bound: saves of products
  Tasks          \* handlers and jobs in flight

Moves == (UNION {Range(Lines[o]) : o \in Orders}) \cup Incoming \cup Outgoing

ASSUME LinesAreTheirOrders ==
  /\ \A o \in Orders : Lines[o] \in Seq(Moves) /\ IsInjective(Lines[o])
  /\ \A o, p \in Orders : o # p => Range(Lines[o]) \cap Range(Lines[p]) = {}
ASSUME QuantitiesPositive ==
  /\ RowOf \in [Moves -> Rows] /\ Qty \in [Moves -> Nat \ {0}]
  /\ Opening \in [Rows -> Nat] /\ Prepaid \subseteq Orders
ASSUME FiguresNatural == Figures \in [Rows -> SUBSET Nat] /\ MaxSaves \in Nat

VARIABLES
  stock, reserved,  \* the two counters of a row
  ledger,           \* inventory_ledger: kind and line, its key
  status,           \* orders.status; confirmed stands for every deducted one
  task,
  unledgered,       \* history: the units saves have put on a shelf or taken off it
  saves             \* how many saves there were

saved == <<unledgered, saves>>
vars == <<stock, reserved, ledger, status, task, saved>>

Kinds == {"reserve", "deduct", "release", "restore", "adjust_in", "adjust_out"}
Keys == [kind : Kinds, move : Moves]
Statuses == {"none", "pending", "confirmed", "cancelled"}

NoTask == [at |-> "idle", op |-> "none", order |-> CHOOSE o \in Orders : TRUE, from |-> "none",
           moves |-> <<>>, plan |-> <<>>, expected |-> [k \in Kinds |-> 0]]

Init ==
  /\ stock = Opening
  /\ reserved = [r \in Rows |-> 0]
  /\ ledger = {}
  /\ status = [o \in Orders |-> "none"]
  /\ task = [t \in Tasks |-> NoTask]
  /\ unledgered = [r \in Rows |-> 0]
  /\ saves = 0

-----------------------------------------------------------------------------
(* planInventory() *)

Entry(kind, m) == [kind |-> kind, move |-> m]

\* Fault: a write-off asks for what is on the shelf, not for what is free.
GuardOfShelf(e, s, v) ==
  LET q == Qty[e.move] IN
  CASE e.kind = "reserve" -> s - v >= q
    [] e.kind = "release" -> v >= q
    [] e.kind = "deduct" -> s >= q /\ v >= q
    [] e.kind = "adjust_out" -> s >= q
    [] OTHER -> TRUE

\* Fault: a release is believed.
GuardTrusting(e, s, v) ==
  LET q == Qty[e.move] IN
  CASE e.kind \in {"reserve", "adjust_out"} -> s - v >= q
    [] e.kind = "deduct" -> s >= q /\ v >= q
    [] OTHER -> TRUE

Guard(e, s, v) ==
  LET q == Qty[e.move] IN
  CASE e.kind \in {"reserve", "adjust_out"} -> s - v >= q
    [] e.kind = "release" -> v >= q
    [] e.kind = "deduct" -> s >= q /\ v >= q
    [] OTHER -> TRUE

\* What a ledger row does to the units on hand and to the units held.
OnShelf == [e \in Keys |-> CASE e.kind \in {"restore", "adjust_in"} -> Qty[e.move]
                             [] e.kind \in {"deduct", "adjust_out"} -> -Qty[e.move]
                             [] OTHER -> 0]
OnHold == [e \in Keys |-> CASE e.kind = "reserve" -> Qty[e.move]
                            [] e.kind \in {"release", "deduct"} -> -Qty[e.move]
                            [] OTHER -> 0]

\* Fault: the ledger row does not carry the counter's guard.
MoveUnproven(c, e) ==
  LET r == RowOf[e.move] ok == Guard(e, c.stock[r], c.reserved[r]) IN
  [stock |-> IF ok THEN [c.stock EXCEPT ![r] = @ + OnShelf[e]] ELSE c.stock,
   reserved |-> IF ok THEN [c.reserved EXCEPT ![r] = @ + OnHold[e]] ELSE c.reserved,
   written |-> Append(c.written, e)]

\* A ledger row and its counters, both under one guard: both or neither.
Move(c, e) ==
  LET r == RowOf[e.move] IN
  IF Guard(e, c.stock[r], c.reserved[r])
  THEN [stock |-> [c.stock EXCEPT ![r] = @ + OnShelf[e]],
        reserved |-> [c.reserved EXCEPT ![r] = @ + OnHold[e]],
        written |-> Append(c.written, e)]
  ELSE c

\* One after the other against the live counters; the plan simulates what the
\* batch will do.
After(entries) ==
  LET after[i \in 0..Len(entries)] ==
        IF i = 0 THEN [stock |-> stock, reserved |-> reserved, written |-> <<>>]
        ELSE Move(after[i - 1], entries[i])
  IN  after[Len(entries)]

\* The elements of a sequence that are in a set, in their order.
Within(s, S) ==
  LET kept[i \in 0..Len(s)] ==
        IF i = 0 THEN <<>> ELSE IF s[i] \in S THEN Append(kept[i - 1], s[i]) ELSE kept[i - 1]
  IN  kept[Len(s)]

NotDone(entries) == Within(entries, Keys \ ledger)
Recorded(o, kind, rows) == {e \in rows : e.kind = kind /\ e.move \in Range(Lines[o])}
KindsOf(entries) == {e.kind : e \in Range(entries)}

-----------------------------------------------------------------------------
(* An operation: what it means to move, its plan, its batch *)

\* Starting an operation reads the order.
Start(t, o, op) ==
  /\ task[t].at = "idle"
  /\ task' = [task EXCEPT ![t] = [NoTask EXCEPT !.at = "gather", !.op = op, !.order = o,
                                  !.from = status[o]]]

Finish(t) == task' = [task EXCEPT ![t] = NoTask]

MovesUnder(kind) == {m \in Moves : Entry(kind, m) \in ledger}
LinesUnder(o, kind) == Within(Lines[o], MovesUnder(kind))
Entries(kind, moves) == [i \in DOMAIN moves |-> Entry(kind, moves[i])]

\* Fault: one deducted line decides for all of them.
ReturnsPerOrder(o) ==
  LET held == LinesUnder(o, "reserve") IN
  Entries(IF LinesUnder(o, "deduct") # <<>> THEN "restore" ELSE "release", held)

\* planOrderReturn(): a held line comes back to the shelf if it was deducted and
\* loses its hold if not.
Returns(o) ==
  LET held == LinesUnder(o, "reserve") IN
  Entries("restore", Within(held, MovesUnder("deduct")))
  \o Entries("release", Within(held, Moves \ MovesUnder("deduct")))

\* The ledger rows of the order, read before anything else.
Gather(t) ==
  LET o == task[t].order IN
  /\ task[t].at = "gather"
  /\ task' = [task EXCEPT ![t].at = "plan", ![t].moves =
       CASE task[t].op = "checkout" -> Entries("reserve", Lines[o])
         [] task[t].op = "confirm" -> Entries("deduct", LinesUnder(o, "reserve"))
         [] task[t].op = "cancel" -> Returns(o)]
  /\ UNCHANGED <<stock, reserved, ledger, status, saved>>

\* What is done already is skipped, what the counters do not allow is dropped,
\* and the fence expects the rows that are there and the rows that are planned.
\* Only a checkout minds a dropped line; a checkout expects what it planned.
Plan(t) ==
  LET o == task[t].order
      todo == NotDone(task[t].moves)
      plan == After(todo).written
  IN
  /\ task[t].at = "plan"
  /\ IF task[t].op = "checkout" /\ Len(plan) < Len(todo)
     THEN Finish(t)
     ELSE task' = [task EXCEPT ![t].at = "commit", ![t].plan = plan, ![t].expected =
            [k \in Kinds |->
               Cardinality({i \in DOMAIN plan : plan[i].kind = k})
               + IF task[t].op = "checkout" THEN 0 ELSE Cardinality(Recorded(o, k, ledger))]]
  /\ UNCHANGED <<stock, reserved, ledger, status, saved>>

\* Fault: no fence.
FencePasses(t, rows) == TRUE

\* order_reservation_fence: CHECK (actual = expected), for the kinds planned.
Fence(t, rows) ==
  \A k \in KindsOf(task[t].moves) : Cardinality(Recorded(task[t].order, k, rows)) = task[t].expected[k]

\* The order's own row: it is born with its holds, and cancelled only from the
\* status that was read.  A confirmation flipped before.
Flips(t) ==
  LET o == task[t].order IN
  \/ task[t].op = "checkout" /\ status[o] = "none" /\ status' = [status EXCEPT ![o] = "pending"]
  \/ task[t].op = "cancel" /\ status[o] = task[t].from /\ status' = [status EXCEPT ![o] = "cancelled"]
  \/ task[t].op = "confirm" /\ UNCHANGED status

\* One batch: a key that is there already, a fence that does not add up or a flip
\* that matches no row rolls all of it back.
Commit(t) ==
  LET c == After(task[t].plan) rows == Range(c.written) IN
  /\ task[t].at = "commit"
  /\ \/ /\ rows \cap ledger = {} /\ Fence(t, ledger \cup rows) /\ Flips(t)
        /\ stock' = c.stock /\ reserved' = c.reserved /\ ledger' = ledger \cup rows
        /\ UNCHANGED saved
     \/ /\ \/ rows \cap ledger # {}
           \/ ~Fence(t, ledger \cup rows)
           \/ task[t].op # "confirm" /\ status[task[t].order] # task[t].from
        /\ UNCHANGED <<stock, reserved, ledger, status, saved>>
  /\ Finish(t)

\* The handler dies; what it planned is forgotten.
Crash(t) ==
  /\ task[t].at # "idle"
  /\ Finish(t)
  /\ UNCHANGED <<stock, reserved, ledger, status, saved>>

-----------------------------------------------------------------------------
(* The operations *)

Checkout(t, o) ==
  /\ status[o] = "none" /\ Start(t, o, "checkout")
  /\ UNCHANGED <<stock, reserved, ledger, status, saved>>

Reopenable(o) == status[o] = "cancelled" /\ o \notin Prepaid

\* moveOrderStage(): the status flips in a batch of its own, the stock follows.
Confirm(t, o) ==
  /\ status[o] = "pending" \/ Reopenable(o)
  /\ status' = [status EXCEPT ![o] = "confirmed"]
  /\ Start(t, o, "confirm")
  /\ UNCHANGED <<stock, reserved, ledger, saved>>

\* Reopening an order, or undoing a confirmation by one step, moves no stock.
BackToPending(o) ==
  /\ status[o] = "confirmed" \/ Reopenable(o)
  /\ status' = [status EXCEPT ![o] = "pending"]
  /\ UNCHANGED <<stock, reserved, ledger, task, saved>>

Cancel(t, o) ==
  /\ status[o] \in {"pending", "confirmed"} /\ Start(t, o, "cancel")
  /\ UNCHANGED <<stock, reserved, ledger, status, saved>>

\* applyInventory() has no fence: a correction that no longer fits writes nothing.
Adjust(kind, m) ==
  LET c == After(<<Entry(kind, m)>>) IN
  /\ Entry(kind, m) \notin ledger
  /\ stock' = c.stock /\ reserved' = c.reserved /\ ledger' = ledger \cup Range(c.written)
  /\ UNCHANGED <<status, task, saved>>

\* The panel of direct stock and the save of a product write the figure they are
\* given, never below the units held, and tell the ledger nothing.  The panel has
\* MAX() in its statement; a save is fenced on the stock and the holds it read.
SetStock(r, figure) ==
  LET after == IF figure < reserved[r] THEN reserved[r] ELSE figure IN
  /\ saves < MaxSaves
  /\ saves' = saves + 1
  /\ stock' = [stock EXCEPT ![r] = after]
  /\ unledgered' = [unledgered EXCEPT ![r] = @ + after - stock[r]]
  /\ UNCHANGED <<reserved, ledger, status, task>>

Next ==
  \/ \E t \in Tasks :
       \/ Gather(t) \/ Plan(t) \/ Commit(t) \/ Crash(t)
       \/ \E o \in Orders : Checkout(t, o) \/ Confirm(t, o) \/ Cancel(t, o)
  \/ \E o \in Orders : BackToPending(o)
  \/ \E m \in Incoming : Adjust("adjust_in", m)
  \/ \E m \in Outgoing : Adjust("adjust_out", m)
  \/ \E r \in Rows : \E figure \in Figures[r] : SetStock(r, figure)

Spec == Init /\ [][Next]_vars

-----------------------------------------------------------------------------
(* Properties *)

Task == [at : {"idle", "gather", "plan", "commit"}, op : {"none", "checkout", "confirm", "cancel"},
         order : Orders \cup {NoTask.order}, from : Statuses,
         moves : Seq(Keys), plan : Seq(Keys), expected : [Kinds -> Nat]]

TypeOK ==
  /\ stock \in [Rows -> Nat] /\ reserved \in [Rows -> Nat]
  /\ ledger \subseteq Keys
  /\ status \in [Orders -> Statuses]
  /\ task \in [Tasks -> Task]
  /\ \A t \in Tasks : task[t].at # "idle" => task[t].order \in Orders
  /\ unledgered \in [Rows -> Int] /\ saves \in 0..MaxSaves

\* "Overselling": no interleaving of checkouts, confirmations, cancellations,
\* write-offs and fenced saves holds more units of a row than are on its shelf.
NeverOversold == \A r \in Rows : reserved[r] <= stock[r]

RowsFor(r, rows) == {e \in rows : RowOf[e.move] = r}

\* A row of the ledger moved its counters, exactly once: the ledger adds up to all
\* the units held, and to the units on hand but for those that saves of products
\* set without a row.  It never claims a movement that did not happen.
CountersMatchLedger ==
  \A r \in Rows :
    /\ stock[r] = Opening[r] + unledgered[r] + SumOf(OnShelf, RowsFor(r, ledger))
    /\ reserved[r] = SumOf(OnHold, RowsFor(r, ledger))

\* An order exists exactly when every line of it was held: the fence leaves no
\* order half reserved, and no hold is taken for an order that was not placed.
OrderIsHeld ==
  \A o \in Orders : \A m \in Range(Lines[o]) : Entry("reserve", m) \in ledger <=> status[o] # "none"

\* Units come back to the shelf only when they left it, and leave it only when
\* they were held, line by line, also when an order was deducted in part.
ReturnsFollowTaking ==
  \A m \in Moves :
    /\ Entry("restore", m) \in ledger => Entry("deduct", m) \in ledger
    /\ Entry("deduct", m) \in ledger \/ Entry("release", m) \in ledger => Entry("reserve", m) \in ledger

\* "What was held is what is deducted, and what was deducted is what comes back"
\* (orderInventory.ts): a hold is given back or turned into a sale, not both.
HoldSpentOnce == \A m \in Moves : ~(Entry("release", m) \in ledger /\ Entry("deduct", m) \in ledger)
=============================================================================

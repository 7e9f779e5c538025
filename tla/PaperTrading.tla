----------------------------- MODULE PaperTrading -----------------------------
(***************************************************************************)
(* The paper-trading account of one user in one security: orders are       *)
(* proposed, confirmed, opened, filled against quote snapshots, cancelled  *)
(* and expired, while the account is reset and audited.                    *)
(*                                                                         *)
(* Every transaction is one step: it locks the order row first and then    *)
(* the account row FOR UPDATE, and keeps both until it commits.  What is   *)
(* fetched before those locks, the quote, is a parameter that may be older *)
(* than what others have used meanwhile.  An order of the model stands for *)
(* its idempotency keys too: a second request with the same key finds the  *)
(* order and changes nothing.                                              *)
(*                                                                         *)
(* A trading day is three ticks: before the open, continuous trading,      *)
(* after the close.  A snapshot shows one level on one side of the book.   *)
(***************************************************************************)
EXTENDS Integers, Sequences, FiniteSets, FiniteSetsExt, Functions

CONSTANTS
  Order,        \* orders that may be placed
  Draft,        \* what an order may ask for
  Cash,         \* opening balances
  Level,        \* what a snapshot may show
  MinimumFee,   \* the minimum commission
  GrossPerFee,  \* 1 / the rate of the proportional fees
  MaxGenerations, MaxLots, MaxQuotes, MaxTime  \* bounds

Side == {"BUY", "SELL"}

ASSUME PaperAssumption ==
  /\ Draft \subseteq [side : Side, market : BOOLEAN, quantity : Nat \ {0}, limit : Nat \ {0}]
  /\ Level \subseteq [side : Side, price : Nat \ {0}, depth : Nat \ {0}]
  /\ Cash \subseteq Nat \ {0}
  /\ IsFiniteSet(Order)
  /\ {MinimumFee, MaxLots, MaxTime, MaxQuotes} \subseteq Nat
  /\ {GrossPerFee, MaxGenerations} \subseteq Nat \ {0}

VARIABLES
  time,     \* ticks of the trading clock
  account,  \* paper_accounts, by generation
  order,    \* paper_orders
  passes,   \* paper_match_passes of an order, by match_pass
  lots,     \* paper_holding_lots of a generation, by created_at
  reserved,     \* paper_lot_reservations.remaining_quantity, by order and lot
  books     \* snapshots the quote source has shown

paperVars == <<time, account, order, passes, lots, reserved, books>>

Generation == 1..MaxGenerations
AccountStatus == {"none", "active", "suspended", "archived"}
OrderStatus == {"none", "awaiting_confirmation", "queued", "open",
                "partially_filled", "filled", "cancelled", "expired"}
Terminal == {"filled", "cancelled", "expired"}
Matchable == {"open", "partially_filled"}
Resting == Matchable \cup {"queued"}

LotIndex == 1..MaxLots

-----------------------------------------------------------------------------
(* The trading clock.                                                      *)

Day == time \div 3
Continuous == time % 3 = 1
ExpiresAt == 3 * (IF time % 3 = 2 THEN Day + 1 ELSE Day) + 2

-----------------------------------------------------------------------------
(* Money.                                                                  *)

\* Total fees of an order that has traded this gross amount.
Fee(gross) == IF gross = 0 THEN 0 ELSE Max({MinimumFee, gross \div GrossPerFee})

\* What an order may still cost: the rest at its limit, and the fees to come.
WorstCost(draft, filled, gross) ==
  LET rest == draft.limit * (draft.quantity - filled) IN
  rest + Fee(gross + rest) - Fee(gross)

\* n shares taken from the lots in order, at most free[i] of each.
TakeInTurn(free, n) ==
  [i \in DOMAIN free |->
     LET older == SumFunctionOnSet(free, 1..(i - 1))
     IN  Max({0, Min({free[i], n - older})})]

NewAccount(cash) ==
  [status |-> "active", initial |-> cash, available |-> cash, frozen |-> 0, edited |-> FALSE]
NoAccount ==
  [status |-> "none", initial |-> 0, available |-> 0, frozen |-> 0, edited |-> FALSE]
NoDraft == [side |-> "BUY", market |-> FALSE, quantity |-> 0, limit |-> 0]
NoOrder ==
  [status |-> "none", generation |-> 0, draft |-> NoDraft, cash |-> 0, shares |-> 0,
   expires |-> 0, filled |-> 0, gross |-> 0]

\* Mutant of Active: an archived account still does.
ActiveOrArchived(g) == account[g].status \in {"active", "archived"}

Active(g) == account[g].status = "active"
OrdersOf(g) == {o \in Order : order[o].status # "none" /\ order[o].generation = g}
BuysOf(g) == {o \in OrdersOf(g) : order[o].draft.side = "BUY"}
SellsOf(g) == OrdersOf(g) \ BuysOf(g)
Held(o) == SumFunction(reserved[o])
ReservedIn(i, S) == SumFunctionOnSet([o \in Order |-> reserved[o][i]], S)
ReservedCash(S) == SumFunctionOnSet([o \in Order |-> order[o].cash], S)
Holding(g) == SumFunction([i \in DOMAIN lots[g] |-> lots[g][i].remaining])

PaperInit ==
  /\ time = 0
  /\ account = [g \in Generation |-> NoAccount]
  /\ order = [o \in Order |-> NoOrder]
  /\ passes = [o \in Order |-> <<>>]
  /\ lots = [g \in Generation |-> <<>>]
  /\ reserved = [o \in Order |-> [i \in LotIndex |-> 0]]
  /\ books = <<>>

-----------------------------------------------------------------------------
(* Accounts.                                                               *)

\* get_or_create: the first account only; a user whose account is suspended
\* or archived gets no other one here.
OpenAccount(cash) ==
  /\ \A g \in Generation : account[g].status = "none"
  /\ account' = [account EXCEPT ![1] = NewAccount(cash)]
  /\ UNCHANGED <<time, order, passes, lots, reserved, books>>

EditInitialCash(cash) ==
  /\ Active(1)
  /\ ~account[1].edited
  /\ OrdersOf(1) = {}
  /\ account' = [account EXCEPT ![1] = [NewAccount(cash) EXCEPT !.edited = TRUE]]
  /\ UNCHANGED <<time, order, passes, lots, reserved, books>>

\* Archives the active generation as it is, open orders included.
Reset(g, cash) ==
  /\ g + 1 \in Generation
  /\ Active(g)
  /\ account' = [account EXCEPT ![g].status = "archived", ![g + 1] = NewAccount(cash)]
  /\ UNCHANGED <<time, order, passes, lots, reserved, books>>

-----------------------------------------------------------------------------
(* Orders.                                                                 *)

\* Mutant of Sellable: from the trading day it was bought on.
SellableAtOnce(g) ==
  [i \in LotIndex |->
     IF i \in DOMAIN lots[g] /\ lots[g][i].day <= Day
     THEN lots[g][i].remaining - lots[g][i].frozen
     ELSE 0]

\* A lot is sellable from the trading day after the one it was bought on.
Sellable(g) ==
  [i \in LotIndex |->
     IF i \in DOMAIN lots[g] /\ lots[g][i].day < Day
     THEN lots[g][i].remaining - lots[g][i].frozen
     ELSE 0]

SellableShares(g) == SumFunction(Sellable(g))

\* A proposal; the user may still edit everything it asks for.
Prepare(o, g, draft) ==
  /\ order[o].status = "none"
  /\ Active(g)
  /\ draft.side = "BUY" =>
       \E price \in 1..draft.limit :
         /\ draft.market \/ price = draft.limit
         /\ price * draft.quantity + Fee(price * draft.quantity) <= account[g].available
  /\ draft.side = "SELL" => draft.quantity <= SellableShares(g)
  /\ order' = [order EXCEPT ![o].status = "awaiting_confirmation",
                            ![o].generation = g,
                            ![o].expires = ExpiresAt]
  /\ UNCHANGED <<time, account, passes, lots, reserved, books>>

ReserveCash(o, g, draft) ==
  LET reserve == WorstCost(draft, 0, 0) IN
  /\ reserve <= account[g].available
  /\ account' = [account EXCEPT ![g].available = @ - reserve, ![g].frozen = @ + reserve]
  /\ UNCHANGED <<lots, reserved>>

ReserveShares(o, g, draft) ==
  LET taken == TakeInTurn(Sellable(g), draft.quantity) IN
  /\ draft.quantity <= SellableShares(g)
  /\ reserved' = [reserved EXCEPT ![o] = taken]
  /\ lots' = [lots EXCEPT ![g] =
                [i \in DOMAIN lots[g] |-> [lots[g][i] EXCEPT !.frozen = @ + taken[i]]]]
  /\ UNCHANGED account

\* Puts an order on the books with what it needs set aside.
Place(o, g, draft, expires) ==
  /\ draft.market => Continuous
  /\ \/ draft.side = "BUY" /\ ReserveCash(o, g, draft)
     \/ draft.side = "SELL" /\ ReserveShares(o, g, draft)
  /\ order' = [order EXCEPT ![o] =
       [status |-> IF Continuous THEN "open" ELSE "queued",
        generation |-> g, draft |-> draft, expires |-> expires, filled |-> 0, gross |-> 0,
        cash |-> IF draft.side = "BUY" THEN WorstCost(draft, 0, 0) ELSE 0,
        shares |-> IF draft.side = "SELL" THEN draft.quantity ELSE 0]]
  /\ UNCHANGED <<time, passes, books>>

Confirm(o, draft) ==
  /\ order[o].status = "awaiting_confirmation"
  /\ Active(order[o].generation)
  /\ time < order[o].expires
  /\ Place(o, order[o].generation, draft, order[o].expires)

ConfirmTooLate(o) ==
  /\ order[o].status = "awaiting_confirmation"
  /\ Active(order[o].generation)
  /\ time >= order[o].expires
  /\ order' = [order EXCEPT ![o].status = "cancelled"]
  /\ UNCHANGED <<time, account, passes, lots, reserved, books>>

\* An order approved as a tool call of a Run: proposed and confirmed at once.
ExecuteApproved(o, g, draft) ==
  /\ order[o].status = "none"
  /\ Active(g)
  /\ Place(o, g, draft, ExpiresAt)

\* The orders of B end and give back what they hold; refused as a whole when
\* an account has less frozen than its orders hold.
ReleaseAll(B, status) ==
  LET cashOf(g) == ReservedCash(B \cap BuysOf(g))
      sharesIn(g, i) == ReservedIn(i, B \cap SellsOf(g))
  IN
  /\ \A g \in Generation : cashOf(g) <= account[g].frozen
  /\ account' = [g \in Generation |->
       [account[g] EXCEPT !.available = @ + cashOf(g), !.frozen = @ - cashOf(g)]]
  /\ lots' = [g \in Generation |->
       [i \in DOMAIN lots[g] |-> [lots[g][i] EXCEPT !.frozen = @ - sharesIn(g, i)]]]
  /\ reserved' = [o \in Order |-> IF o \in B THEN [i \in LotIndex |-> 0] ELSE reserved[o]]
  /\ order' = [o \in Order |->
       IF o \in B THEN [order[o] EXCEPT !.status = status, !.cash = 0, !.shares = 0]
       ELSE order[o]]
  /\ UNCHANGED <<time, passes, books>>

CancelOrder(o) ==
  /\ order[o].status \in Resting
  /\ Active(order[o].generation)
  /\ ReleaseAll({o}, "cancelled")

\* One batch of expire_open_orders: the due orders nobody else has locked.
Expire(B) ==
  /\ B # {}
  /\ \A o \in B :
       /\ order[o].status \in Resting
       /\ order[o].expires <= time
       /\ account[order[o].generation].status \in {"active", "archived"}
  /\ ReleaseAll(B, "expired")

OpenQueued(B) ==
  /\ Continuous
  /\ B # {}
  /\ \A o \in B :
       /\ order[o].status = "queued"
       /\ order[o].expires > time
       /\ Active(order[o].generation)
  /\ order' = [o \in Order |->
       IF o \in B THEN [order[o] EXCEPT !.status = "open"] ELSE order[o]]
  /\ UNCHANGED <<time, account, passes, lots, reserved, books>>

-----------------------------------------------------------------------------
(* Matching: the order and the account are locked, the snapshot was fetched *)
(* before.                                                                  *)

Executable(o, book) ==
  LET draft == order[o].draft
      acceptable == IF draft.side = "BUY" THEN book.price <= draft.limit
                    ELSE book.price >= draft.limit
  IN IF book.side = draft.side /\ (draft.market \/ acceptable)
     THEN Min({draft.quantity - order[o].filled, book.depth})
     ELSE 0

\* Mutant of MayMatch: a snapshot the order has used may be used again.
MayMatchAgain(o, s) ==
  /\ order[o].status \in Matchable
  /\ Continuous
  /\ time < order[o].expires
  /\ books[s].at = time

\* An order that trades now and has not used the snapshot s, which is fresh.
MayMatch(o, s) ==
  /\ order[o].status \in Matchable
  /\ Continuous
  /\ time < order[o].expires
  /\ books[s].at = time
  /\ \A p \in DOMAIN passes[o] : passes[o][p].snapshot # s

RecordPass(o, s, n) ==
  passes' = [passes EXCEPT ![o] = Append(@, [snapshot |-> s, quantity |-> n])]

\* The snapshot offers nothing to this order, of whatever account: noted.
MatchNothing(o, s) ==
  /\ MayMatch(o, s)
  /\ Executable(o, books[s]) = 0
  /\ RecordPass(o, s, 0)
  /\ UNCHANGED <<time, account, order, lots, reserved, books>>

\* The snapshots an order has used are in order, and s comes after them.
HistoryFits(o, s) ==
  LET used == [p \in DOMAIN passes[o] |-> passes[o][p].snapshot] \o <<s>> IN
  \A p \in 1..(Len(used) - 1) : used[p] <= used[p + 1]

\* What every fill writes to its order.
Filled(o, n, gross, cash, shares) ==
  LET filled == order[o].filled + n IN
  order' = [order EXCEPT
    ![o].filled = filled,
    ![o].gross = @ + gross,
    ![o].status = IF filled = order[o].draft.quantity THEN "filled" ELSE "partially_filled",
    ![o].cash = cash,
    ![o].shares = shares]

\* _settle_buy.  Everything the account has frozen beyond what this order
\* still needs is released.
FillBuy(o, s) ==
  LET g == order[o].generation
      n == Executable(o, books[s])
      gross == n * books[s].price
      total == order[o].gross + gross
      actual == gross + Fee(total) - Fee(order[o].gross)
      required == WorstCost(order[o].draft, order[o].filled + n, total)
  IN
  /\ order[o].draft.side = "BUY"
  /\ MayMatch(o, s)
  /\ n > 0 /\ Len(lots[g]) < MaxLots
  /\ HistoryFits(o, s)
  /\ Active(g)
  /\ actual + required <= account[g].frozen
  /\ account' = [account EXCEPT ![g].frozen = required,
                               ![g].available = @ + account[g].frozen - actual - required]
  /\ lots' = [lots EXCEPT ![g] = Append(@, [day |-> Day, remaining |-> n, frozen |-> 0])]
  /\ RecordPass(o, s, n)
  /\ Filled(o, n, gross, required, 0)
  /\ UNCHANGED <<time, reserved, books>>

\* Mutant of FillSell: every fill is charged the fees of an order of its own.
FillSellChargedTwice(o, s) ==
  LET g == order[o].generation
      n == Executable(o, books[s])
      gross == n * books[s].price
      sold == TakeInTurn(reserved[o], n)
  IN
  /\ order[o].draft.side = "SELL"
  /\ MayMatch(o, s)
  /\ n > 0
  /\ HistoryFits(o, s)
  /\ Active(g)
  /\ n <= Held(o)
  /\ Fee(gross) <= account[g].available + gross
  /\ account' = [account EXCEPT ![g].available = @ + gross - Fee(gross)]
  /\ reserved' = [reserved EXCEPT ![o] = [i \in LotIndex |-> @[i] - sold[i]]]
  /\ lots' = [lots EXCEPT ![g] =
       [i \in DOMAIN lots[g] |->
          [lots[g][i] EXCEPT !.remaining = @ - sold[i], !.frozen = @ - sold[i]]]]
  /\ RecordPass(o, s, n)
  /\ Filled(o, n, gross, 0, order[o].shares - n)
  /\ UNCHANGED <<time, books>>

\* _settle_sell: the oldest lots the order holds go first.
FillSell(o, s) ==
  LET g == order[o].generation
      n == Executable(o, books[s])
      gross == n * books[s].price
      fee == Fee(order[o].gross + gross) - Fee(order[o].gross)
      sold == TakeInTurn(reserved[o], n)
  IN
  /\ order[o].draft.side = "SELL"
  /\ MayMatch(o, s)
  /\ n > 0
  /\ HistoryFits(o, s)
  /\ Active(g)
  /\ n <= Held(o)
  /\ fee <= account[g].available + gross
  /\ account' = [account EXCEPT ![g].available = @ + gross - fee]
  /\ reserved' = [reserved EXCEPT ![o] = [i \in LotIndex |-> @[i] - sold[i]]]
  /\ lots' = [lots EXCEPT ![g] =
       [i \in DOMAIN lots[g] |->
          [lots[g][i] EXCEPT !.remaining = @ - sold[i], !.frozen = @ - sold[i]]]]
  /\ RecordPass(o, s, n)
  /\ Filled(o, n, gross, 0, order[o].shares - n)
  /\ UNCHANGED <<time, books>>

-----------------------------------------------------------------------------
(* The audit.                                                               *)

Spent(g) == SumFunctionOnSet([o \in Order |-> order[o].gross + Fee(order[o].gross)], BuysOf(g))
Earned(g) == SumFunctionOnSet([o \in Order |-> order[o].gross - Fee(order[o].gross)], SellsOf(g))
Traded(S) == SumFunctionOnSet([o \in Order |-> order[o].filled], S)

\* The balance is the opening deposit and what the fills have moved.
CashAuthority(g) ==
  account[g].available + account[g].frozen = account[g].initial - Spent(g) + Earned(g)

\* The lots are what was bought and not yet sold.
ShareConservation(g) == Holding(g) = Traded(BuysOf(g)) - Traded(SellsOf(g))

\* Orders, reservations and lots agree on the shares set aside.
ShareReservations(g) ==
  /\ \A o \in SellsOf(g) : order[o].shares = Held(o)
  /\ \A o \in OrdersOf(g) :
       order[o].status \in Terminal => Held(o) = 0 /\ order[o].cash = 0
  /\ \A i \in DOMAIN lots[g] : lots[g][i].frozen = ReservedIn(i, SellsOf(g))

\* What the account has frozen is what its open buy orders have reserved.
CashReservation(g) ==
  account[g].frozen = ReservedCash({o \in BuysOf(g) : order[o].status \notin Terminal})

AuditPasses(g) ==
  CashAuthority(g) /\ ShareConservation(g) /\ ShareReservations(g) /\ CashReservation(g)

\* reconcile_account: an account that fails the audit is suspended.
Reconcile(g) ==
  /\ Active(g)
  /\ account' = [account EXCEPT ![g].status = IF AuditPasses(g) THEN @ ELSE "suspended"]
  /\ UNCHANGED <<time, order, passes, lots, reserved, books>>

-----------------------------------------------------------------------------
(* The world.                                                               *)

Tick ==
  /\ time < MaxTime
  /\ time' = time + 1
  /\ UNCHANGED <<account, order, passes, lots, reserved, books>>

\* The market moves on to its next snapshot.
Quote(level) ==
  /\ Continuous
  /\ Len(books) < MaxQuotes
  /\ books' = Append(books,
       [side |-> level.side, price |-> level.price, depth |-> level.depth, at |-> time])
  /\ UNCHANGED <<time, account, order, passes, lots, reserved>>

PaperNext ==
  \/ \E cash \in Cash : OpenAccount(cash) \/ EditInitialCash(cash)
  \/ \E g \in Generation :
       \/ \E cash \in Cash : Reset(g, cash)
       \/ \E o \in Order, draft \in Draft : Prepare(o, g, draft) \/ ExecuteApproved(o, g, draft)
       \/ Reconcile(g)
  \/ \E o \in Order :
       \/ \E draft \in Draft : Confirm(o, draft)
       \/ ConfirmTooLate(o)
       \/ CancelOrder(o)
       \/ \E s \in DOMAIN books : MatchNothing(o, s) \/ FillBuy(o, s) \/ FillSell(o, s)
  \/ \E B \in SUBSET Order : Expire(B) \/ OpenQueued(B)
  \/ Tick
  \/ \E level \in Level : Quote(level)

PaperSpec == PaperInit /\ [][PaperNext]_paperVars

-----------------------------------------------------------------------------
(* Properties.                                                              *)

\* Every variable has its type; balances are never negative, no order is
\* overfilled, and no lot holds more for orders than it has.
PaperTypeOK ==
  /\ time \in 0..MaxTime
  /\ account \in [Generation ->
       [status : AccountStatus, initial : Nat, available : Nat, frozen : Nat, edited : BOOLEAN]]
  /\ order \in [Order ->
       [status : OrderStatus, generation : Generation \cup {0}, draft : Draft \cup {NoDraft},
        cash : Nat, shares : Nat, expires : Nat, filled : Nat, gross : Nat]]
  /\ \A o \in Order : order[o].filled <= order[o].draft.quantity
  /\ passes \in [Order -> Seq([snapshot : 1..MaxQuotes, quantity : Nat])]
  /\ lots \in [Generation -> Seq([day : Nat, remaining : Nat, frozen : Nat])]
  /\ \A g \in Generation :
       /\ Len(lots[g]) <= MaxLots
       /\ \A i \in DOMAIN lots[g] : lots[g][i].frozen <= lots[g][i].remaining
  /\ reserved \in [Order -> [LotIndex -> Nat]]
  /\ books \in Seq([side : Side, price : Nat, depth : Nat, at : Nat])

\* No money appears or disappears: however fills, releases, cancellations,
\* expiries and resets interleave, the balance of a generation is its deposit
\* and its trades, every order charged its fees once.
CashConserved == \A g \in Generation : CashAuthority(g)

\* No share appears or disappears, and what lots, reservations and orders say
\* is set aside is the same, across partial fills of several lots.
SharesConserved == \A g \in Generation : ShareConservation(g) /\ ShareReservations(g)

\* An order always holds exactly what the rest of it may need, and nothing
\* once it has ended.
ReservationsFitOrders ==
  \A o \in Order :
    LET r == order[o]
        rest == r.draft.quantity - r.filled
    IN
    IF r.status \in Resting
    THEN IF r.draft.side = "BUY" THEN r.cash = WorstCost(r.draft, r.filled, r.gross) /\ Held(o) = 0
         ELSE r.shares = rest /\ Held(o) = rest /\ r.cash = 0
    ELSE r.cash = 0 /\ r.shares = 0 /\ Held(o) = 0

\* The books of every generation balance, in cash, in shares, and with what
\* the orders that are still open may need.
BooksBalance == PaperTypeOK /\ CashConserved /\ SharesConserved /\ ReservationsFitOrders

\* Whatever is delivered twice, late or at the same time, an order takes from
\* a snapshot at most what it shows, and has filled what it took.
TakesDepthOnce ==
  \A o \in Order :
    LET took(S) == SumFunctionOnSet([p \in DOMAIN passes[o] |-> passes[o][p].quantity],
                                    {p \in DOMAIN passes[o] : passes[o][p].snapshot \in S})
    IN
    /\ order[o].filled = took(DOMAIN books)
    /\ \A s \in DOMAIN books : took({s}) <= books[s].depth

\* A share is never sold on the trading day it was bought on.
NothingSoldOnItsFirstDay ==
  [][\A g \in Generation : \A i \in DOMAIN lots[g] :
       lots'[g][i].remaining < lots[g][i].remaining => lots[g][i].day < Day]_paperVars

\* An account that was archived or suspended does no more business: an
\* archived one only gets back what its ended orders reserved, a suspended one
\* nothing at all.
ClosedAccountsAreReadOnly ==
  [][\A g \in Generation :
       /\ account[g].status \in {"archived", "suspended"} =>
            /\ account'[g].status = account[g].status
            /\ account'[g].available + account'[g].frozen = account[g].available + account[g].frozen
            /\ account'[g].frozen <= account[g].frozen
            /\ \A o \in OrdersOf(g) : order'[o].filled = order[o].filled
       /\ account[g].status = "suspended" =>
            /\ account'[g] = account[g]
            /\ \A o \in OrdersOf(g) : order'[o] = order[o]]_paperVars

\* What the audit demands of an active account (reconciliation.py:687,
\* _check_reservations: expected_cash_frozen is the account's frozen cash).
\* False: a fill releases what other orders have reserved.
FrozenCashIsReserved == \A g \in Generation : Active(g) => CashReservation(g)

=============================================================================

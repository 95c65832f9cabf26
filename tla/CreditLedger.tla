---------------------------- MODULE CreditLedger ----------------------------
(***************************************************************************)
(* One account's credits: the available balance (User.credits), the lots   *)
(* that say where expiring credits came from, and the reservations that    *)
(* jobs hold.  Every operation of credits.py and credit_lots.py starts by  *)
(* taking the account's row lock (lock_balance), which also sweeps expired *)
(* lots, and ends with the caller's commit: it is one atomic step here.    *)
(*                                                                         *)
(* A lot exists per paid invoice or pack, keyed by the payment; credits    *)
(* that belong to no lot (opening balance, administrator grants) are the   *)
(* permanent remainder  balance - sum of remaining.                        *)
(***************************************************************************)
EXTENDS Integers, FiniteSets, FiniteSetsExt

CONSTANTS
  Lots,        \* payments that grant credits; each creates one lot
  Amount,      \* the credits each payment grants
  Group,       \* the subscription a payment belongs to, or NoGroup (a pack)
  NoGroup,
  Ops,         \* operations that reserve credits (one reservation each)
  Prices,      \* prices callers of reserve quote
  Opening,     \* balance of the account before any modelled step
  References,  \* grants without a lot and refunds of pre-ledger tasks
  Bonus,       \* the credits each of these adds
  Refunds,     \* cumulative refund targets the provider may report
  MaxTime,     \* bound on the clock
  MaxAttempts  \* bound on the attempts of a reservation

ASSUME LedgerAssumption ==
  /\ IsFiniteSet(Lots) /\ IsFiniteSet(Ops) /\ IsFiniteSet(References)
  /\ Amount \in [Lots -> Nat \ {0}]
  /\ Prices \subseteq Nat
  /\ Refunds \subseteq Nat
  /\ Opening \in Nat
  /\ Bonus \in [References -> Nat \ {0}]
  /\ MaxTime \in Nat
  /\ MaxAttempts \in Nat

VARIABLES
  clock,        \* the clock that expiry is compared with
  balance,      \* User.credits; negative after a reversal of spent credits
  lot,          \* CreditLot rows
  recorded,     \* references whose CreditEntry exists
  reservation,  \* CreditReservation rows
  alloc,        \* CreditAllocation rows of the reservation's current attempt
  spent,        \* history: credits of settled reservations, by lot
  spentTotal,   \* history: credits of settled reservations, lots or not
  debited       \* history: what refunds took from the balance, by lot

vars == <<clock, balance, lot, recorded, reservation, alloc, spent, spentTotal, debited>>

Never == MaxTime + 1        \* expires_at IS NULL: sorts last, never passes
States == {"none", "held", "settled", "released"}

Least(a, b) == IF a <= b THEN a ELSE b
Positive(n) == IF n > 0 THEN n ELSE 0
SumOver(f, S) == MapThenSumSet(LAMBDA x : f[x], S)
Total(f) == SumOver(f, Lots)

-----------------------------------------------------------------------------
(* Lots: expiry, allocation and release.                                   *)

\* expire_available: an expired lot forfeits what is left of it.
Expire(lots) ==
  [l \in Lots |->
    IF lots[l].expires <= clock
      THEN [lots[l] EXCEPT !.expired = @ + lots[l].remaining, !.remaining = 0]
      ELSE lots[l]]

(* Some definitions come with a slip: a mistake the code could plausibly   *)
(* have made there.  Nothing uses a slip; a run's property must notice it. *)

\* What that costs the balance.
Forfeit(lots) ==
  Total([l \in Lots |-> IF lots[l].expires <= clock THEN lots[l].remaining ELSE 0])

\* lock_balance: the lots and the balance every operation works on.
\* Slip: the lots are not swept.
Unswept == lot
Locked == Expire(lot)
LockedBalance == balance - Forfeit(lot)

\* Slip: a lot may be drawn below zero.
AllocationsBeyondRemaining(lots, cost) ==
  {taken \in [Lots -> 0..cost] :
    Total(taken) = Least(cost, Total([l \in Lots |-> lots[l].remaining]))}

\* allocate: the lots cover as much of the cost as they can, a lot being
\* touched only when all that expire sooner are used up (ties broken by id,
\* a hash: any order).  The permanent remainder pays the rest.
Allocations(lots, cost) ==
  {taken \in [Lots -> 0..cost] :
    /\ \A l \in Lots : taken[l] <= lots[l].remaining
    /\ Total(taken) = Least(cost, Total([l \in Lots |-> lots[l].remaining]))
    /\ \A l, m \in Lots :
         /\ lots[l].expires < lots[m].expires
         /\ taken[m] > 0
         => taken[l] = lots[l].remaining}

\* Slip: the whole allocation goes back, whatever a refund took.
UnrevokedOrNot(lots, o, l) == alloc[o][l]

\* release: the part of an allocation that no refund took back meanwhile.
Unrevoked(lots, o, l) ==
  Least(alloc[o][l],
        Positive(Amount[l] - lots[l].refunded - lots[l].expired - lots[l].remaining))

\* Slip: the returned part is usable again even after the period.
ReturnRegardless(lots, o) ==
  [l \in Lots |-> [lots[l] EXCEPT !.remaining = @ + Unrevoked(lots, o, l)]]

\* release: a lot past its period keeps the returned part as expired.
Return(lots, o) ==
  [l \in Lots |->
    IF lots[l].expires <= clock
      THEN [lots[l] EXCEPT !.expired = @ + Unrevoked(lots, o, l)]
      ELSE [lots[l] EXCEPT !.remaining = @ + Unrevoked(lots, o, l)]]

\* Slip: the balance regains what expired while it was held.
ReturnedInFull(lots, o) == reservation[o].amount

\* release: the amount that goes back to the balance: all of it but what
\* expired while it was held.
Returned(lots, o) ==
  reservation[o].amount
    - Total([l \in Lots |-> IF lots[l].expires <= clock THEN Unrevoked(lots, o, l) ELSE 0])

\* add: a new period ends the earlier ones of its subscription ...
EndEarlier(lots, l, start) ==
  [m \in Lots |->
    IF /\ m # l /\ lots[m].granted
       /\ Group[m] # NoGroup /\ Group[m] = Group[l]
       /\ lots[m].start < start /\ lots[m].expires > start
      THEN [lots[m] EXCEPT !.expires = start]
      ELSE lots[m]]

\* Slip: later periods are not looked for.
EndsAsInvoiced(lots, l, start, expires) == {expires}

\* ... and a late invoice ends where a later period has already begun.
Ends(lots, l, start, expires) ==
  {expires} \cup
  {lots[m].start : m \in {k \in Lots : /\ lots[k].granted
                                       /\ Group[k] # NoGroup /\ Group[k] = Group[l]
                                       /\ lots[k].start > start}}

\* Slip: the growth of the refund, as far as the lot is not expired.
DebitOfGrowth(lots, l, target) ==
  Least(Positive(target - lots[l].refunded), Positive(Amount[l] - lots[l].expired))

\* revoke: the new part of the refund that expiry has not taken already.
NewDebit(lots, l, target) ==
  LET unexpired == Positive(Amount[l] - lots[l].expired)
  IN  Positive(Least(target, unexpired) - Least(lots[l].refunded, unexpired))

-----------------------------------------------------------------------------
NoLot == [granted |-> FALSE, remaining |-> 0, expired |-> 0, refunded |-> 0,
          expires |-> MaxTime + 1, start |-> 0]

Init ==
  /\ clock = 0
  /\ balance = Opening
  /\ lot = [l \in Lots |-> NoLot]
  /\ recorded = {}
  /\ reservation = [o \in Ops |-> [state |-> "none", amount |-> 0, attempt |-> 0]]
  /\ alloc = [o \in Ops |-> [l \in Lots |-> 0]]
  /\ spent = [l \in Lots |-> 0]
  /\ spentTotal = 0
  /\ debited = [l \in Lots |-> 0]

\* A balance or history read: lock_balance and nothing else.  Calls of
\* reserve, finish or grant that find their work already done come to this.
ReadBalance ==
  /\ lot' = Locked
  /\ balance' = LockedBalance
  /\ UNCHANGED <<clock, recorded, reservation, alloc, spent, spentTotal, debited>>

\* reserve: a new operation, or a retry of a released one at its first price.
\* A realignment passes allow_reopen and pays the price of the day again.
Reserve(o, amount, reopen) ==
  LET r == reservation[o]
      cost == IF reopen \/ r.state = "none" THEN amount ELSE r.amount
  IN  /\ r.state = "none" => amount # 0
      /\ r.state # "held"
      /\ r.state = "settled" => reopen
      /\ r.attempt < MaxAttempts
      /\ LockedBalance >= cost
      /\ \E taken \in Allocations(Locked, cost) :
           /\ lot' = [l \in Lots |-> [Locked[l] EXCEPT !.remaining = @ - taken[l]]]
           /\ alloc' = [alloc EXCEPT ![o] = taken]
      /\ balance' = LockedBalance - cost
      /\ reservation' = [reservation EXCEPT ![o] =
                          [state |-> "held", amount |-> cost, attempt |-> r.attempt + 1]]
      /\ UNCHANGED <<clock, recorded, spent, spentTotal, debited>>

\* finish(success=True): the hold becomes a charge; the balance has paid it.
Settle(o) ==
  /\ reservation[o].state = "held"
  /\ reservation' = [reservation EXCEPT ![o].state = "settled"]
  /\ lot' = Locked
  /\ balance' = LockedBalance
  /\ spent' = [l \in Lots |-> spent[l] + alloc[o][l]]
  /\ spentTotal' = spentTotal + reservation[o].amount
  /\ alloc' = [alloc EXCEPT ![o] = [l \in Lots |-> 0]]
  /\ UNCHANGED <<clock, recorded, debited>>

\* finish(success=False): the hold goes back, except what expired meanwhile.
Release(o) ==
  /\ reservation[o].state = "held"
  /\ reservation' = [reservation EXCEPT ![o].state = "released"]
  /\ lot' = Return(Locked, o)
  /\ balance' = LockedBalance + Returned(Locked, o)
  /\ alloc' = [alloc EXCEPT ![o] = [l \in Lots |-> 0]]
  /\ UNCHANGED <<clock, recorded, spent, spentTotal, debited>>

\* grant without a lot, or legacy_refund: permanent credits, once by reference.
GrantPermanent(r) ==
  /\ r \notin recorded
  /\ recorded' = recorded \cup {r}
  /\ lot' = Locked
  /\ balance' = LockedBalance + Bonus[r]
  /\ UNCHANGED <<clock, reservation, alloc, spent, spentTotal, debited>>

\* grant with a lot: a payment's credits, once.  sync_payment passes the
\* invoice's period, cut at the subscription's end (even before its start);
\* the second sweep takes what the new period has just ended.
Grant(l, start, expires) ==
  /\ ~lot[l].granted
  /\ IF Group[l] = NoGroup THEN start = 0 /\ expires = Never
                           ELSE start <= clock /\ expires < Never
  /\ \E end \in Ends(Locked, l, start, expires) :
       /\ \A e \in Ends(Locked, l, start, expires) : end <= e
       /\ LET new == [NoLot EXCEPT !.granted = TRUE, !.remaining = Amount[l],
                                   !.expires = end, !.start = start]
              added == [EndEarlier(Locked, l, start) EXCEPT ![l] = new]
          IN  /\ lot' = Expire(added)
              /\ balance' = LockedBalance + Amount[l] - Forfeit(added)
  /\ UNCHANGED <<clock, recorded, reservation, alloc, spent, spentTotal, debited>>

\* reverse: the provider's cumulative refund of a payment has grown.
Reverse(l, target) ==
  /\ lot[l].granted
  /\ target > lot[l].refunded
  /\ target <= Amount[l]
  /\ LET debit == NewDebit(Locked, l, target)
     IN  /\ lot' = [Locked EXCEPT ![l].remaining = @ - Least(debit, Locked[l].remaining),
                                  ![l].refunded = target]
         /\ balance' = LockedBalance - debit
         /\ debited' = [debited EXCEPT ![l] = @ + debit]
  /\ UNCHANGED <<clock, recorded, reservation, alloc, spent, spentTotal>>

\* cap_subscription: a cancelled subscription's periods end with it.
CapSubscription(g, end) ==
  LET capped == [l \in Lots |->
        IF /\ Locked[l].granted /\ Group[l] = g
           /\ Locked[l].expires # Never /\ Locked[l].expires > end
          THEN [Locked[l] EXCEPT !.expires = end]
          ELSE Locked[l]]
  IN  /\ lot' = Expire(capped)
      /\ balance' = LockedBalance - Forfeit(capped)
      /\ UNCHANGED <<clock, recorded, reservation, alloc, spent, spentTotal, debited>>

Tick ==
  /\ clock < MaxTime
  /\ clock' = clock + 1
  /\ UNCHANGED <<balance, lot, recorded, reservation, alloc, spent, spentTotal, debited>>

Next ==
  \/ ReadBalance
  \/ \E o \in Ops, amount \in Prices, reopen \in BOOLEAN : Reserve(o, amount, reopen)
  \/ \E o \in Ops : Settle(o)
  \/ \E o \in Ops : Release(o)
  \/ \E r \in References : GrantPermanent(r)
  \/ \E l \in Lots, start \in 0..MaxTime, expires \in 0..Never : Grant(l, start, expires)
  \/ \E l \in Lots, target \in Refunds : Reverse(l, target)
  \/ \E g \in {Group[l] : l \in Lots} \ {NoGroup}, end \in 0..MaxTime : CapSubscription(g, end)
  \/ Tick

Spec == Init /\ [][Next]_vars

-----------------------------------------------------------------------------
(* Properties.                                                             *)

LotType == [granted : BOOLEAN, remaining : Nat, expired : Nat, refunded : Nat,
            expires : Nat, start : Nat]

\* The rows have their types.
RowTypeOK ==
  /\ clock \in Nat
  /\ lot \in [Lots -> LotType]
  /\ reservation \in [Ops -> [state : States, amount : Nat, attempt : Nat]]
  /\ alloc \in [Ops -> [Lots -> Nat]]
  /\ recorded \subseteq References

TypeOK == RowTypeOK /\ balance \in Int

\* Whatever the order of expiry, refunds, holds and releases, the credits a
\* lot still offers were neither refunded nor expired: a release cannot put
\* back what a refund reversed, and the sweep cannot expire it again.
SpendableIsNeitherRefundedNorExpired ==
  \A l \in Lots :
    lot[l].remaining <= Positive(Amount[l] - lot[l].expired - lot[l].refunded)

\* Invoices of one subscription may arrive in any order and yet their credit
\* periods never overlap: a late old invoice cannot reopen an ended period.
PeriodsNeverOverlap ==
  \A l, m \in Lots :
    /\ lot[l].granted /\ lot[m].granted
    /\ Group[l] = Group[m] /\ Group[l] # NoGroup
    /\ lot[l].start < lot[m].start
    => lot[l].expires <= lot[m].start

\* Every credit is accounted for: the balance is what was granted less what
\* is held, was charged, expired, or was taken back by refunds.
HeldAmount == SumOver([o \in Ops |-> IF reservation[o].state = "held"
                                      THEN reservation[o].amount ELSE 0], Ops)
EveryCreditAccounted ==
  balance = Opening
    + Total([l \in Lots |-> IF lot[l].granted THEN Amount[l] ELSE 0])
    + SumOver(Bonus, recorded)
    - HeldAmount - spentTotal
    - Total([l \in Lots |-> lot[l].expired + debited[l]])

\* However often the provider's refund of a payment has grown, and whatever
\* expired or was held in between, the balance has paid it exactly once: as
\* much of it as expiry did not take (revoke: "already expired credits are
\* never debited twice").
RefundsDebitedOnce ==
  \A l \in Lots : debited[l] = Least(lot[l].refunded, Amount[l] - lot[l].expired)

\* Holding a job past the period end cannot turn expired credits into usable
\* ones: a lot whose period is over never regains credits.
ExpiredLotsNeverRefill ==
  [][\A l \in Lots : lot[l].granted /\ lot[l].expires <= clock
       => lot'[l].remaining <= lot[l].remaining]_vars

\* A reservation never draws on a lot whose period is over, however long ago
\* the last sweep ran.
NeverSpendExpired ==
  [][\A o \in Ops, l \in Lots :
       alloc'[o][l] > alloc[o][l] => lot[l].expires > clock]_vars

\* Once no job holds credits, what a lot still offers is at most what charges,
\* expiry and refunds have left of it.  Anything beyond that is permanent
\* credit which the end of the period will take away with the lot.
PermanentPacksKeptSeparate ==
  (\A o \in Ops : reservation[o].state # "held") =>
    \A l \in Lots :
      lot[l].remaining <= Positive(Amount[l] - lot[l].expired - debited[l] - spent[l])
=============================================================================

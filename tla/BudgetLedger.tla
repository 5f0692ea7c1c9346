---------------------------- MODULE BudgetLedger ----------------------------
(***************************************************************************)
(* What a session's budget promises: a ledger in which a reservation is    *)
(* granted at most once and only within what is booked, its amount is      *)
(* given back at most once, and what was paid is never given back.         *)
(* Reservation implements it command by command before reservations        *)
(* expire, and Settlement across the handlers, the watcher and the chain,  *)
(* with one deviation that is named here: Overdraw.                        *)
(***************************************************************************)
EXTENDS Integers

CONSTANTS
    Ids,        \* reservation ids
    Sessions,   \* session ids
    Amounts,    \* amounts that may be reserved
    MaxTotal,   \* session id -> maxTotalSpend
    Overdraws   \* may the amount of a released reservation go off again?

VARIABLES
    booked,     \* session id -> amount that new reservations are tested against
    ledger      \* reservation id -> [session, amount, status]

ledgerVars == <<booked, ledger>>

\* An id that has not been issued.
Unissued == [status |-> "unissued"]

LedgerInit ==
    /\ booked = [s \in Sessions |-> 0]
    /\ ledger = [i \in Ids |-> Unissued]

Grant(i, s, a) ==
    /\ ledger[i] = Unissued
    /\ booked[s] + a <= MaxTotal[s]
    /\ booked' = [booked EXCEPT ![s] = @ + a]
    /\ ledger' = [ledger EXCEPT ![i] = [session |-> s, amount |-> a,
                                        status |-> "reserved"]]

\* The budget stays used: the payment has been made.
Commit(i) ==
    /\ ledger[i].status = "reserved"
    /\ ledger' = [ledger EXCEPT ![i].status = "committed"]
    /\ UNCHANGED booked

\* The amount of reservation i is taken off, down to zero.
TakeOff(i) ==
    booked' = [booked EXCEPT ![ledger[i].session] =
                 IF @ < ledger[i].amount THEN 0 ELSE @ - ledger[i].amount]

\* The budget is given back: the payment failed, or was not made in time.
Release(i) ==
    /\ ledger[i].status = "reserved"
    /\ ledger' = [ledger EXCEPT ![i].status = "released"]
    /\ TakeOff(i)

\* The amount of a reservation that was given back is taken off once more, at
\* the expense of the others.
Overdraw(i) ==
    /\ Overdraws
    /\ ledger[i].status = "released"
    /\ TakeOff(i)
    /\ UNCHANGED ledger

LedgerNext ==
    \E i \in Ids :
        \/ \E s \in Sessions, a \in Amounts : Grant(i, s, a)
        \/ Commit(i) \/ Release(i) \/ Overdraw(i)

LedgerSpec == LedgerInit /\ [][LedgerNext]_ledgerVars
=============================================================================

---------------------------- MODULE PaymentWebhook ----------------------------
(***************************************************************************)
(* Direct payments, TenantPaymentWebhookService: a payment provider        *)
(* reports each payment until it is acknowledged, possibly several times   *)
(* at once; receiveWebhook puts it in the inbox incoming_payment_events;   *)
(* an officer matches it to a loan, which records and books the money, or  *)
(* rejects it.  matchToLoan decides on what it reads before its            *)
(* transaction begins; the transaction credits the installment, whose row  *)
(* it locks by that, before it looks the ledger up.  The loan is an active *)
(* one, and the tenant's webhook is configured, throughout.                *)
(***************************************************************************)
EXTENDS Integers, Sequences, FiniteSets

CONSTANTS
    Events,         \* payments the provider reports: external references
    Amount,         \* per event: its amount
    Installments,   \* installments of the loan
    Total,          \* total_amount of every installment
    Deliveries,     \* webhook requests in flight at the same time
    Officers,       \* officers' requests in flight at the same time
    MaxFaults,      \* bound: answers that get lost and server crashes together
    None            \* NULL

ASSUME PaymentWebhookAssumption ==
    /\ Amount \in [Events -> Nat \ {0}]
    /\ None \notin Installments /\ None \notin Events
    /\ Total \in Nat \ {0} /\ MaxFaults \in Nat

VARIABLES
    acked,      \* events the provider has had a 2xx answer for
    hooks,      \* per delivery: the step of receiveWebhook it is at, and its event
    inbox,      \* incoming_payment_events by external reference
    payments,   \* payments recorded for events, in insertion order
    ledger,     \* their COLLECTION rows, in insertion order
    paid,       \* paid_amount of every installment
    matches,    \* per officer: the step of matchToLoan it is at
    faults,     \* answers lost and crashes so far
    overlapped  \* history: events decided while another match of theirs was under way

hookVars == <<acked, hooks>>
moneyVars == <<payments, ledger, paid>>
vars == <<hookVars, inbox, moneyVars, matches, faults, overlapped>>

EventStatus == {"none", "RECEIVED", "POSTED", "REJECTED"}
Payments == [event : Events, on : Installments \cup {None}]
\* "found" is what the lookup of the idempotency key returned.
NoMatch == [at |-> "idle", event |-> None, on |-> None, found |-> {}]
NoHook == [at |-> "idle", event |-> None]

(***************************************************************************)
(* Type correctness.                                                       *)
(***************************************************************************)
TypeOK ==
    /\ acked \subseteq Events
    /\ hooks \in [Deliveries -> [at : {"idle", "sent", "new", "stored", "error"},
                                 event : Events \cup {None}]]
    /\ inbox \in [Events -> EventStatus]
    /\ payments \in Seq(Payments)
    /\ ledger \in Seq([key : Events])
    /\ paid \in [Installments -> Nat]
    /\ matches \in [Officers -> [at : {"idle", "checked", "posting"}, event : Events \cup {None},
                                 on : Installments \cup {None}, found : SUBSET Nat]]
    /\ faults \in 0..MaxFaults
    /\ overlapped \subseteq Events

Init ==
    /\ acked = {}
    /\ hooks = [d \in Deliveries |-> NoHook]
    /\ inbox = [e \in Events |-> "none"]
    /\ payments = <<>>
    /\ ledger = <<>>
    /\ paid = [i \in Installments |-> 0]
    /\ matches = [o \in Officers |-> NoMatch]
    /\ faults = 0
    /\ overlapped = {}

-----------------------------------------------------------------------------
(* The provider, and receiveWebhook. *)

HookStep == UNCHANGED <<moneyVars, matches, overlapped>>
Goes(d, at) == hooks' = [hooks EXCEPT ![d].at = at]

\* The provider reports, or reports again, what is not acknowledged.
Send(d, e) ==
    /\ hooks[d].at = "idle" /\ e \notin acked
    /\ hooks' = [hooks EXCEPT ![d] = [at |-> "sent", event |-> e]]
    /\ HookStep /\ UNCHANGED <<acked, inbox, faults>>

\* Mutant: no reference is known before its INSERT.
KnownNever(e) == FALSE
\* SELECT id ... WHERE provider = $1 AND external_reference = $2
Known(e) == inbox[e] # "none"

HookLookup(d) ==
    /\ hooks[d].at = "sent"
    /\ Goes(d, IF Known(hooks[d].event) THEN "stored" ELSE "new")
    /\ HookStep /\ UNCHANGED <<acked, inbox, faults>>

\* INSERT, or the error of UNIQUE (provider, external_reference), which nothing catches.
HookInsert(d) ==
    LET e == hooks[d].event
    IN  /\ hooks[d].at = "new"
        /\ inbox' = [inbox EXCEPT ![e] = IF @ = "none" THEN "RECEIVED" ELSE @]
        /\ Goes(d, IF inbox[e] = "none" THEN "stored" ELSE "error")
        /\ HookStep /\ UNCHANGED <<acked, faults>>

\* {received} or {duplicate} with a 2xx; an error is not an acknowledgement.
Answer(d) ==
    /\ hooks[d].at \in {"stored", "error"}
    /\ acked' = acked \cup (IF hooks[d].at = "stored" THEN {hooks[d].event} ELSE {})
    /\ hooks' = [hooks EXCEPT ![d] = NoHook]
    /\ HookStep /\ UNCHANGED <<inbox, faults>>

AnswerLost(d) ==
    /\ hooks[d].at # "idle" /\ faults < MaxFaults
    /\ faults' = faults + 1
    /\ hooks' = [hooks EXCEPT ![d] = NoHook]
    /\ HookStep /\ UNCHANGED <<acked, inbox>>

-----------------------------------------------------------------------------
(* matchToLoan and rejectEvent *)

Matching(e) == {o \in Officers : matches[o].at # "idle" /\ matches[o].event = e}

\* Mutant: only what was rejected cannot be matched any more.
MatchableAgain(e) == inbox[e] \in {"RECEIVED", "POSTED"}
\* "Event is already ..."
Matchable(e) == inbox[e] = "RECEIVED"

\* "exceeds this installment's balance", but for a tolerance below the unit of the amounts
\* here; a match to the loan as a whole has none.
FitsOn(e, on) == on # None => Amount[e] <= Total - paid[on]

MatchRead(o, e, on) ==
    /\ matches[o].at = "idle"
    /\ Matchable(e)
    /\ FitsOn(e, on)
    /\ matches' = [matches EXCEPT ![o] = [at |-> "checked", event |-> e, on |-> on, found |-> {}]]
    /\ UNCHANGED <<hookVars, inbox, moneyVars, faults, overlapped>>

Locked(on) == on # None /\ \E o \in Officers : matches[o].at = "posting" /\ matches[o].on = on

\* Mutant: the ledger has no idempotency key.
BookedNever(e) == {}
\* The committed rows under the key provider:reference.
Booked(e) == {i \in DOMAIN ledger : ledger[i].key = e}

\* BEGIN; the payment; the installment, once no one else holds it; the lookup of the key.
MatchPost(o) ==
    LET m == matches[o]
    IN  /\ m.at = "checked" /\ ~Locked(m.on)
        /\ matches' = [matches EXCEPT ![o].at = "posting",
                                      ![o].found = Booked(m.event)]
        /\ UNCHANGED <<hookVars, inbox, moneyVars, faults, overlapped>>

\* The ledger row, unless one was found; the event, by id; COMMIT.
MatchCommit(o) ==
    LET m == matches[o]
        e == m.event
    IN  /\ m.at = "posting"
        /\ m.found = {} => Booked(e) = {}
        /\ payments' = Append(payments, [event |-> e, on |-> m.on])
        /\ ledger' = IF m.found = {} THEN Append(ledger, [key |-> e]) ELSE ledger
        /\ paid' = IF m.on = None THEN paid ELSE [paid EXCEPT ![m.on] = @ + Amount[e]]
        /\ inbox' = [inbox EXCEPT ![e] = "POSTED"]
        /\ matches' = [matches EXCEPT ![o] = NoMatch]
        /\ overlapped' = overlapped \cup (IF Matching(e) = {o} THEN {} ELSE {e})
        /\ UNCHANGED <<hookVars, faults>>

\* The key was taken meanwhile: the failed INSERT has aborted the transaction, and with it
\* the SELECT for the winner's row fails.  ROLLBACK.
MatchConflict(o) ==
    /\ matches[o].at = "posting"
    /\ matches[o].found = {} /\ Booked(matches[o].event) # {}
    /\ matches' = [matches EXCEPT ![o] = NoMatch]
    /\ UNCHANGED <<hookVars, inbox, moneyVars, faults, overlapped>>

\* Mutant: rejectEvent updates by id alone.
RejectableStored(e) == inbox[e] # "none"
Rejectable(e) == inbox[e] = "RECEIVED"

\* UPDATE ... WHERE id = $3 AND status = 'RECEIVED'
RejectEvent(e) ==
    /\ Rejectable(e)
    /\ inbox' = [inbox EXCEPT ![e] = "REJECTED"]
    /\ overlapped' = overlapped \cup (IF Matching(e) = {} THEN {} ELSE {e})
    /\ UNCHANGED <<hookVars, moneyVars, matches, faults>>

\* The borrower pays the installment in some other way.
OtherPayment(i) ==
    /\ paid[i] < Total /\ ~Locked(i)
    /\ paid' = [paid EXCEPT ![i] = Total]
    /\ UNCHANGED <<hookVars, inbox, payments, ledger, matches, faults, overlapped>>

\* The server stops; what was not committed is gone.
Crash ==
    /\ faults < MaxFaults
    /\ faults' = faults + 1
    /\ hooks' = [d \in Deliveries |-> NoHook]
    /\ matches' = [o \in Officers |-> NoMatch]
    /\ UNCHANGED <<acked, inbox, moneyVars, overlapped>>

-----------------------------------------------------------------------------
Sends(e) == \E d \in Deliveries : Send(d, e)
HookHandles(d) == HookLookup(d) \/ HookInsert(d) \/ Answer(d)

Next ==
    \/ \E e \in Events : Sends(e) \/ RejectEvent(e)
    \/ \E d \in Deliveries : HookHandles(d) \/ AnswerLost(d)
    \/ \E o \in Officers :
         \/ \E e \in Events, on \in Installments \cup {None} : MatchRead(o, e, on)
         \/ MatchPost(o) \/ MatchCommit(o) \/ MatchConflict(o)
    \/ \E i \in Installments : OtherPayment(i)
    \/ Crash

\* A provider keeps reporting what is not acknowledged, and the server answers.  A
\* delivery slot that is free is free for any event, so the provider's turn is strong.
Fairness ==
    /\ \A e \in Events : SF_vars(Sends(e))
    /\ \A d \in Deliveries : WF_vars(HookHandles(d))

Spec == Init /\ [][Next]_vars /\ Fairness

-----------------------------------------------------------------------------
(* Properties. *)

PaymentsOf(e) == {p \in DOMAIN payments : payments[p].event = e}

(***************************************************************************)
(* However many officers match an event at once, and to whatever           *)
(* installments, the ledger has its money once, and has it as soon as a    *)
(* payment was recorded.                                                   *)
(***************************************************************************)
LedgerHasEventOnce ==
    \A e \in Events :
        Cardinality({i \in DOMAIN ledger : ledger[i].key = e}) =
            IF PaymentsOf(e) = {} THEN 0 ELSE 1

(***************************************************************************)
(* An event the inbox shows as rejected has put no money on a loan,        *)
(* whatever matches were under way when it was rejected: one that commits  *)
(* after that turns it POSTED again.                                       *)
(***************************************************************************)
RejectedHasNoMoney ==
    \A e \in Events : inbox[e] = "REJECTED" => PaymentsOf(e) = {}

(***************************************************************************)
(* An event becomes two payments, which the ledger has once, only where    *)
(* officers matched it at the same time.                                   *)
(***************************************************************************)
PaidTwiceOnlyByOverlap ==
    \A e \in Events \ overlapped :
        Cardinality(PaymentsOf(e)) = IF inbox[e] = "POSTED" THEN 1 ELSE 0

(***************************************************************************)
(* Every payment the provider reports ends up in the inbox and             *)
(* acknowledged for good, through lost answers, crashes and deliveries of  *)
(* it that race each other to the INSERT.                                  *)
(***************************************************************************)
EveryReportIsKept ==
    \A e \in Events : <>[](e \in acked /\ inbox[e] # "none")
=============================================================================

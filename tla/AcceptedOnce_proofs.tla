------------------------ MODULE AcceptedOnce_proofs ------------------------
(***************************************************************************)
(* What TLAPS proves of what the program may accept once only, though it   *)
(* is told of it more than once: the payments a provider reports           *)
(* (PaymentWebhook), for every number of events, deliveries and officers,  *)
(* the one-time codes a user enters (Authentication), for any users, any   *)
(* number of requests and any pool of connections, and the payments taken  *)
(* in on a phone (OfflineSync), for every number of payments, calls of     *)
(* sync, faults and retries.                                               *)
(*                                                                         *)
(* None holds without exception.  The server reads first and writes later: *)
(* two officers who match an event at once, or two requests that consume a *)
(* code at once, each find it new.  The invariants therefore say what is   *)
(* so outside such an overlap, which the models record, and that an        *)
(* overlap is noticed before it can do anything: where none was recorded,  *)
(* the request under way is the only one.  The phone cannot know what has  *)
(* become of a request whose answer was lost, and may repeat it.           *)
(***************************************************************************)
EXTENDS PaymentWebhook, Authentication, OfflineSync, FiniteSetTheorems, SequenceTheorems, TLAPS

-----------------------------------------------------------------------------
(* The provider's reports: the inductive invariant. *)

(***************************************************************************)
(* Payments and ledger rows of an event come together and have made the    *)
(* inbox say POSTED; there is one row per event; and a match that has      *)
(* found its event on the ledger relies on a row that is still there.      *)
(***************************************************************************)
LedgerAgrees ==
    /\ \A i, j \in DOMAIN ledger : ledger[i].key = ledger[j].key => i = j
    /\ \A e \in Events :
         /\ Booked(e) = {} <=> PaymentsOf(e) = {}
         /\ PaymentsOf(e) # {} <=> inbox[e] = "POSTED"
    /\ \A o \in Officers :
         /\ matches[o].at # "idle" => matches[o].event \in Events
         /\ matches[o].at = "posting" /\ matches[o].found # {} => Booked(matches[o].event) # {}

(***************************************************************************)
(* An event no two requests decided at once has one payment at most, and,  *)
(* once it has it, nobody who still matches it.                            *)
(***************************************************************************)
NoOverlapNoSecond ==
    \A e \in Events \ overlapped :
        /\ inbox[e] = "POSTED" => Matching(e) = {}
        /\ \A p, q \in PaymentsOf(e) : p = q

\* A delivery that is under way is about an event.
HooksHaveEvents == \A d \in Deliveries : hooks[d].at # "idle" => hooks[d].event \in Events

IInv == TypeOK /\ HooksHaveEvents /\ LedgerAgrees /\ NoOverlapNoSecond

Hooks == [at : {"idle", "sent", "new", "stored", "error"}, event : Events \cup {None}]
Matches == [at : {"idle", "checked", "posting"}, event : Events \cup {None},
            on : Installments \cup {None}, found : SUBSET Nat]

-----------------------------------------------------------------------------
LEMMA NoMatchType == NoMatch \in Matches
BY DEF NoMatch, Matches

LEMMA NoHookType == NoHook \in Hooks
BY DEF NoHook, Hooks

LEMMA BookedAreNumbers == ASSUME TypeOK, NEW e PROVE Booked(e) \in SUBSET Nat
BY DEF TypeOK, Booked

\* A committed match adds a payment to its event, and a row unless there is one.
LEMMA CommitAppends ==
    ASSUME IInv, NEW o \in Officers, MatchCommit(o)
    PROVE  LET e == matches[o].event
           IN  /\ e \in Events
               /\ \A x : PaymentsOf(x)' = PaymentsOf(x) \cup (IF x = e THEN {Len(payments) + 1} ELSE {})
               /\ \A x : Booked(x)' = Booked(x) \cup
                     (IF x = e /\ matches[o].found = {} THEN {Len(ledger) + 1} ELSE {})
               /\ Booked(e) = {} <=> matches[o].found = {}
               /\ payments' \in Seq(Payments) /\ ledger' \in Seq([key : Events])
<1> DEFINE e == matches[o].event
           pay == [event |-> e, on |-> matches[o].on]
<1>1. e \in Events
  BY DEF IInv, LedgerAgrees, MatchCommit
<1>2. pay \in Payments /\ payments \in Seq(Payments) /\ payments' = Append(payments, pay)
  BY <1>1 DEF IInv, TypeOK, MatchCommit, Payments
<1>3. /\ payments' \in Seq(Payments)
      /\ DOMAIN payments' = DOMAIN payments \cup {Len(payments) + 1}
      /\ \A p \in DOMAIN payments : payments'[p] = payments[p] /\ p # Len(payments) + 1
      /\ payments'[Len(payments) + 1] = pay
  BY <1>2
<1>4. \A x : PaymentsOf(x)' = PaymentsOf(x) \cup (IF x = e THEN {Len(payments) + 1} ELSE {})
  BY <1>3 DEF PaymentsOf
<1>5. Booked(e) = {} <=> matches[o].found = {}
  BY DEF IInv, LedgerAgrees, MatchCommit
<1>6. /\ ledger' \in Seq([key : Events])
      /\ \A x : Booked(x)' = Booked(x) \cup
                     (IF x = e /\ matches[o].found = {} THEN {Len(ledger) + 1} ELSE {})
  <2>1. CASE matches[o].found = {}
    <3>1. [key |-> e] \in [key : Events] /\ ledger \in Seq([key : Events]) /\ ledger' = Append(ledger, [key |-> e])
      BY <1>1, <2>1 DEF IInv, TypeOK, MatchCommit
    <3>2. /\ ledger' \in Seq([key : Events])
          /\ DOMAIN ledger' = DOMAIN ledger \cup {Len(ledger) + 1}
          /\ \A i \in DOMAIN ledger : ledger'[i] = ledger[i] /\ i # Len(ledger) + 1
          /\ ledger'[Len(ledger) + 1] = [key |-> e]
      BY <3>1
    <3>3. QED
      BY <2>1, <3>2 DEF Booked
  <2>2. CASE matches[o].found # {}
    BY <2>2 DEF IInv, TypeOK, MatchCommit, Booked
  <2>3. QED
    BY <2>1, <2>2
<1>7. QED
  BY <1>1, <1>3, <1>4, <1>5, <1>6

-----------------------------------------------------------------------------
LEMMA InitEstablishesIInv == Init => IInv
<1> SUFFICES ASSUME Init PROVE IInv
  OBVIOUS
<1>1. TypeOK
  BY PaymentWebhookAssumption, NoMatchType, NoHookType DEF Init, TypeOK, EventStatus, Hooks, Matches
<1>2. HooksHaveEvents
  BY DEF Init, HooksHaveEvents, NoHook
<1>3. LedgerAgrees
  BY DEF Init, LedgerAgrees, Booked, PaymentsOf, NoMatch
<1>4. NoOverlapNoSecond
  BY DEF Init, NoOverlapNoSecond, PaymentsOf
<1>5. QED
  BY <1>1, <1>2, <1>3, <1>4 DEF IInv

\* The provider's and the webhook's steps move an event into the inbox, and no further.
LEMMA HookKeepsIInv ==
    ASSUME IInv, HookStep,
           faults' \in 0..MaxFaults, acked' \subseteq Events,
           hooks' \in [Deliveries -> Hooks],
           \A d \in Deliveries : hooks'[d].at # "idle" => hooks'[d].event \in Events,
           inbox' \in [Events -> EventStatus],
           \A e \in Events : inbox'[e] = "POSTED" <=> inbox[e] = "POSTED"
    PROVE  IInv'
<1>1. UNCHANGED <<payments, ledger, paid, matches, overlapped>>
  BY DEF HookStep, moneyVars
<1>2. TypeOK'
  BY <1>1 DEF IInv, TypeOK, Hooks
<1>3. LedgerAgrees'
  BY <1>1 DEF IInv, LedgerAgrees, Booked, PaymentsOf
<1>4. NoOverlapNoSecond'
  BY <1>1 DEF IInv, NoOverlapNoSecond, PaymentsOf, Matching
<1>5. QED
  BY <1>2, <1>3, <1>4 DEF IInv, HooksHaveEvents

\* What a step of one delivery leaves of its record.
LEMMA HookMoves ==
    ASSUME IInv, NEW d \in Deliveries, NEW new \in Hooks,
           hooks' = [hooks EXCEPT ![d] = new], new.at # "idle" => new.event \in Events
    PROVE  /\ hooks' \in [Deliveries -> Hooks]
           /\ \A x \in Deliveries : hooks'[x].at # "idle" => hooks'[x].event \in Events
BY DEF IInv, TypeOK, Hooks, HooksHaveEvents

LEMMA HookGoes ==
    ASSUME IInv, NEW d \in Deliveries, NEW at \in {"new", "stored", "error"},
           hooks[d].at # "idle", Goes(d, at)
    PROVE  /\ hooks' \in [Deliveries -> Hooks]
           /\ \A x \in Deliveries : hooks'[x].at # "idle" => hooks'[x].event \in Events
<1>1. hooks[d] \in Hooks /\ [hooks[d] EXCEPT !.at = at] \in Hooks
  BY DEF IInv, TypeOK, Hooks
<1>2. [hooks[d] EXCEPT !.at = at].event = hooks[d].event
  BY <1>1 DEF Hooks
<1>3. hooks' = [hooks EXCEPT ![d] = [hooks[d] EXCEPT !.at = at]]
  BY DEF IInv, TypeOK, Goes
<1>4. hooks[d].event \in Events
  BY DEF IInv, HooksHaveEvents
<1>5. QED
  BY <1>1, <1>2, <1>3, <1>4, HookMoves

LEMMA WebhookKeepsIInv ==
    ASSUME IInv, NEW d \in Deliveries,
           (\E e \in Events : Send(d, e)) \/ HookHandles(d) \/ AnswerLost(d)
    PROVE  IInv'
<1>a. faults \in 0..MaxFaults /\ acked \subseteq Events /\ inbox \in [Events -> EventStatus]
  BY DEF IInv, TypeOK
<1>b. hooks[d].at # "idle" => hooks[d].event \in Events
  BY DEF IInv, HooksHaveEvents
<1>c. NoHook \in Hooks /\ NoHook.at = "idle"
  BY DEF NoHook, Hooks
<1>1. ASSUME NEW e \in Events, Send(d, e) PROVE IInv'
  <2>1. [at |-> "sent", event |-> e] \in Hooks
    BY DEF Hooks
  <2>2. /\ hooks' \in [Deliveries -> Hooks]
        /\ \A x \in Deliveries : hooks'[x].at # "idle" => hooks'[x].event \in Events
    BY <1>1, <2>1, HookMoves DEF Send
  <2>3. QED
    BY <1>a, <1>1, <2>2, HookKeepsIInv DEF Send
<1>2. CASE HookLookup(d)
  <2>1. /\ hooks' \in [Deliveries -> Hooks]
        /\ \A x \in Deliveries : hooks'[x].at # "idle" => hooks'[x].event \in Events
    BY <1>2, HookGoes DEF HookLookup
  <2>2. QED
    BY <1>a, <1>2, <2>1, HookKeepsIInv DEF HookLookup
<1>3. CASE HookInsert(d)
  <2>1. /\ hooks' \in [Deliveries -> Hooks]
        /\ \A x \in Deliveries : hooks'[x].at # "idle" => hooks'[x].event \in Events
    BY <1>3, HookGoes DEF HookInsert
  <2>2. /\ inbox' \in [Events -> EventStatus]
        /\ \A e \in Events : inbox'[e] = "POSTED" <=> inbox[e] = "POSTED"
    BY <1>a, <1>b, <1>3 DEF HookInsert, EventStatus
  <2>3. QED
    BY <1>a, <1>3, <2>1, <2>2, HookKeepsIInv DEF HookInsert
<1>4. CASE Answer(d)
  <2>1. /\ hooks' \in [Deliveries -> Hooks]
        /\ \A x \in Deliveries : hooks'[x].at # "idle" => hooks'[x].event \in Events
    BY <1>c, <1>4, HookMoves DEF Answer
  <2>2. acked' \subseteq Events
    BY <1>a, <1>b, <1>4 DEF Answer
  <2>3. QED
    BY <1>a, <1>4, <2>1, <2>2, HookKeepsIInv DEF Answer
<1>5. CASE AnswerLost(d)
  <2>1. /\ hooks' \in [Deliveries -> Hooks]
        /\ \A x \in Deliveries : hooks'[x].at # "idle" => hooks'[x].event \in Events
    BY <1>c, <1>5, HookMoves DEF AnswerLost
  <2>2. faults' \in 0..MaxFaults
    BY <1>a, <1>5, PaymentWebhookAssumption DEF AnswerLost
  <2>3. QED
    BY <1>a, <1>5, <2>1, <2>2, HookKeepsIInv DEF AnswerLost
<1>6. QED
  BY <1>1, <1>2, <1>3, <1>4, <1>5 DEF HookHandles

-----------------------------------------------------------------------------
\* A match that begins is about a RECEIVED event, which has no money anywhere.
LEMMA ReadKeepsIInv ==
    ASSUME IInv, NEW o \in Officers, NEW e \in Events, NEW on \in Installments \cup {None},
           MatchRead(o, e, on)
    PROVE  IInv'
<1> DEFINE new == [at |-> "checked", event |-> e, on |-> on, found |-> {}]
<1>1. /\ matches' = [matches EXCEPT ![o] = new] /\ new \in Matches
      /\ UNCHANGED <<acked, hooks, inbox, payments, ledger, paid, faults, overlapped>>
  BY DEF MatchRead, Matches, hookVars, moneyVars
<1>2. /\ matches' \in [Officers -> Matches]
      /\ \A x \in Officers : matches'[x] = IF x = o THEN new ELSE matches[x]
  BY <1>1 DEF IInv, TypeOK, Matches
<1>3. TypeOK' /\ HooksHaveEvents'
  BY <1>1, <1>2 DEF IInv, TypeOK, HooksHaveEvents, Matches
<1>4. LedgerAgrees'
  BY <1>1, <1>2 DEF IInv, LedgerAgrees, Booked, PaymentsOf
<1>5. NoOverlapNoSecond'
  <2>1. inbox[e] = "RECEIVED" /\ matches[o].at = "idle"
    BY DEF MatchRead, Matchable
  <2>2. \A x \in Events : inbox[x] = "POSTED" => Matching(x)' = Matching(x)
    BY <1>2, <2>1 DEF Matching
  <2>3. QED
    BY <1>1, <2>2 DEF IInv, NoOverlapNoSecond, PaymentsOf
<1>6. QED
  BY <1>3, <1>4, <1>5 DEF IInv

LEMMA PostKeepsIInv ==
    ASSUME IInv, NEW o \in Officers, MatchPost(o)
    PROVE  IInv'
<1> DEFINE new == [matches[o] EXCEPT !.at = "posting", !.found = Booked(matches[o].event)]
<1>1. UNCHANGED <<acked, hooks, inbox, payments, ledger, paid, faults, overlapped>>
  BY DEF MatchPost, hookVars, moneyVars
<1>2. /\ new \in Matches
      /\ new.at = "posting" /\ new.event = matches[o].event /\ new.found = Booked(matches[o].event)
  BY BookedAreNumbers DEF IInv, TypeOK, Matches
<1>3. /\ matches' \in [Officers -> Matches]
      /\ \A x \in Officers : matches'[x] = IF x = o THEN new ELSE matches[x]
  BY <1>2 DEF IInv, TypeOK, Matches, MatchPost
<1>4. TypeOK' /\ HooksHaveEvents'
  BY <1>1, <1>3 DEF IInv, TypeOK, HooksHaveEvents, Matches
<1>5. \A x : Booked(x)' = Booked(x) /\ PaymentsOf(x)' = PaymentsOf(x) /\ Matching(x)' = Matching(x)
  BY <1>1, <1>2, <1>3, ZenonT(30) DEF Booked, PaymentsOf, Matching, MatchPost
<1>6. LedgerAgrees'
  BY <1>1, <1>2, <1>3, <1>5 DEF IInv, LedgerAgrees, MatchPost
<1>7. NoOverlapNoSecond'
  BY <1>1, <1>5 DEF IInv, NoOverlapNoSecond
<1>8. QED
  BY <1>4, <1>6, <1>7 DEF IInv

LEMMA CommitKeepsIInv ==
    ASSUME IInv, NEW o \in Officers, MatchCommit(o)
    PROVE  IInv'
<1> DEFINE e == matches[o].event
           n == Len(payments) + 1
<1>1. /\ e \in Events
      /\ \A x : PaymentsOf(x)' = PaymentsOf(x) \cup (IF x = e THEN {n} ELSE {})
      /\ \A x : Booked(x)' = Booked(x) \cup
                     (IF x = e /\ matches[o].found = {} THEN {Len(ledger) + 1} ELSE {})
      /\ Booked(e) = {} <=> matches[o].found = {}
      /\ payments' \in Seq(Payments) /\ ledger' \in Seq([key : Events])
  BY CommitAppends
<1>2. UNCHANGED <<acked, hooks, faults>> /\ matches[o].at = "posting"
  BY DEF MatchCommit, hookVars
<1>3. /\ matches' \in [Officers -> Matches]
      /\ \A x \in Officers : matches'[x] = IF x = o THEN NoMatch ELSE matches[x]
  BY NoMatchType DEF IInv, TypeOK, Matches, MatchCommit
<1>4. /\ inbox' \in [Events -> EventStatus]
      /\ \A x \in Events : inbox'[x] = IF x = e THEN "POSTED" ELSE inbox[x]
  BY DEF IInv, TypeOK, MatchCommit, EventStatus
<1>5. overlapped \subseteq overlapped' /\ overlapped' \subseteq Events
  BY <1>1 DEF IInv, TypeOK, MatchCommit
<1>6. paid' \in [Installments -> Nat]
  <2>1. CASE matches[o].on = None
    BY <2>1 DEF IInv, TypeOK, MatchCommit
  <2>2. CASE matches[o].on # None
    <3>1. Amount[e] \in Nat /\ matches[o].on \in Installments
      BY <1>1, <2>2, PaymentWebhookAssumption DEF IInv, TypeOK
    <3>2. paid' = [paid EXCEPT ![matches[o].on] = @ + Amount[e]]
      BY <2>2 DEF MatchCommit
    <3>3. QED
      BY <3>1, <3>2 DEF IInv, TypeOK
  <2>3. QED
    BY <2>1, <2>2
<1>7. TypeOK' /\ HooksHaveEvents'
  BY <1>1, <1>2, <1>3, <1>4, <1>5, <1>6 DEF IInv, TypeOK, HooksHaveEvents, Matches
<1>8. LedgerAgrees'
  <2>1. \A i, j \in DOMAIN ledger' : ledger'[i].key = ledger'[j].key => i = j
    <3>1. \A x : Booked(x)' = {i \in DOMAIN ledger' : ledger'[i].key = x}
      BY DEF Booked
    <3>2. \A x : \A i, j \in Booked(x) : i = j
      BY DEF IInv, LedgerAgrees, Booked
    <3>3. \A x : \A i, j \in Booked(x)' : i = j
      BY <1>1, <3>2
    <3>4. QED
      BY <3>1, <3>3
  <2>2. \A x \in Events : /\ Booked(x)' = {} <=> PaymentsOf(x)' = {}
                          /\ PaymentsOf(x)' # {} <=> inbox'[x] = "POSTED"
    <3> SUFFICES ASSUME NEW x \in Events
                 PROVE  /\ Booked(x)' = {} <=> PaymentsOf(x)' = {}
                        /\ PaymentsOf(x)' # {} <=> inbox'[x] = "POSTED"
      OBVIOUS
    <3>1. /\ Booked(x) = {} <=> PaymentsOf(x) = {}
          /\ PaymentsOf(x) # {} <=> inbox[x] = "POSTED"
      BY DEF IInv, LedgerAgrees
    <3>2. CASE x = e
      <4>1. PaymentsOf(x)' # {} /\ inbox'[x] = "POSTED"
        BY <1>1, <1>4, <3>2
      <4>2. Booked(x)' # {}
        BY <1>1, <3>2
      <4>3. QED
        BY <4>1, <4>2
    <3>3. CASE x # e
      <4>1. PaymentsOf(x)' = PaymentsOf(x) /\ Booked(x)' = Booked(x) /\ inbox'[x] = inbox[x]
        BY <1>1, <1>4, <3>3
      <4>2. QED
        BY <3>1, <4>1
    <3>4. QED
      BY <3>2, <3>3
  <2>3. \A x \in Officers :
           /\ (matches[x].at # "idle" => matches[x].event \in Events)'
           /\ (matches[x].at = "posting" /\ matches[x].found # {} => Booked(matches[x].event) # {})'
    <3> SUFFICES ASSUME NEW x \in Officers, (matches[x].at # "idle")'
                 PROVE  /\ (matches[x].event \in Events)'
                        /\ (matches[x].at = "posting" /\ matches[x].found # {} =>
                                Booked(matches[x].event) # {})'
      OBVIOUS
    <3>1. matches'[x] = matches[x] /\ matches[x].at # "idle"
      BY <1>3 DEF NoMatch
    <3>2. PICK k \in Events : k = matches[x].event
      BY <3>1 DEF IInv, LedgerAgrees
    <3>3. matches[x].at = "posting" /\ matches[x].found # {} => Booked(k) # {}
      BY <3>2 DEF IInv, LedgerAgrees
    <3>4. Booked(k) \subseteq Booked(k)'
      BY <1>1
    <3>5. Booked(matches[x].event)' = Booked(k)'
      BY <3>1, <3>2
    <3>6. QED
      BY <3>1, <3>2, <3>3, <3>4, <3>5
  <2>4. QED
    BY <2>1, <2>2, <2>3 DEF LedgerAgrees
<1>9. NoOverlapNoSecond'
  <2>1. \A x \in Events : Matching(x)' = Matching(x) \ {o}
    BY <1>2, <1>3 DEF Matching, NoMatch
  <2>2. SUFFICES ASSUME NEW x \in Events, x \notin overlapped'
                 PROVE  /\ inbox'[x] = "POSTED" => Matching(x)' = {}
                        /\ \A p, q \in PaymentsOf(x)' : p = q
    BY DEF NoOverlapNoSecond
  <2>3. CASE x # e
    <3>1. inbox'[x] = inbox[x] /\ PaymentsOf(x)' = PaymentsOf(x)
      BY <1>1, <1>4, <2>3
    <3>2. QED
      BY <1>5, <2>1, <2>2, <3>1 DEF IInv, NoOverlapNoSecond
  <2>4. CASE x = e
    <3>1. Matching(e) = {o}
      BY <2>2, <2>4, <1>1 DEF MatchCommit
    <3>2. inbox[e] # "POSTED"
      BY <1>1, <1>5, <2>2, <2>4, <3>1, ZenonT(30) DEF IInv, NoOverlapNoSecond
    <3>3. PaymentsOf(e) = {}
      BY <1>1, <3>2 DEF IInv, LedgerAgrees
    <3>4. QED
      BY <1>1, <2>1, <2>4, <3>1, <3>3
  <2>5. QED
    BY <2>3, <2>4
<1>10. QED
  BY <1>7, <1>8, <1>9 DEF IInv

\* A rolled-back match, and a crash, leave fewer matches and change no data.
LEMMA FewerMatchesKeepIInv ==
    ASSUME IInv, UNCHANGED <<acked, inbox, payments, ledger, paid, overlapped>>,
           matches' \in [Officers -> Matches],
           \A o \in Officers : matches'[o] = matches[o] \/ matches'[o] = NoMatch,
           faults' \in 0..MaxFaults,
           hooks' = hooks \/ hooks' = [d \in Deliveries |-> NoHook]
    PROVE  IInv'
<1>1. HooksHaveEvents' /\ hooks' \in [Deliveries -> Hooks]
  BY NoHookType DEF IInv, TypeOK, HooksHaveEvents, NoHook, Hooks
<1>2. TypeOK'
  BY <1>1 DEF IInv, TypeOK, Hooks, Matches
<1>3. \A x : Booked(x)' = Booked(x) /\ PaymentsOf(x)' = PaymentsOf(x)
  BY DEF Booked, PaymentsOf
<1>4. \A x : Matching(x)' \subseteq Matching(x)
  BY DEF Matching, NoMatch
<1>5. LedgerAgrees'
  BY <1>3 DEF IInv, LedgerAgrees, NoMatch
<1>6. NoOverlapNoSecond'
  BY <1>3, <1>4 DEF IInv, NoOverlapNoSecond
<1>7. QED
  BY <1>1, <1>2, <1>5, <1>6 DEF IInv

LEMMA RejectKeepsIInv ==
    ASSUME IInv, NEW e \in Events, RejectEvent(e)
    PROVE  IInv'
<1>1. UNCHANGED <<acked, hooks, payments, ledger, paid, matches, faults>>
  BY DEF RejectEvent, hookVars, moneyVars
<1>2. /\ inbox' \in [Events -> EventStatus] /\ inbox[e] = "RECEIVED"
      /\ \A x \in Events : inbox'[x] = IF x = e THEN "REJECTED" ELSE inbox[x]
  BY DEF IInv, TypeOK, RejectEvent, Rejectable, EventStatus
<1>3. overlapped \subseteq overlapped' /\ overlapped' \subseteq Events
  BY DEF IInv, TypeOK, RejectEvent
<1>4. TypeOK' /\ HooksHaveEvents'
  BY <1>1, <1>2, <1>3 DEF IInv, TypeOK, HooksHaveEvents
<1>5. \A x : Booked(x)' = Booked(x) /\ PaymentsOf(x)' = PaymentsOf(x) /\ Matching(x)' = Matching(x)
  BY <1>1 DEF Booked, PaymentsOf, Matching
<1>6. LedgerAgrees'
  BY <1>1, <1>2, <1>5 DEF IInv, LedgerAgrees
<1>7. NoOverlapNoSecond'
  BY <1>2, <1>3, <1>5 DEF IInv, NoOverlapNoSecond
<1>8. QED
  BY <1>4, <1>6, <1>7 DEF IInv

LEMMA OtherPaymentKeepsIInv ==
    ASSUME IInv, NEW i \in Installments, OtherPayment(i)
    PROVE  IInv'
<1>1. UNCHANGED <<acked, hooks, inbox, payments, ledger, matches, faults, overlapped>>
  BY DEF OtherPayment, hookVars
<1>2. paid' \in [Installments -> Nat]
  BY PaymentWebhookAssumption DEF IInv, TypeOK, OtherPayment
<1>3. TypeOK'
  BY <1>1, <1>2 DEF IInv, TypeOK
<1>4. QED
  BY <1>1, <1>3 DEF IInv, HooksHaveEvents, LedgerAgrees, NoOverlapNoSecond, Booked, PaymentsOf, Matching

-----------------------------------------------------------------------------
LEMMA StepKeepsIInv == IInv /\ [Next]_vars => IInv'
<1> SUFFICES ASSUME IInv, [Next]_vars PROVE IInv'
  OBVIOUS
<1>1. ASSUME NEW e \in Events, Sends(e) PROVE IInv'
  BY <1>1, WebhookKeepsIInv DEF Sends
<1>2. ASSUME NEW e \in Events, RejectEvent(e) PROVE IInv'
  BY <1>2, RejectKeepsIInv
<1>3. ASSUME NEW d \in Deliveries, HookHandles(d) \/ AnswerLost(d) PROVE IInv'
  BY <1>3, WebhookKeepsIInv
<1>4. ASSUME NEW o \in Officers, NEW e \in Events, NEW on \in Installments \cup {None},
             MatchRead(o, e, on) PROVE IInv'
  BY <1>4, ReadKeepsIInv
<1>5. ASSUME NEW o \in Officers, MatchPost(o) PROVE IInv'
  BY <1>5, PostKeepsIInv
<1>6. ASSUME NEW o \in Officers, MatchCommit(o) PROVE IInv'
  BY <1>6, CommitKeepsIInv
<1>7. ASSUME NEW o \in Officers, MatchConflict(o) PROVE IInv'
  <2>1. UNCHANGED <<acked, hooks, inbox, payments, ledger, paid, faults, overlapped>>
    BY <1>7 DEF MatchConflict, hookVars, moneyVars
  <2>2. /\ matches' \in [Officers -> Matches]
        /\ \A x \in Officers : matches'[x] = matches[x] \/ matches'[x] = NoMatch
    BY <1>7, NoMatchType DEF MatchConflict, IInv, TypeOK, Matches
  <2>3. QED
    BY <2>1, <2>2, FewerMatchesKeepIInv DEF IInv, TypeOK
<1>8. ASSUME NEW i \in Installments, OtherPayment(i) PROVE IInv'
  BY <1>8, OtherPaymentKeepsIInv
<1>9. CASE Crash
  <2>1. UNCHANGED <<acked, inbox, payments, ledger, paid, overlapped>>
    BY <1>9 DEF Crash, moneyVars
  <2>2. faults' \in 0..MaxFaults
    BY <1>9, PaymentWebhookAssumption DEF Crash, IInv, TypeOK
  <2>3. /\ matches' \in [Officers -> Matches]
        /\ \A x \in Officers : matches'[x] = matches[x] \/ matches'[x] = NoMatch
    BY <1>9, NoMatchType DEF Crash
  <2>4. QED
    BY <1>9, <2>1, <2>2, <2>3, FewerMatchesKeepIInv DEF Crash
<1>10. CASE UNCHANGED vars
  <2>1. UNCHANGED <<acked, hooks, inbox, payments, ledger, paid, matches, faults, overlapped>>
    BY <1>10 DEF vars, hookVars, moneyVars
  <2>2. \A x : Booked(x)' = Booked(x) /\ PaymentsOf(x)' = PaymentsOf(x) /\ Matching(x)' = Matching(x)
    BY <2>1 DEF Booked, PaymentsOf, Matching
  <2>3. QED
    BY <2>1, <2>2 DEF IInv, TypeOK, HooksHaveEvents, LedgerAgrees, NoOverlapNoSecond
<1>11. QED
  BY <1>1, <1>2, <1>3, <1>4, <1>5, <1>6, <1>7, <1>8, <1>9, <1>10 DEF Next

(***************************************************************************)
(* The invariant the others follow from, over every behaviour.             *)
(***************************************************************************)
THEOREM WebhookInvariant == Spec => []IInv
BY InitEstablishesIInv, StepKeepsIInv, PTL DEF Spec

(***************************************************************************)
(* Types, for any number of events, deliveries and officers.               *)
(***************************************************************************)
THEOREM WebhookTypeCorrect == Spec => []TypeOK
<1>1. IInv => TypeOK
  BY DEF IInv
<1>2. QED
  BY <1>1, WebhookInvariant, PTL

(***************************************************************************)
(* However many officers match an event at once, the ledger has its money  *)
(* once, and has it exactly if a payment of it was recorded.               *)
(***************************************************************************)
THEOREM LedgerCountsEventOnce == Spec => []LedgerHasEventOnce
<1>1. IInv => LedgerHasEventOnce
  <2> SUFFICES ASSUME IInv, NEW e \in Events
               PROVE  Cardinality(Booked(e)) = IF PaymentsOf(e) = {} THEN 0 ELSE 1
    BY DEF LedgerHasEventOnce, Booked
  <2>1. CASE PaymentsOf(e) = {}
    BY <2>1, FS_EmptySet DEF IInv, LedgerAgrees
  <2>2. CASE PaymentsOf(e) # {}
    <3>1. PICK i : i \in Booked(e)
      BY <2>2 DEF IInv, LedgerAgrees
    <3>2. Booked(e) = {i}
      BY <3>1 DEF IInv, LedgerAgrees, Booked
    <3>3. Cardinality({i}) = 1
      BY FS_Singleton
    <3>4. QED
      BY <2>2, <3>2, <3>3
  <2>3. QED
    BY <2>1, <2>2
<1>2. QED
  BY <1>1, WebhookInvariant, PTL

(***************************************************************************)
(* No interleaving leaves an event rejected whose money was recorded.      *)
(***************************************************************************)
THEOREM RejectionsHaveNoMoney == Spec => []RejectedHasNoMoney
<1>1. IInv => RejectedHasNoMoney
  BY DEF IInv, LedgerAgrees, RejectedHasNoMoney
<1>2. QED
  BY <1>1, WebhookInvariant, PTL

(***************************************************************************)
(* An event that was decided by one request at a time has exactly one      *)
(* payment once it is POSTED and none before.                              *)
(***************************************************************************)
THEOREM OnlyOverlapPaysTwice == Spec => []PaidTwiceOnlyByOverlap
<1>1. IInv => PaidTwiceOnlyByOverlap
  <2> SUFFICES ASSUME IInv, NEW e \in Events, e \notin overlapped
               PROVE  Cardinality(PaymentsOf(e)) = IF inbox[e] = "POSTED" THEN 1 ELSE 0
    BY DEF PaidTwiceOnlyByOverlap
  <2>1. CASE inbox[e] = "POSTED"
    <3>1. PICK p : p \in PaymentsOf(e)
      BY <2>1 DEF IInv, LedgerAgrees
    <3>2. PaymentsOf(e) = {p}
      BY <3>1 DEF IInv, NoOverlapNoSecond
    <3>3. Cardinality({p}) = 1
      BY FS_Singleton
    <3>4. QED
      BY <2>1, <3>2, <3>3
  <2>2. CASE inbox[e] # "POSTED"
    BY <2>2, FS_EmptySet DEF IInv, LedgerAgrees
  <2>3. QED
    BY <2>1, <2>2
<1>2. QED
  BY <1>1, WebhookInvariant, PTL

-----------------------------------------------------------------------------
(* One-time codes: the inductive invariant. *)

AuthRequests == [at : {"idle", "waiting", "issuing", "inserting", "texting", "consuming",
                       "marking", "naming"},
                 kind : Kinds, user : Users, code : Nat]

\* The connections a request holds at each of its steps: it gives back what it has taken.
Needed(x) ==
    CASE x.at \in {"idle", "waiting"} -> 0
      [] x.at \in {"issuing", "texting"} -> IF x.kind = "forgot" THEN 1 ELSE 0
      [] x.at = "inserting" -> IF x.kind = "forgot" THEN 2 ELSE 1
      [] x.at \in {"consuming", "marking", "naming"} -> 1

\* A request is at a step of its kind, and about a code that exists.
Fits(x, existing) ==
    /\ x.at \in {"issuing", "inserting", "texting"} => x.kind \in {"login", "forgot"}
    /\ x.at \in {"consuming", "marking", "naming"} => x.kind \in {"verify", "reset"}
    /\ \/ x.at = "waiting" /\ x.kind \in {"verify", "reset"}
       \/ x.at \in {"texting", "consuming", "marking"}
       => x.code \in existing

RequestsFit ==
    \A r \in Requests : Fits(req[r], DOMAIN codes) /\ conns[r] = Needed(req[r])

\* What is live was not accepted yet; what two requests did not consume at once was
\* accepted once at most, and not at all while one still consumes it.
AcceptedOnce ==
    /\ \A c \in DOMAIN codes :
         /\ Live(c) => codes[c].accepted = 0
         /\ c \notin shared => codes[c].accepted <= 1
    /\ \A r \in Requests : req[r].at = "marking" /\ req[r].code \notin shared =>
         /\ codes[req[r].code].accepted = 0
         /\ \A q \in Requests : req[q].at = "marking" /\ req[q].code = req[r].code => q = r

\* Of a use no two requests issued codes for at once, the last code is the live one, and
\* none is live while one is about to be inserted.
UseOf(c) == <<codes[c].user, codes[c].purpose>>
LastIsLive ==
    /\ \A c \in DOMAIN codes : Live(c) /\ UseOf(c) \notin raced =>
         \A d \in c + 1..Len(codes) : UseOf(d) # UseOf(c)
    /\ \A r \in Requests : req[r].at = "inserting" /\ IssuesFor(r) \notin raced =>
         /\ \A c \in DOMAIN codes : Live(c) => UseOf(c) # IssuesFor(r)
         /\ \A q \in Requests : req[q].at = "inserting" /\ IssuesFor(q) = IssuesFor(r) => q = r

AuthInv == AuthTypeOK /\ RequestsFit /\ AcceptedOnce /\ LastIsLive

(* What a session without a request has for one.                           *)
LEMMA IdleFits == Idle \in AuthRequests /\ Needed(Idle) = 0 /\ \A existing : Fits(Idle, existing)
<1>1. Idle \in AuthRequests
  BY AuthenticationAssumption DEF Idle, AuthRequests, Kinds
<1>2. Idle.at = "idle"
  BY DEF Idle
<1>3. QED
  BY <1>1, <1>2 DEF Needed, Fits

(* Connections and kinds: one request moves on, and no code is removed.    *)
LEMMA RequestMoves ==
    ASSUME AuthInv, NEW r \in Requests, NEW x \in AuthRequests, NEW n \in 0..2,
           req' = [req EXCEPT ![r] = x], conns' = [conns EXCEPT ![r] = n], n = Needed(x),
           codes' \in Seq(Codes), DOMAIN codes \subseteq DOMAIN codes', Fits(x, DOMAIN codes'),
           texted' \subseteq DOMAIN codes', shared' \subseteq DOMAIN codes',
           raced' \subseteq Users \X {"LOGIN", "RESET_PASSWORD"}
    PROVE  /\ AuthTypeOK' /\ RequestsFit' /\ req'[r] = x
           /\ \A q \in Requests \ {r} : req'[q] = req[q]
<1>1. /\ req \in [Requests -> AuthRequests] /\ conns \in [Requests -> 0..2]
  BY DEF AuthInv, AuthTypeOK, AuthRequests
<1>2. /\ req' \in [Requests -> AuthRequests] /\ conns' \in [Requests -> 0..2]
      /\ req'[r] = x /\ conns'[r] = n
      /\ \A q \in Requests \ {r} : req'[q] = req[q] /\ conns'[q] = conns[q]
  BY <1>1
<1>3. AuthTypeOK'
  BY <1>2 DEF AuthTypeOK, AuthRequests
<1>4. RequestsFit'
  <2> SUFFICES ASSUME NEW q \in Requests
               PROVE  Fits(req'[q], DOMAIN codes') /\ conns'[q] = Needed(req'[q])
    BY DEF RequestsFit
  <2>1. CASE q = r
    BY <1>2, <2>1
  <2>2. CASE q # r
    <3>1. Fits(req[q], DOMAIN codes) /\ conns[q] = Needed(req[q])
      BY DEF AuthInv, RequestsFit
    <3>2. Fits(req[q], DOMAIN codes')
      BY <3>1 DEF Fits
    <3>3. QED
      BY <1>2, <2>2, <3>1, <3>2
  <2>3. QED
    BY <2>1, <2>2
<1>5. QED
  BY <1>2, <1>3, <1>4

(* A step that writes no code, and neither is about to insert one nor to   *)
(* consume one.                                                            *)
LEMMA PlainMove ==
    ASSUME AuthInv, NEW r \in Requests, NEW x \in AuthRequests, NEW n \in 0..2,
           req' = [req EXCEPT ![r] = x], conns' = [conns EXCEPT ![r] = n], n = Needed(x),
           UNCHANGED <<codes, shared, raced>>, texted' \subseteq DOMAIN codes,
           Fits(x, DOMAIN codes), x.at \notin {"inserting", "marking"}
    PROVE  AuthInv'
<1>1. /\ codes \in Seq(Codes) /\ shared \subseteq DOMAIN codes
      /\ raced \subseteq Users \X {"LOGIN", "RESET_PASSWORD"}
  BY DEF AuthInv, AuthTypeOK
<1>2. /\ AuthTypeOK' /\ RequestsFit' /\ req'[r] = x
      /\ \A q \in Requests \ {r} : req'[q] = req[q]
  BY <1>1, RequestMoves
<1>3. \A q \in Requests : req'[q].at \in {"inserting", "marking"} => q # r /\ req'[q] = req[q]
  BY <1>2
<1>4. AcceptedOnce'
  BY <1>3 DEF AuthInv, AcceptedOnce, Live
<1>5. LastIsLive'
  <2>1. \A q \in Requests : req'[q].at = "inserting" =>
           req[q].at = "inserting" /\ IssuesFor(q)' = IssuesFor(q)
    BY <1>3 DEF IssuesFor
  <2>2. \A c : Live(c)' = Live(c) /\ UseOf(c)' = UseOf(c)
    BY DEF Live, UseOf
  <2>3. \A c \in DOMAIN codes : Live(c) /\ UseOf(c) \notin raced =>
           \A d \in c + 1..Len(codes) : UseOf(d) # UseOf(c)
    BY DEF AuthInv, LastIsLive
  <2>4. ASSUME NEW q \in Requests, req'[q].at = "inserting", IssuesFor(q)' \notin raced'
        PROVE  /\ \A c \in DOMAIN codes' : Live(c)' => UseOf(c)' # IssuesFor(q)'
               /\ \A p \in Requests : req'[p].at = "inserting" /\ IssuesFor(p)' = IssuesFor(q)' => p = q
    BY <2>1, <2>2, <2>4 DEF AuthInv, LastIsLive
  <2>5. QED
    BY <2>2, <2>3, <2>4 DEF LastIsLive
<1>6. QED
  BY <1>2, <1>4, <1>5 DEF AuthInv

(* The steps of a request that write no code.                              *)
LEMMA PlainSteps ==
    ASSUME AuthInv, NEW r \in Requests,
           \/ \E kind \in Kinds, u \in Users : Asks(r, kind, u)
           \/ \E kind \in Kinds, c \in texted : Enters(r, kind, c)
           \/ LoginRead(r) \/ LoginRefused(r) \/ ForgotRead(r) \/ ForgotNobody(r)
           \/ Text(r) \/ TextFails(r) \/ ConsumeStart(r) \/ ConsumeRefused(r) \/ NameTenant(r)
    PROVE  AuthInv'
<1>1. PICK now, held : now = req[r] /\ held = conns[r]
  OBVIOUS
<1>2. /\ now \in AuthRequests /\ Fits(now, DOMAIN codes) /\ held = Needed(now)
  BY <1>1 DEF AuthInv, AuthTypeOK, RequestsFit, AuthRequests
<1>3. /\ codes \in Seq(Codes) /\ texted \subseteq DOMAIN codes /\ DOMAIN codes \subseteq Nat
      /\ conns \in [Requests -> 0..2]
  BY DEF AuthInv, AuthTypeOK
<1>4. ASSUME NEW x \in AuthRequests, x.at = "waiting", now.at = "idle",
             req' = [req EXCEPT ![r] = x], UNCHANGED <<codes, texted, conns, shared, raced>>,
             x.kind \in {"verify", "reset"} => x.code \in DOMAIN codes
      PROVE  AuthInv'
  <2>1. Needed(x) = 0 /\ held = 0
    BY <1>2, <1>4 DEF Needed
  <2>2. Fits(x, DOMAIN codes)
    BY <1>4 DEF Fits
  <2>3. conns' = [conns EXCEPT ![r] = 0]
    BY <1>1, <1>3, <1>4, <2>1
  <2>4. PICK n \in 0..2 : n = 0
    OBVIOUS
  <2>5. UNCHANGED <<codes, shared, raced>> /\ texted' \subseteq DOMAIN codes
    BY <1>3, <1>4
  <2>6. QED
    BY <1>4, <2>1, <2>2, <2>3, <2>4, <2>5, PlainMove
<1>5. ASSUME NEW kind \in Kinds, NEW u \in Users, Asks(r, kind, u) PROVE AuthInv'
  <2>1. PICK x \in AuthRequests : x = [at |-> "waiting", kind |-> kind, user |-> u, code |-> 0]
    BY DEF AuthRequests
  <2>2. now.at = "idle" /\ kind \in {"login", "forgot"}
    BY <1>1, <1>5 DEF Asks
  <2>3. req' = [req EXCEPT ![r] = x] /\ UNCHANGED <<codes, texted, conns, shared, raced>>
    BY <1>5, <2>1 DEF Asks
  <2>4. QED
    BY <1>4, <2>1, <2>2, <2>3
<1>6. ASSUME NEW kind \in Kinds, NEW c \in texted, Enters(r, kind, c) PROVE AuthInv'
  <2>0. c \in DOMAIN codes /\ codes[c] \in Codes
    BY <1>3
  <2>1. c \in DOMAIN codes /\ c \in Nat /\ codes[c].user \in Users
    BY <1>3, <2>0 DEF Codes
  <2>2. PICK x \in AuthRequests :
           x = [at |-> "waiting", kind |-> kind, user |-> codes[c].user, code |-> c]
    BY <2>1 DEF AuthRequests
  <2>3. now.at = "idle" /\ req' = [req EXCEPT ![r] = x]
    BY <1>1, <1>6, <2>2 DEF Enters
  <2>4. UNCHANGED <<codes, texted, conns, shared, raced>>
    BY <1>6 DEF Enters
  <2>5. QED
    BY <1>4, <2>1, <2>2, <2>3, <2>4
<1>7. ASSUME NEW at \in {"issuing", "consuming"}, NEW n \in 0..2, Advances(r, at),
             conns' = [conns EXCEPT ![r] = n], NoCodeStep, now.at = "waiting",
             at = "issuing" => \/ now.kind = "login" /\ n = 0
                               \/ now.kind = "forgot" /\ n = 1,
             at = "consuming" => now.kind \in {"verify", "reset"} /\ n = 1
      PROVE  AuthInv'
  <2>1. PICK x : x = [now EXCEPT !.at = at]
    OBVIOUS
  <2>2. x \in AuthRequests /\ x.at = at /\ x.kind = now.kind /\ x.code = now.code
    BY <1>2, <2>1 DEF AuthRequests
  <2>3. req' = [req EXCEPT ![r] = x]
    BY <1>1, <1>7, <2>1 DEF Advances
  <2>4. n = Needed(x)
    BY <1>7, <2>2 DEF Needed
  <2>5. Fits(x, DOMAIN codes)
    BY <1>2, <1>7, <2>2 DEF Fits
  <2>6. UNCHANGED <<codes, shared, raced>> /\ texted' \subseteq DOMAIN codes
    BY <1>3, <1>7 DEF NoCodeStep
  <2>7. QED
    BY <1>7, <2>2, <2>3, <2>4, <2>5, <2>6, PlainMove
<1>8. ASSUME Ends(r), conns' = [conns EXCEPT ![r] = 0], UNCHANGED <<codes, shared, raced>>,
             texted' \subseteq DOMAIN codes
      PROVE  AuthInv'
  <2>1. req' = [req EXCEPT ![r] = Idle] /\ Idle.at = "idle"
    BY <1>8 DEF Ends, Idle
  <2>2. Idle \in AuthRequests /\ Needed(Idle) = 0 /\ Fits(Idle, DOMAIN codes)
    BY IdleFits
  <2>3. PICK x \in AuthRequests, n \in 0..2 : x = Idle /\ n = 0
    BY <2>2
  <2>4. QED
    BY <1>8, <2>1, <2>2, <2>3, PlainMove
<1>9. ASSUME held = 0 PROVE UNCHANGED conns => conns' = [conns EXCEPT ![r] = 0]
  BY <1>1, <1>3, <1>9
<1>10. CASE LoginRead(r)
  <2>1. now.at = "waiting" /\ now.kind = "login" /\ held = 0
    BY <1>1, <1>2, <1>10 DEF LoginRead, Waits, Needed
  <2>2. conns' = [conns EXCEPT ![r] = 0] /\ Advances(r, "issuing") /\ NoCodeStep
    BY <1>9, <1>10, <2>1 DEF LoginRead, Query
  <2>3. PICK n \in 0..2, at \in {"issuing", "consuming"} :
           n = 0 /\ conns' = [conns EXCEPT ![r] = n] /\ at = "issuing" /\ Advances(r, at)
    BY <2>2
  <2>4. QED
    BY <1>7, <2>1, <2>2, <2>3
<1>11. CASE LoginRefused(r) \/ ForgotNobody(r)
  <2>1. held = 0
    BY <1>1, <1>2, <1>11 DEF LoginRefused, ForgotNobody, Waits, Needed
  <2>2. QED
    BY <1>3, <1>8, <1>9, <1>11, <2>1 DEF LoginRefused, ForgotNobody, Query, NoCodeStep
<1>12. CASE ForgotRead(r)
  <2>1. now.at = "waiting" /\ now.kind = "forgot" /\ held = 0
    BY <1>1, <1>2, <1>12 DEF ForgotRead, Waits, Needed
  <2>2. conns' = [conns EXCEPT ![r] = 1]
    BY <1>1, <1>12, <2>1 DEF ForgotRead, Acquire
  <2>3. QED
    BY <1>7, <1>12, <2>1, <2>2 DEF ForgotRead
<1>13. ASSUME now.at = "texting", EndsTexting(r) PROVE Ends(r) /\ conns' = [conns EXCEPT ![r] = 0]
  <2>1. CASE now.kind = "forgot"
    <3>1. held = 1
      BY <1>2, <1>13, <2>1 DEF Needed
    <3>2. QED
      BY <1>1, <1>13, <2>1, <3>1 DEF EndsTexting, Release
  <2>2. CASE now.kind # "forgot"
    <3>1. held = 0
      BY <1>2, <1>13, <2>2 DEF Needed
    <3>2. QED
      BY <1>1, <1>9, <1>13, <2>2, <3>1 DEF EndsTexting
  <2>3. QED
    BY <2>1, <2>2
<1>14. CASE Text(r)
  <2>1. now.at = "texting" /\ EndsTexting(r) /\ UNCHANGED <<codes, shared, raced>>
    BY <1>1, <1>14 DEF Text
  <2>2. texted' = texted \cup {now.code} /\ now.code \in DOMAIN codes
    BY <1>1, <1>2, <1>14, <2>1 DEF Text, Fits
  <2>3. QED
    BY <1>3, <1>8, <1>13, <2>1, <2>2
<1>15. CASE TextFails(r)
  BY <1>1, <1>3, <1>8, <1>13, <1>15 DEF TextFails, NoCodeStep
<1>16. CASE ConsumeStart(r)
  <2>1. now.at = "waiting" /\ now.kind \in {"verify", "reset"} /\ held = 0
    BY <1>1, <1>2, <1>16 DEF ConsumeStart, Waits, Needed
  <2>2. conns' = [conns EXCEPT ![r] = 1]
    BY <1>1, <1>16, <2>1 DEF ConsumeStart, Acquire
  <2>3. QED
    BY <1>7, <1>16, <2>1, <2>2 DEF ConsumeStart
<1>17. CASE ConsumeRefused(r) \/ NameTenant(r)
  <2>1. held = 1
    BY <1>1, <1>2, <1>17 DEF ConsumeRefused, NameTenant, Needed
  <2>2. conns' = [conns EXCEPT ![r] = 0]
    BY <1>1, <1>17, <2>1 DEF ConsumeRefused, ReleasesOnError, NameTenant, Release
  <2>3. QED
    BY <1>3, <1>8, <1>17, <2>2 DEF ConsumeRefused, NameTenant, NoCodeStep
<1>18. QED
  BY <1>5, <1>6, <1>10, <1>11, <1>12, <1>14, <1>15, <1>16, <1>17

(* The codes of a use are marked used, and a new one is about to come.     *)
LEMMA IssueStartKeeps == ASSUME AuthInv, NEW r \in Requests, IssueStart(r) PROVE AuthInv'
<1>1. PICK now, held : now = req[r] /\ held = conns[r]
  OBVIOUS
<1>2. /\ now \in AuthRequests /\ Fits(now, DOMAIN codes) /\ held = Needed(now) /\ now.at = "issuing"
      /\ now.kind \in {"login", "forgot"}
  BY <1>1 DEF AuthInv, AuthTypeOK, RequestsFit, AuthRequests, IssueStart, Fits
<1>3. /\ codes \in Seq(Codes) /\ texted \subseteq DOMAIN codes /\ shared \subseteq DOMAIN codes
      /\ raced \subseteq Users \X {"LOGIN", "RESET_PASSWORD"}
  BY DEF AuthInv, AuthTypeOK
<1>4. PICK use : use = IssuesFor(r)
  OBVIOUS
<1>5. use = <<now.user, Purpose[now.kind]>> /\ use \in Users \X {"LOGIN", "RESET_PASSWORD"}
  BY <1>1, <1>2, <1>4 DEF IssuesFor, Purpose, AuthRequests, Kinds
<1>6. codes' = [c \in DOMAIN codes |-> IF Live(c) /\ UseOf(c) = use THEN Replaced(c) ELSE codes[c]]
  BY <1>1, <1>5 DEF IssueStart, SameUse, UseOf
<1>7. ASSUME NEW c \in DOMAIN codes
      PROVE  /\ codes[c] \in Codes /\ codes'[c] \in Codes /\ UseOf(c)' = UseOf(c)
             /\ codes'[c].accepted = codes[c].accepted
             /\ Live(c)' => Live(c) /\ UseOf(c) # use
  <2>1. codes[c] \in Codes
    BY <1>3
  <2>2. CASE Live(c) /\ UseOf(c) = use
    <3>1. codes'[c] = [codes[c] EXCEPT !.state = "used"]
      BY <1>6, <2>2 DEF Replaced
    <3>2. QED
      BY <2>1, <3>1 DEF Codes, Live, UseOf
  <2>3. CASE ~(Live(c) /\ UseOf(c) = use)
    <3>1. codes'[c] = codes[c]
      BY <1>6, <2>3
    <3>2. QED
      BY <2>1, <2>3, <3>1 DEF Live, UseOf
  <2>4. QED
    BY <2>2, <2>3
<1>8. Len(codes) \in Nat /\ DOMAIN codes = 1..Len(codes)
  BY <1>3
<1>9. codes' \in Seq(Codes) /\ DOMAIN codes' = DOMAIN codes /\ Len(codes') = Len(codes)
  <2>1. DOMAIN codes' = 1..Len(codes)
    BY <1>6, <1>8
  <2>2. codes' = [c \in 1..Len(codes) |-> codes'[c]]
    BY <1>6, <1>8
  <2>3. \A c \in 1..Len(codes) : codes'[c] \in Codes
    BY <1>7, <1>8
  <2>4. codes' \in [1..Len(codes) -> Codes]
    BY <2>2, <2>3
  <2>5. QED
    BY <1>8, <2>1, <2>4
<1>10. PICK x : x = [now EXCEPT !.at = "inserting"]
  OBVIOUS
<1>11. x \in AuthRequests /\ x.at = "inserting" /\ x.kind = now.kind /\ x.user = now.user
  BY <1>2, <1>10 DEF AuthRequests
<1>12. req' = [req EXCEPT ![r] = x]
  BY <1>1, <1>10 DEF IssueStart, Advances
<1>13. PICK n \in 0..2 : n = Needed(x) /\ conns' = [conns EXCEPT ![r] = n]
  <2>1. held + 1 \in 0..2 /\ held + 1 = Needed(x)
    BY <1>2, <1>11 DEF Needed
  <2>2. conns' = [conns EXCEPT ![r] = held + 1]
    BY <1>1 DEF IssueStart, Acquire
  <2>3. QED
    BY <2>1, <2>2
<1>14. Fits(x, DOMAIN codes')
  BY <1>2, <1>11 DEF Fits
<1>15. raced' \subseteq Users \X {"LOGIN", "RESET_PASSWORD"} /\ UNCHANGED <<texted, shared>>
  BY <1>3, <1>4, <1>5 DEF IssueStart
<1>16. /\ AuthTypeOK' /\ RequestsFit' /\ req'[r] = x
       /\ \A q \in Requests \ {r} : req'[q] = req[q]
  BY <1>3, <1>9, <1>11, <1>12, <1>13, <1>14, <1>15, RequestMoves
<1>17. \A q \in Requests : req'[q].at = "marking" => q # r /\ req'[q] = req[q] /\ req[q].code \in DOMAIN codes
  BY <1>11, <1>16 DEF AuthInv, RequestsFit, Fits
<1>18. AcceptedOnce'
  <2>1. \A c \in DOMAIN codes' : /\ Live(c)' => codes'[c].accepted = 0
                                 /\ c \notin shared' => codes'[c].accepted <= 1
    BY <1>7, <1>9, <1>15 DEF AuthInv, AcceptedOnce
  <2>2. ASSUME NEW q \in Requests, req'[q].at = "marking", req'[q].code \notin shared'
        PROVE  /\ codes'[req'[q].code].accepted = 0
               /\ \A p \in Requests : req'[p].at = "marking" /\ req'[p].code = req'[q].code => p = q
    BY <1>7, <1>15, <1>17, <2>2 DEF AuthInv, AcceptedOnce
  <2>3. QED
    BY <2>1, <2>2 DEF AcceptedOnce
<1>19. \A k : k # use => (k \in raced' <=> k \in raced)
  BY <1>4 DEF IssueStart
<1>20. use \notin raced' => \A q \in Requests \ {r} : req[q].at = "inserting" => IssuesFor(q) # use
  BY <1>4 DEF IssueStart
<1>21. /\ IssuesFor(r)' = use
       /\ \A q \in Requests \ {r} : IssuesFor(q)' = IssuesFor(q)
  BY <1>5, <1>11, <1>16 DEF IssuesFor
<1>22. LastIsLive'
  <2>1. ASSUME NEW c \in DOMAIN codes', Live(c)', UseOf(c)' \notin raced', NEW d \in c + 1..Len(codes')
        PROVE  UseOf(d)' # UseOf(c)'
    <3>1. c \in DOMAIN codes /\ d \in DOMAIN codes /\ d \in c + 1..Len(codes)
      BY <1>8, <1>9, <2>1
    <3>2. Live(c) /\ UseOf(c) # use /\ UseOf(c)' = UseOf(c) /\ UseOf(d)' = UseOf(d)
      BY <1>7, <2>1, <3>1
    <3>3. UseOf(c) \notin raced
      BY <1>19, <2>1, <3>2
    <3>4. QED
      BY <3>1, <3>2, <3>3 DEF AuthInv, LastIsLive
  <2>2. ASSUME NEW q \in Requests, req'[q].at = "inserting", IssuesFor(q)' \notin raced'
        PROVE  /\ \A c \in DOMAIN codes' : Live(c)' => UseOf(c)' # IssuesFor(q)'
               /\ \A p \in Requests : req'[p].at = "inserting" /\ IssuesFor(p)' = IssuesFor(q)' => p = q
    <3>1. CASE q = r \/ IssuesFor(q) = use
      <4>1. q = r
        BY <1>16, <1>20, <1>21, <2>2, <3>1
      <4>2. \A p \in Requests : req'[p].at = "inserting" /\ IssuesFor(p)' = use => p = r
        BY <1>16, <1>20, <1>21, <2>2, <4>1
      <4>3. QED
        BY <1>7, <1>9, <1>21, <4>1, <4>2
    <3>2. CASE q # r /\ IssuesFor(q) # use
      <4>1. /\ req[q].at = "inserting" /\ IssuesFor(q)' = IssuesFor(q) /\ IssuesFor(q) \notin raced
        BY <1>16, <1>19, <1>21, <2>2, <3>2
      <4>2. \A c \in DOMAIN codes' : Live(c)' => UseOf(c)' # IssuesFor(q)'
        BY <1>7, <1>9, <4>1 DEF AuthInv, LastIsLive
      <4>3. \A p \in Requests : req'[p].at = "inserting" /\ IssuesFor(p)' = IssuesFor(q)' => p = q
        BY <1>16, <1>21, <3>2, <4>1 DEF AuthInv, LastIsLive
      <4>4. QED
        BY <4>2, <4>3
    <3>3. QED
      BY <3>1, <3>2, <1>21
  <2>3. QED
    BY <2>1, <2>2 DEF LastIsLive
<1>23. QED
  BY <1>16, <1>18, <1>22 DEF AuthInv

(* The new code is the last one, and the only one of its use that is live  *)
(* unless another was issued at once.                                      *)
LEMMA IssueInsertKeeps == ASSUME AuthInv, NEW r \in Requests, IssueInsert(r) PROVE AuthInv'
<1>1. PICK now, held : now = req[r] /\ held = conns[r]
  OBVIOUS
<1>2. /\ now \in AuthRequests /\ Fits(now, DOMAIN codes) /\ held = Needed(now) /\ now.at = "inserting"
      /\ now.kind \in {"login", "forgot"}
  BY <1>1 DEF AuthInv, AuthTypeOK, RequestsFit, AuthRequests, IssueInsert, Fits
<1>3. /\ codes \in Seq(Codes) /\ texted \subseteq DOMAIN codes /\ shared \subseteq DOMAIN codes
      /\ raced \subseteq Users \X {"LOGIN", "RESET_PASSWORD"}
  BY DEF AuthInv, AuthTypeOK
<1>4. PICK use : use = IssuesFor(r)
  OBVIOUS
<1>5. /\ use = <<now.user, Purpose[now.kind]>>
      /\ now.user \in Users /\ Purpose[now.kind] \in {"LOGIN", "RESET_PASSWORD"}
  BY <1>1, <1>2, <1>4 DEF IssuesFor, Purpose, AuthRequests, Kinds
<1>6. PICK code \in Codes : code = [user |-> now.user, purpose |-> Purpose[now.kind],
                                   state |-> "live", accepted |-> 0]
  BY <1>5 DEF Codes
<1>7. codes' = Append(codes, code)
  BY <1>1, <1>6 DEF IssueInsert
<1>8. Len(codes) \in Nat /\ DOMAIN codes = 1..Len(codes)
  BY <1>3
<1>9. PICK last \in Nat : last = Len(codes) + 1
  BY <1>8
<1>10. /\ codes' \in Seq(Codes) /\ Len(codes') = last /\ DOMAIN codes' = 1..last
       /\ codes'[last] = code /\ \A c \in DOMAIN codes : codes'[c] = codes[c]
  BY <1>3, <1>7, <1>8, <1>9
<1>11. DOMAIN codes \subseteq DOMAIN codes' /\ last \in DOMAIN codes' /\ DOMAIN codes' = DOMAIN codes \cup {last}
  BY <1>8, <1>9, <1>10
<1>12. PICK x : x = [now EXCEPT !.at = "texting", !.code = last]
  OBVIOUS
<1>13. x \in AuthRequests /\ x.at = "texting" /\ x.kind = now.kind /\ x.code = last
  BY <1>2, <1>12 DEF AuthRequests
<1>14. req' = [req EXCEPT ![r] = x]
  BY <1>1, <1>9, <1>12 DEF IssueInsert
<1>15. PICK n \in 0..2 : n = Needed(x) /\ conns' = [conns EXCEPT ![r] = n]
  <2>1. held - 1 \in 0..2 /\ held - 1 = Needed(x)
    BY <1>2, <1>13 DEF Needed
  <2>2. conns' = [conns EXCEPT ![r] = held - 1]
    BY <1>1 DEF IssueInsert, Release
  <2>3. QED
    BY <2>1, <2>2
<1>16. Fits(x, DOMAIN codes')
  BY <1>2, <1>11, <1>13 DEF Fits
<1>17. UNCHANGED <<texted, shared, raced>>
  BY DEF IssueInsert
<1>18. /\ AuthTypeOK' /\ RequestsFit' /\ req'[r] = x
       /\ \A q \in Requests \ {r} : req'[q] = req[q]
  <2>1. /\ texted' \subseteq DOMAIN codes' /\ shared' \subseteq DOMAIN codes'
        /\ raced' \subseteq Users \X {"LOGIN", "RESET_PASSWORD"}
    BY <1>3, <1>11, <1>17
  <2>2. QED
    BY <1>10, <1>11, <1>13, <1>14, <1>15, <1>16, <2>1, RequestMoves
<1>19. \A q \in Requests : req'[q].at = "marking" => q # r /\ req'[q] = req[q] /\ req[q].code \in DOMAIN codes
  BY <1>13, <1>18 DEF AuthInv, RequestsFit, Fits
<1>20. \A c \in DOMAIN codes : /\ UseOf(c)' = UseOf(c) /\ Live(c)' = Live(c)
                               /\ codes'[c].accepted = codes[c].accepted
  BY <1>10 DEF UseOf, Live
<1>21. Live(last)' /\ UseOf(last)' = use /\ codes'[last].accepted = 0
  BY <1>5, <1>6, <1>10 DEF UseOf, Live
<1>22. AcceptedOnce'
  <2>1. ASSUME NEW c \in DOMAIN codes'
        PROVE  /\ Live(c)' => codes'[c].accepted = 0
               /\ c \notin shared' => codes'[c].accepted <= 1
    <3>1. CASE c \in DOMAIN codes
      BY <1>17, <1>20, <3>1 DEF AuthInv, AcceptedOnce
    <3>2. CASE c = last
      BY <1>21, <3>2
    <3>3. QED
      BY <1>11, <3>1, <3>2
  <2>2. ASSUME NEW q \in Requests, req'[q].at = "marking", req'[q].code \notin shared'
        PROVE  /\ codes'[req'[q].code].accepted = 0
               /\ \A p \in Requests : req'[p].at = "marking" /\ req'[p].code = req'[q].code => p = q
    BY <1>17, <1>19, <1>20, <2>2 DEF AuthInv, AcceptedOnce
  <2>3. QED
    BY <2>1, <2>2 DEF AcceptedOnce
<1>23. LastIsLive'
  <2>1. ASSUME NEW c \in DOMAIN codes', Live(c)', UseOf(c)' \notin raced', NEW d \in c + 1..Len(codes')
        PROVE  UseOf(d)' # UseOf(c)'
    <3>1. c \in DOMAIN codes /\ d \in DOMAIN codes' /\ c < d
      BY <1>8, <1>9, <1>10, <2>1
    <3>2. Live(c) /\ UseOf(c)' = UseOf(c) /\ UseOf(c) \notin raced
      BY <1>17, <1>20, <2>1, <3>1
    <3>3. CASE d \in DOMAIN codes
      <4>1. d \in c + 1..Len(codes)
        BY <1>8, <3>1, <3>3
      <4>2. QED
        BY <1>20, <3>1, <3>2, <3>3, <4>1 DEF AuthInv, LastIsLive
    <3>4. CASE d = last
      <4>1. UseOf(c) # use
        BY <1>1, <1>2, <1>4, <3>1, <3>2 DEF AuthInv, LastIsLive
      <4>2. QED
        BY <1>21, <3>2, <3>4, <4>1
    <3>5. QED
      BY <1>11, <3>1, <3>3, <3>4
  <2>2. ASSUME NEW q \in Requests, req'[q].at = "inserting", IssuesFor(q)' \notin raced'
        PROVE  /\ \A c \in DOMAIN codes' : Live(c)' => UseOf(c)' # IssuesFor(q)'
               /\ \A p \in Requests : req'[p].at = "inserting" /\ IssuesFor(p)' = IssuesFor(q)' => p = q
    <3>1. \A p \in Requests : req'[p].at = "inserting" =>
             p # r /\ req[p].at = "inserting" /\ IssuesFor(p)' = IssuesFor(p)
      BY <1>13, <1>18 DEF IssuesFor
    <3>2. /\ \A c \in DOMAIN codes : Live(c) => UseOf(c) # IssuesFor(q)
          /\ \A p \in Requests : req[p].at = "inserting" /\ IssuesFor(p) = IssuesFor(q) => p = q
      BY <1>17, <2>2, <3>1 DEF AuthInv, LastIsLive
    <3>3. IssuesFor(q) # use
      BY <1>1, <1>2, <1>4, <2>2, <3>1, <3>2
    <3>4. QED
      BY <1>11, <1>20, <1>21, <2>2, <3>1, <3>2, <3>3
  <2>3. QED
    BY <2>1, <2>2 DEF LastIsLive
<1>24. QED
  BY <1>18, <1>22, <1>23 DEF AuthInv

(* A request has found its code valid.                                     *)
LEMMA ConsumeReadKeeps == ASSUME AuthInv, NEW r \in Requests, ConsumeRead(r) PROVE AuthInv'
<1>1. PICK now, held : now = req[r] /\ held = conns[r]
  OBVIOUS
<1>2. /\ now \in AuthRequests /\ Fits(now, DOMAIN codes) /\ held = Needed(now) /\ now.at = "consuming"
      /\ now.kind \in {"verify", "reset"} /\ now.code \in DOMAIN codes
  BY <1>1 DEF AuthInv, AuthTypeOK, RequestsFit, AuthRequests, ConsumeRead, Fits
<1>3. /\ codes \in Seq(Codes) /\ texted \subseteq DOMAIN codes /\ shared \subseteq DOMAIN codes
      /\ raced \subseteq Users \X {"LOGIN", "RESET_PASSWORD"} /\ conns \in [Requests -> 0..2]
  BY DEF AuthInv, AuthTypeOK
<1>4. UNCHANGED <<codes, texted, conns, raced>> /\ Live(now.code)
  BY <1>1 DEF ConsumeRead, Valid
<1>5. PICK x : x = [now EXCEPT !.at = "marking"]
  OBVIOUS
<1>6. x \in AuthRequests /\ x.at = "marking" /\ x.kind = now.kind /\ x.code = now.code
  BY <1>2, <1>5 DEF AuthRequests
<1>7. req' = [req EXCEPT ![r] = x]
  BY <1>1, <1>5 DEF ConsumeRead, Advances
<1>8. PICK n \in 0..2 : n = Needed(x) /\ conns' = [conns EXCEPT ![r] = n]
  <2>1. held \in 0..2 /\ held = Needed(x)
    BY <1>1, <1>2, <1>3, <1>6 DEF Needed
  <2>2. QED
    BY <1>1, <1>3, <1>4, <2>1
<1>9. Fits(x, DOMAIN codes')
  BY <1>2, <1>4, <1>6 DEF Fits
<1>10. shared \subseteq shared' /\ shared' \subseteq shared \cup {now.code}
  BY <1>1 DEF ConsumeRead
<1>11. now.code \notin shared' => \A q \in Requests : req[q].at = "marking" => req[q].code # now.code
  BY <1>1 DEF ConsumeRead
<1>12. /\ AuthTypeOK' /\ RequestsFit' /\ req'[r] = x
       /\ \A q \in Requests \ {r} : req'[q] = req[q]
  <2>1. /\ codes' \in Seq(Codes) /\ DOMAIN codes \subseteq DOMAIN codes'
        /\ texted' \subseteq DOMAIN codes' /\ shared' \subseteq DOMAIN codes'
        /\ raced' \subseteq Users \X {"LOGIN", "RESET_PASSWORD"}
    BY <1>2, <1>3, <1>4, <1>10
  <2>2. QED
    BY <1>6, <1>7, <1>8, <1>9, <2>1, RequestMoves
<1>13. \A c : Live(c)' = Live(c) /\ UseOf(c)' = UseOf(c)
  BY <1>4 DEF Live, UseOf
<1>14. AcceptedOnce'
  <2>1. \A c \in DOMAIN codes' : /\ Live(c)' => codes'[c].accepted = 0
                                 /\ c \notin shared' => codes'[c].accepted <= 1
    BY <1>4, <1>10, <1>13 DEF AuthInv, AcceptedOnce
  <2>2. ASSUME NEW q \in Requests, req'[q].at = "marking", req'[q].code \notin shared'
        PROVE  /\ codes'[req'[q].code].accepted = 0
               /\ \A p \in Requests : req'[p].at = "marking" /\ req'[p].code = req'[q].code => p = q
    <3>1. CASE req'[q].code = now.code
      <4>1. \A p \in Requests \ {r} : ~(req'[p].at = "marking" /\ req'[p].code = now.code)
        BY <1>11, <1>12, <2>2, <3>1
      <4>2. q = r
        BY <2>2, <3>1, <4>1
      <4>3. codes[now.code].accepted = 0
        BY <1>2, <1>4 DEF AuthInv, AcceptedOnce
      <4>4. QED
        BY <1>4, <3>1, <4>1, <4>2, <4>3
    <3>2. CASE req'[q].code # now.code
      <4>1. q # r /\ req'[q] = req[q] /\ req[q].code \notin shared
        BY <1>6, <1>10, <1>12, <2>2, <3>2
      <4>2. /\ codes[req[q].code].accepted = 0
            /\ \A p \in Requests : req[p].at = "marking" /\ req[p].code = req[q].code => p = q
        BY <2>2, <4>1 DEF AuthInv, AcceptedOnce
      <4>3. QED
        BY <1>4, <1>6, <1>12, <3>2, <4>1, <4>2
    <3>3. QED
      BY <3>1, <3>2
  <2>3. QED
    BY <2>1, <2>2 DEF AcceptedOnce
<1>15. LastIsLive'
  <2>1. \A c \in DOMAIN codes' : Live(c)' /\ UseOf(c)' \notin raced' =>
           \A d \in c + 1..Len(codes') : UseOf(d)' # UseOf(c)'
    BY <1>4, <1>13 DEF AuthInv, LastIsLive
  <2>2. \A q \in Requests : req'[q].at = "inserting" =>
           req[q].at = "inserting" /\ IssuesFor(q)' = IssuesFor(q)
    BY <1>6, <1>12 DEF IssuesFor
  <2>3. ASSUME NEW q \in Requests, req'[q].at = "inserting", IssuesFor(q)' \notin raced'
        PROVE  /\ \A c \in DOMAIN codes' : Live(c)' => UseOf(c)' # IssuesFor(q)'
               /\ \A p \in Requests : req'[p].at = "inserting" /\ IssuesFor(p)' = IssuesFor(q)' => p = q
    BY <1>4, <1>13, <2>2, <2>3 DEF AuthInv, LastIsLive
  <2>4. QED
    BY <2>1, <2>3 DEF LastIsLive
<1>16. QED
  BY <1>12, <1>14, <1>15 DEF AuthInv

(* A code is accepted, and used from then on.                              *)
LEMMA MarkKeeps ==
    ASSUME AuthInv, NEW r \in Requests, MarkEnds(r) \/ MarkLogin(r)
    PROVE  AuthInv'
<1>1. PICK now, held : now = req[r] /\ held = conns[r]
  OBVIOUS
<1>2. /\ now \in AuthRequests /\ Fits(now, DOMAIN codes) /\ held = Needed(now) /\ now.at = "marking"
      /\ now.kind \in {"verify", "reset"} /\ now.code \in DOMAIN codes
  BY <1>1 DEF AuthInv, AuthTypeOK, RequestsFit, AuthRequests, MarkEnds, MarkLogin, Fits
<1>3. /\ codes \in Seq(Codes) /\ texted \subseteq DOMAIN codes /\ shared \subseteq DOMAIN codes
      /\ raced \subseteq Users \X {"LOGIN", "RESET_PASSWORD"} /\ conns \in [Requests -> 0..2]
      /\ \A c \in DOMAIN codes : codes[c] \in Codes
  BY DEF AuthInv, AuthTypeOK
<1>4. UNCHANGED <<texted, shared, raced>> /\ Used(now.code)
  BY <1>1 DEF MarkEnds, MarkLogin
<1>5. PICK code \in Codes : /\ code = [codes[now.code] EXCEPT !.state = "used", !.accepted = @ + 1]
                           /\ code.user = codes[now.code].user /\ code.purpose = codes[now.code].purpose
                           /\ code.state = "used" /\ code.accepted = codes[now.code].accepted + 1
  <2>1. PICK old \in Codes : old = codes[now.code]
    BY <1>2, <1>3
  <2>2. PICK used : used = [old EXCEPT !.state = "used"]
    OBVIOUS
  <2>3. /\ used \in Codes /\ used.user = old.user /\ used.purpose = old.purpose
        /\ used.state = "used" /\ used.accepted = old.accepted
    BY <2>2 DEF Codes
  <2>4. PICK code : code = [used EXCEPT !.accepted = old.accepted + 1]
    OBVIOUS
  <2>5. /\ code \in Codes /\ code.user = used.user /\ code.purpose = used.purpose
        /\ code.state = used.state /\ code.accepted = old.accepted + 1
    BY <2>3, <2>4 DEF Codes
  <2>6. code = [old EXCEPT !.state = "used", !.accepted = @ + 1]
    BY <2>2, <2>3, <2>4
  <2>7. QED
    BY <2>1, <2>3, <2>5, <2>6
<1>6. codes' = [codes EXCEPT ![now.code] = code]
  BY <1>4, <1>5 DEF Used
<1>7. /\ codes' \in Seq(Codes) /\ DOMAIN codes' = DOMAIN codes /\ Len(codes') = Len(codes)
      /\ codes'[now.code] = code /\ \A c \in DOMAIN codes \ {now.code} : codes'[c] = codes[c]
  BY <1>2, <1>3, <1>6
<1>8. PICK x \in AuthRequests, n \in 0..2 :
         /\ req' = [req EXCEPT ![r] = x] /\ conns' = [conns EXCEPT ![r] = n] /\ n = Needed(x)
         /\ Fits(x, DOMAIN codes') /\ x.at \in {"idle", "naming"}
  <2>0. held = 1
    BY <1>2 DEF Needed
  <2>1. CASE MarkEnds(r)
    <3>1. req' = [req EXCEPT ![r] = Idle] /\ Idle.at = "idle"
      BY <2>1 DEF MarkEnds, Ends, Idle
    <3>2. conns' = [conns EXCEPT ![r] = 0]
      <4>1. conns' = [conns EXCEPT ![r] = held - 1]
        BY <1>1, <2>1 DEF MarkEnds, Release
      <4>2. QED
        BY <2>0, <4>1
    <3>3. PICK x \in AuthRequests, n \in 0..2 : x = Idle /\ n = 0
      BY IdleFits
    <3>4. n = Needed(x) /\ Fits(x, DOMAIN codes')
      BY <3>3, IdleFits
    <3>5. QED
      BY <3>1, <3>2, <3>3, <3>4
  <2>2. CASE MarkLogin(r)
    <3>1. PICK x : x = [now EXCEPT !.at = "naming"]
      OBVIOUS
    <3>2. x \in AuthRequests /\ x.at = "naming" /\ x.kind = now.kind
      BY <1>2, <3>1 DEF AuthRequests
    <3>3. req' = [req EXCEPT ![r] = x]
      BY <1>1, <2>2, <3>1 DEF MarkLogin, Advances
    <3>4. conns' = [conns EXCEPT ![r] = 1]
      BY <1>1, <1>3, <2>0, <2>2 DEF MarkLogin
    <3>5. Needed(x) = 1 /\ Fits(x, DOMAIN codes')
      BY <1>2, <3>2 DEF Needed, Fits
    <3>6. PICK n \in 0..2 : n = 1
      OBVIOUS
    <3>7. QED
      BY <3>2, <3>3, <3>4, <3>5, <3>6
  <2>3. QED
    BY <2>1, <2>2
<1>9. /\ AuthTypeOK' /\ RequestsFit' /\ req'[r] = x
      /\ \A q \in Requests \ {r} : req'[q] = req[q]
  BY <1>3, <1>4, <1>7, <1>8, RequestMoves
<1>10. \A q \in Requests : req'[q].at \in {"inserting", "marking"} => q # r /\ req'[q] = req[q]
  BY <1>8, <1>9
<1>11. \A c \in DOMAIN codes : UseOf(c)' = UseOf(c) /\ (Live(c)' => Live(c) /\ c # now.code)
  BY <1>2, <1>5, <1>7 DEF UseOf, Live
<1>12. now.code \notin shared => codes[now.code].accepted = 0
  BY <1>1, <1>2 DEF AuthInv, AcceptedOnce
<1>13. AcceptedOnce'
  <2>1. ASSUME NEW c \in DOMAIN codes'
        PROVE  /\ Live(c)' => codes'[c].accepted = 0
               /\ c \notin shared' => codes'[c].accepted <= 1
    <3>1. CASE c = now.code
      <4>1. ~Live(c)'
        BY <1>2, <1>11, <3>1
      <4>2. c \notin shared' => codes'[c].accepted = 0 + 1
        BY <1>4, <1>5, <1>7, <1>12, <3>1
      <4>3. QED
        BY <4>1, <4>2
    <3>2. CASE c # now.code
      BY <1>4, <1>7, <1>11, <3>2 DEF AuthInv, AcceptedOnce
    <3>3. QED
      BY <3>1, <3>2
  <2>2. ASSUME NEW q \in Requests, req'[q].at = "marking", req'[q].code \notin shared'
        PROVE  /\ codes'[req'[q].code].accepted = 0
               /\ \A p \in Requests : req'[p].at = "marking" /\ req'[p].code = req'[q].code => p = q
    <3>1. q # r /\ req'[q] = req[q] /\ req[q].code \notin shared /\ req[q].code \in DOMAIN codes
      BY <1>4, <1>10, <2>2 DEF AuthInv, RequestsFit, Fits
    <3>2. /\ codes[req[q].code].accepted = 0
          /\ \A p \in Requests : req[p].at = "marking" /\ req[p].code = req[q].code => p = q
      BY <2>2, <3>1 DEF AuthInv, AcceptedOnce
    <3>3. req[q].code # now.code
      BY <1>1, <1>2, <3>1, <3>2
    <3>4. QED
      BY <1>7, <1>10, <3>1, <3>2, <3>3
  <2>3. QED
    BY <2>1, <2>2 DEF AcceptedOnce
<1>14. LastIsLive'
  <2>0. Len(codes) \in Nat /\ DOMAIN codes = 1..Len(codes)
    BY <1>3
  <2>1. ASSUME NEW c \in DOMAIN codes', Live(c)', UseOf(c)' \notin raced', NEW d \in c + 1..Len(codes')
        PROVE  UseOf(d)' # UseOf(c)'
    <3>1. c \in DOMAIN codes /\ d \in DOMAIN codes /\ d \in c + 1..Len(codes)
      BY <1>7, <2>0, <2>1
    <3>2. QED
      BY <1>4, <1>11, <2>1, <3>1 DEF AuthInv, LastIsLive
  <2>2. \A q \in Requests : req'[q].at = "inserting" =>
           req[q].at = "inserting" /\ IssuesFor(q)' = IssuesFor(q)
    BY <1>10 DEF IssuesFor
  <2>3. ASSUME NEW q \in Requests, req'[q].at = "inserting", IssuesFor(q)' \notin raced'
        PROVE  /\ \A c \in DOMAIN codes' : Live(c)' => UseOf(c)' # IssuesFor(q)'
               /\ \A p \in Requests : req'[p].at = "inserting" /\ IssuesFor(p)' = IssuesFor(q)' => p = q
    BY <1>4, <1>7, <1>11, <2>2, <2>3 DEF AuthInv, LastIsLive
  <2>4. QED
    BY <2>1, <2>3 DEF LastIsLive
<1>15. QED
  BY <1>9, <1>13, <1>14 DEF AuthInv

(* A code expires.                                                         *)
LEMMA ExpireKeeps == ASSUME AuthInv, NEW old \in DOMAIN codes, Expire(old) PROVE AuthInv'
<1>1. /\ codes \in Seq(Codes) /\ codes[old] \in Codes /\ \A c \in DOMAIN codes : codes[c] \in Codes
      /\ Len(codes) \in Nat /\ DOMAIN codes = 1..Len(codes)
  BY DEF AuthInv, AuthTypeOK
<1>2. UNCHANGED <<texted, req, conns, shared, raced>>
  BY DEF Expire
<1>3. PICK code : code = [codes[old] EXCEPT !.state = "expired"]
  OBVIOUS
<1>4. /\ code \in Codes /\ code.user = codes[old].user /\ code.purpose = codes[old].purpose
      /\ code.state = "expired" /\ code.accepted = codes[old].accepted
  BY <1>1, <1>3 DEF Codes
<1>5. codes' = [codes EXCEPT ![old] = code]
  BY <1>3 DEF Expire
<1>6. /\ codes' \in Seq(Codes) /\ DOMAIN codes' = DOMAIN codes /\ Len(codes') = Len(codes)
      /\ codes'[old] = code /\ \A c \in DOMAIN codes \ {old} : codes'[c] = codes[c]
  BY <1>1, <1>4, <1>5
<1>7. \A c \in DOMAIN codes : /\ UseOf(c)' = UseOf(c) /\ (Live(c)' => Live(c))
                              /\ codes'[c].accepted = codes[c].accepted
  BY <1>4, <1>6 DEF UseOf, Live
<1>8. AuthTypeOK'
  BY <1>2, <1>6 DEF AuthInv, AuthTypeOK
<1>9. RequestsFit'
  BY <1>2, <1>6 DEF AuthInv, RequestsFit
<1>10. AcceptedOnce'
  <2>1. \A c \in DOMAIN codes' : /\ Live(c)' => codes'[c].accepted = 0
                                 /\ c \notin shared' => codes'[c].accepted <= 1
    BY <1>2, <1>6, <1>7 DEF AuthInv, AcceptedOnce
  <2>2. \A q \in Requests : req'[q].at = "marking" => req[q].code \in DOMAIN codes
    BY <1>2 DEF AuthInv, RequestsFit, Fits
  <2>3. \A q \in Requests : req'[q].at = "marking" /\ req'[q].code \notin shared' =>
           /\ codes'[req'[q].code].accepted = 0
           /\ \A p \in Requests : req'[p].at = "marking" /\ req'[p].code = req'[q].code => p = q
    BY <1>2, <1>7, <2>2 DEF AuthInv, AcceptedOnce
  <2>4. QED
    BY <2>1, <2>3 DEF AcceptedOnce
<1>11. LastIsLive'
  <2>1. ASSUME NEW c \in DOMAIN codes', Live(c)', UseOf(c)' \notin raced', NEW d \in c + 1..Len(codes')
        PROVE  UseOf(d)' # UseOf(c)'
    <3>1. c \in DOMAIN codes /\ d \in DOMAIN codes /\ d \in c + 1..Len(codes)
      BY <1>1, <1>6, <2>1
    <3>2. QED
      BY <1>2, <1>7, <2>1, <3>1 DEF AuthInv, LastIsLive
  <2>2. \A q \in Requests : IssuesFor(q)' = IssuesFor(q)
    BY <1>2 DEF IssuesFor
  <2>3. ASSUME NEW q \in Requests, req'[q].at = "inserting", IssuesFor(q)' \notin raced'
        PROVE  /\ \A c \in DOMAIN codes' : Live(c)' => UseOf(c)' # IssuesFor(q)'
               /\ \A p \in Requests : req'[p].at = "inserting" /\ IssuesFor(p)' = IssuesFor(q)' => p = q
    BY <1>2, <1>6, <1>7, <2>2, <2>3 DEF AuthInv, LastIsLive
  <2>4. QED
    BY <2>1, <2>3 DEF LastIsLive
<1>12. QED
  BY <1>8, <1>9, <1>10, <1>11 DEF AuthInv

(* The server stops: its requests are gone, and so are their connections.  *)
LEMMA ServerStopsKeeps == ASSUME AuthInv, ServerStops PROVE AuthInv'
<1>1. \A r \in Requests : req'[r] = Idle /\ conns'[r] = 0
  BY DEF ServerStops
<1>2. UNCHANGED <<codes, texted, shared, raced>>
  BY DEF ServerStops, NoCodeStep
<1>3. Idle.at = "idle" /\ Idle \in AuthRequests /\ Needed(Idle) = 0 /\ Fits(Idle, DOMAIN codes)
  BY IdleFits DEF Idle
<1>4. req' \in [Requests -> AuthRequests] /\ conns' \in [Requests -> 0..2]
  BY <1>3 DEF ServerStops
<1>5. AuthTypeOK'
  BY <1>2, <1>4 DEF AuthInv, AuthTypeOK, AuthRequests
<1>6. RequestsFit'
  BY <1>1, <1>2, <1>3 DEF RequestsFit
<1>7. \A r \in Requests : req'[r].at \notin {"marking", "inserting"}
  BY <1>1, <1>3
<1>8. AcceptedOnce'
  BY <1>2, <1>7 DEF AuthInv, AcceptedOnce, Live
<1>9. LastIsLive'
  <2>1. \A c : Live(c)' = Live(c) /\ UseOf(c)' = UseOf(c)
    BY <1>2 DEF Live, UseOf
  <2>2. QED
    BY <1>2, <1>7, <2>1 DEF AuthInv, LastIsLive
<1>10. QED
  BY <1>5, <1>6, <1>8, <1>9 DEF AuthInv

(* No code, no request.                                                    *)
LEMMA AuthInitHolds == AuthInit => AuthInv
<1> SUFFICES ASSUME AuthInit PROVE AuthInv
  OBVIOUS
<1>1. codes = <<>> /\ texted = {} /\ shared = {} /\ raced = {} /\ DOMAIN codes = {}
  BY DEF AuthInit
<1>2. \A r \in Requests : req[r] = Idle /\ conns[r] = 0
  BY DEF AuthInit
<1>3. Idle.at = "idle" /\ Idle \in AuthRequests /\ Needed(Idle) = 0 /\ Fits(Idle, DOMAIN codes)
  BY IdleFits DEF Idle
<1>4. req \in [Requests -> AuthRequests] /\ conns \in [Requests -> 0..2]
  BY <1>3 DEF AuthInit
<1>5. AuthTypeOK
  BY <1>1, <1>4 DEF AuthTypeOK, AuthRequests
<1>6. RequestsFit
  BY <1>2, <1>3 DEF RequestsFit
<1>7. AcceptedOnce /\ LastIsLive
  BY <1>1, <1>2, <1>3 DEF AcceptedOnce, LastIsLive
<1>8. QED
  BY <1>5, <1>6, <1>7 DEF AuthInv

(* A step that changes nothing.                                            *)
LEMMA AuthStutterKeeps == ASSUME AuthInv, UNCHANGED authVars PROVE AuthInv'
<1>1. UNCHANGED <<codes, texted, req, conns, shared, raced>>
  BY DEF authVars
<1>2. AuthTypeOK' /\ RequestsFit'
  BY <1>1 DEF AuthInv, AuthTypeOK, RequestsFit
<1>3. AcceptedOnce'
  BY <1>1 DEF AuthInv, AcceptedOnce, Live
<1>4. /\ \A c : Live(c)' = Live(c) /\ UseOf(c)' = UseOf(c)
      /\ \A r \in Requests : IssuesFor(r)' = IssuesFor(r)
  BY <1>1 DEF Live, UseOf, IssuesFor
<1>5. LastIsLive'
  BY <1>1, <1>4 DEF AuthInv, LastIsLive
<1>6. QED
  BY <1>2, <1>3, <1>5 DEF AuthInv

(* Every action keeps the invariant.                                       *)
LEMMA AuthNextKeeps == ASSUME AuthInv, [AuthNext]_authVars PROVE AuthInv'
<1>1. ASSUME NEW r \in Requests,
             \/ \E kind \in Kinds, u \in Users : Asks(r, kind, u)
             \/ \E kind \in Kinds, c \in texted : Enters(r, kind, c)
             \/ Handles(r)
      PROVE  AuthInv'
  <2>1. CASE IssueStart(r)
    BY <2>1, IssueStartKeeps
  <2>2. CASE IssueInsert(r)
    BY <2>2, IssueInsertKeeps
  <2>3. CASE ConsumeRead(r)
    BY <2>3, ConsumeReadKeeps
  <2>4. CASE MarkEnds(r) \/ MarkLogin(r)
    BY <2>4, MarkKeeps
  <2>5. CASE \/ \E kind \in Kinds, u \in Users : Asks(r, kind, u)
             \/ \E kind \in Kinds, c \in texted : Enters(r, kind, c)
             \/ LoginRead(r) \/ LoginRefused(r) \/ ForgotRead(r) \/ ForgotNobody(r)
             \/ Text(r) \/ TextFails(r) \/ ConsumeStart(r) \/ ConsumeRefused(r) \/ NameTenant(r)
    BY <2>5, PlainSteps
  <2>6. QED
    BY <1>1, <2>1, <2>2, <2>3, <2>4, <2>5 DEF Handles
<1>2. ASSUME NEW c \in DOMAIN codes, Expire(c) PROVE AuthInv'
  BY <1>2, ExpireKeeps
<1>3. CASE ServerStops
  BY <1>3, ServerStopsKeeps
<1>4. CASE UNCHANGED authVars
  BY <1>4, AuthStutterKeeps
<1>5. QED
  BY <1>1, <1>2, <1>3, <1>4 DEF AuthNext

(***************************************************************************)
(* The invariant of login and forgotten passwords, for any users, any      *)
(* number of requests and any pool: what a request holds and is about fits *)
(* its step, what two requests did not consume at once was accepted once   *)
(* at most, and of a use not issued for twice at once the last code is the *)
(* live one (TenantAuthService.issueOtp and consumeOtp).                   *)
(***************************************************************************)
THEOREM AuthInvariant == AuthSpec => []AuthInv
<1>1. AuthInit => AuthInv
  BY AuthInitHolds
<1>2. AuthInv /\ [AuthNext]_authVars => AuthInv'
  BY AuthNextKeeps
<1>3. QED
  BY <1>1, <1>2, PTL DEF AuthSpec

(***************************************************************************)
(* Type correctness: a text message is about a code that exists, and no    *)
(* request ever holds a third connection or gives back one it has not.     *)
(***************************************************************************)
THEOREM AuthTypeCorrect == AuthSpec => []AuthTypeOK
<1>1. AuthInv => AuthTypeOK
  BY DEF AuthInv
<1>2. QED
  BY <1>1, AuthInvariant, PTL

(***************************************************************************)
(* A code is accepted once unless two requests consumed it at once, and    *)
(* only the last code of a user and purpose is live unless two were issued *)
(* at once (issueOtp, consumeOtp).                                         *)
(***************************************************************************)
THEOREM CodesAreAcceptedOnce == AuthSpec => []OneCodeOnce
<1>1. ASSUME AuthInv PROVE OneCodeOnce
  <2>1. ASSUME NEW c \in DOMAIN codes, codes[c].accepted > 1 PROVE c \in shared
    <3>1. codes[c] \in Codes
      BY <1>1, <2>1 DEF AuthInv, AuthTypeOK
    <3>2. QED
      BY <1>1, <2>1, <3>1 DEF AuthInv, AcceptedOnce, Codes
  <2>2. ASSUME NEW c \in DOMAIN codes, Live(c), <<codes[c].user, codes[c].purpose>> \notin raced,
               NEW d \in c + 1..Len(codes)
        PROVE  ~SameUse(d, codes[c].user, codes[c].purpose)
    <3>1. UseOf(d) # UseOf(c)
      BY <1>1, <2>2 DEF AuthInv, LastIsLive, UseOf
    <3>2. QED
      BY <3>1 DEF UseOf, SameUse
  <2>3. QED
    BY <2>1, <2>2 DEF OneCodeOnce
<1>2. QED
  BY <1>1, AuthInvariant, PTL

-----------------------------------------------------------------------------
(* The payments taken in on a phone: the inductive invariant. *)

Undecided(p) == {r \in requests : r.pay = p /\ r.outcome = "none"}

(***************************************************************************)
(* Who waits for an answer is at the step of waiting, two never wait for   *)
(* the same payment, and what nobody waits for is undecided.               *)
(***************************************************************************)
WaitingAgrees ==
    /\ \A r \in requests :
         /\ r.by = "nobody" => r.outcome = "none"
         /\ r.by = "screen" => screen[r.pay] = "posting"
         /\ r.by \in Syncs => r.pay \in syncs[r.by].posting
    /\ \A r, q \in requests : r.pay = q.pay /\ r.by # "nobody" /\ q.by # "nobody" => r = q

(***************************************************************************)
(* One sync runs at a time; what it has still to post and what it posts    *)
(* is pending on the phone; and a payment on the phone has left the screen. *)
(***************************************************************************)
SyncsAgree ==
    /\ \A j, k \in Syncs : syncs[j].running /\ syncs[k].running => j = k
    /\ \A k \in Syncs :
         /\ ~syncs[k].running => syncs[k].left = {} /\ syncs[k].posting = {}
         /\ syncs[k].left \cap syncs[k].posting = {}
         /\ \A p \in syncs[k].left \cup syncs[k].posting : stored[p] = "pending"
         /\ \A p, q \in syncs[k].posting : p = q
    /\ \A p \in Captures : stored[p] # "none" => screen[p] = "done"

(***************************************************************************)
(* A payment may still be sent, once, while it is neither done with nor    *)
(* awaited.  What was recorded, what may still be recorded and what may    *)
(* still be sent are together no more than one and what was given up.      *)
(***************************************************************************)
Sendable(p) ==
    /\ screen[p] \in {"new", "posting", "saving"} \/ stored[p] \in {"pending", "failed"}
    /\ \A r \in requests : r.pay = p /\ r.by # "nobody" => r.outcome = "error"

Bounded(p) ==
    /\ IsFiniteSet(Undecided(p))
    /\ recorded[p] + Cardinality(Undecided(p)) + (IF Sendable(p) THEN 1 ELSE 0) <= 1 + unsure[p]

\* What was accepted was recorded.
AcceptedIsRecorded == \A r \in requests : r.outcome = "ok" => recorded[r.pay] > 0

SyncInv ==
    /\ SyncTypeOK
    /\ WaitingAgrees
    /\ SyncsAgree
    /\ AcceptedIsRecorded
    /\ CapturedIsKept
    /\ \A p \in Captures : Bounded(p)

-----------------------------------------------------------------------------
(* Counting the undecided requests of one payment. *)

LEMMA NoMore ==
    ASSUME NEW S, IsFiniteSet(S), NEW T, T \subseteq S
    PROVE  IsFiniteSet(T) /\ Cardinality(T) \in Nat /\ Cardinality(T) <= Cardinality(S)
<1>1. T \in SUBSET S
  OBVIOUS
<1>2. IsFiniteSet(T) /\ Cardinality(T) <= Cardinality(S)
  BY <1>1, FS_Subset
<1>3. QED
  BY <1>2, FS_CardinalityType

LEMMA OneMore ==
    ASSUME NEW S, IsFiniteSet(S), NEW x, NEW T, T \subseteq S \cup {x}
    PROVE  IsFiniteSet(T) /\ Cardinality(T) \in Nat /\ Cardinality(T) <= Cardinality(S) + 1
<1>1. /\ IsFiniteSet(S \cup {x})
      /\ Cardinality(S \cup {x}) = IF x \in S THEN Cardinality(S) ELSE Cardinality(S) + 1
  BY FS_AddElement
<1>2. Cardinality(S) \in Nat
  BY FS_CardinalityType
<1>3. IsFiniteSet(T) /\ Cardinality(T) \in Nat /\ Cardinality(T) <= Cardinality(S \cup {x})
  BY <1>1, NoMore
<1>4. QED
  BY <1>1, <1>2, <1>3

LEMMA OneLess ==
    ASSUME NEW S, IsFiniteSet(S), NEW x \in S, NEW T, T \subseteq S \ {x}
    PROVE  IsFiniteSet(T) /\ Cardinality(T) \in Nat /\ Cardinality(T) <= Cardinality(S) - 1
<1>1. IsFiniteSet(S \ {x}) /\ Cardinality(S \ {x}) = Cardinality(S) - 1
  BY FS_RemoveElement
<1>2. Cardinality(S) \in Nat /\ Cardinality(S \ {x}) \in Nat
  BY <1>1, FS_CardinalityType
<1>3. QED
  BY <1>1, <1>2, NoMore

LEMMA RequestReplaced ==
    ASSUME NEW S, IsFiniteSet(S), NEW x \in S, NEW y, NEW T, T \subseteq (S \ {x}) \cup {y}
    PROVE  IsFiniteSet(T) /\ Cardinality(T) \in Nat /\ Cardinality(T) <= Cardinality(S)
<1>1. /\ IsFiniteSet(S \ {x}) /\ Cardinality(S \ {x}) \in Nat
      /\ Cardinality(S) \in Nat /\ Cardinality(S \ {x}) <= Cardinality(S) - 1
  BY OneLess, FS_CardinalityType
<1>2. IsFiniteSet(T) /\ Cardinality(T) \in Nat /\ Cardinality(T) <= Cardinality(S \ {x}) + 1
  BY <1>1, OneMore
<1>3. QED
  BY <1>1, <1>2

(* Bounded of a payment of which no more is recorded, undecided or to be sent. *)
LEMMA BoundedKept ==
    ASSUME SyncInv, NEW p \in Captures,
           IsFiniteSet(Undecided(p)'), Cardinality(Undecided(p)') \in Nat,
           Cardinality(Undecided(p)') <= Cardinality(Undecided(p)),
           UNCHANGED <<recorded[p], unsure[p]>>,
           Sendable(p)' => Sendable(p)
    PROVE  Bounded(p)'
<1>1. recorded[p] \in Nat /\ unsure[p] \in Nat /\ Cardinality(Undecided(p)) \in Nat
  BY FS_CardinalityType DEF SyncInv, SyncTypeOK, Bounded
<1>2. recorded[p] + Cardinality(Undecided(p)) + (IF Sendable(p) THEN 1 ELSE 0) <= 1 + unsure[p]
  BY DEF SyncInv, Bounded
<1>3. recorded'[p] + Cardinality(Undecided(p)') + (IF Sendable(p)' THEN 1 ELSE 0) <= 1 + unsure'[p]
  BY <1>1, <1>2
<1>4. QED
  BY <1>3 DEF Bounded

\* A request whose outcome the phone will never know makes room for one more.
LEMMA BoundedUnsure ==
    ASSUME SyncInv, NEW p \in Captures,
           IsFiniteSet(Undecided(p)'), Cardinality(Undecided(p)') \in Nat,
           Cardinality(Undecided(p)') <= Cardinality(Undecided(p)),
           UNCHANGED recorded[p], unsure'[p] = unsure[p] + 1
    PROVE  Bounded(p)'
<1>1. recorded[p] \in Nat /\ unsure[p] \in Nat /\ Cardinality(Undecided(p)) \in Nat
  BY FS_CardinalityType DEF SyncInv, SyncTypeOK, Bounded
<1>2. recorded[p] + Cardinality(Undecided(p)) + (IF Sendable(p) THEN 1 ELSE 0) <= 1 + unsure[p]
  BY DEF SyncInv, Bounded
<1>3. recorded'[p] + Cardinality(Undecided(p)') + (IF Sendable(p)' THEN 1 ELSE 0) <= 1 + unsure'[p]
  BY <1>1, <1>2
<1>4. QED
  BY <1>3 DEF Bounded

\* Sending uses up what could be sent.
LEMMA BoundedSent ==
    ASSUME SyncInv, NEW p \in Captures, Sendable(p), ~Sendable(p)',
           IsFiniteSet(Undecided(p)'), Cardinality(Undecided(p)') \in Nat,
           Cardinality(Undecided(p)') <= Cardinality(Undecided(p)) + 1,
           UNCHANGED <<recorded[p], unsure[p]>>
    PROVE  Bounded(p)'
<1>1. recorded[p] \in Nat /\ unsure[p] \in Nat /\ Cardinality(Undecided(p)) \in Nat
  BY FS_CardinalityType DEF SyncInv, SyncTypeOK, Bounded
<1>2. recorded[p] + Cardinality(Undecided(p)) + 1 <= 1 + unsure[p]
  BY DEF SyncInv, Bounded
<1>3. recorded'[p] + Cardinality(Undecided(p)') + (IF Sendable(p)' THEN 1 ELSE 0) <= 1 + unsure'[p]
  BY <1>1, <1>2
<1>4. QED
  BY <1>3 DEF Bounded

-----------------------------------------------------------------------------
LEMMA InitEstablishesSyncInv == SyncInit => SyncInv
<1> SUFFICES ASSUME SyncInit PROVE SyncInv
  OBVIOUS
<1>1. SyncTypeOK
  BY OfflineSyncAssumption DEF SyncInit, SyncTypeOK, NotRunning
<1>2. WaitingAgrees /\ AcceptedIsRecorded
  BY DEF SyncInit, WaitingAgrees, AcceptedIsRecorded
<1>3. SyncsAgree
  BY DEF SyncInit, SyncsAgree, NotRunning
<1>4. CapturedIsKept
  BY DEF SyncInit, CapturedIsKept
<1>5. ASSUME NEW p \in Captures PROVE Bounded(p)
  <2>1. Undecided(p) = {} /\ recorded[p] = 0 /\ unsure[p] = 0
    BY DEF SyncInit, Undecided
  <2>2. QED
    BY <2>1, FS_EmptySet DEF Bounded
<1>6. QED
  BY <1>1, <1>2, <1>3, <1>4, <1>5 DEF SyncInv

(* The server. *)

\* A decision touches one request, and what its caller, if any, waits for is known.
LEMMA DecidedFacts ==
    ASSUME SyncInv, NEW r \in requests, NEW outcome \in {"ok", "error"}, Decided(r, outcome)
    PROVE  /\ requests' \subseteq SyncRequests
           /\ WaitingAgrees' /\ SyncsAgree'
           /\ r \in SyncRequests /\ r \in Undecided(r.pay)
           /\ \A p \in Captures : Undecided(p)' = IF p = r.pay THEN Undecided(p) \ {r} ELSE Undecided(p)
           /\ \A x \in requests' : x \in requests \/ (x.pay = r.pay /\ x.outcome = outcome)
           /\ \A p \in Captures : p # r.pay \/ r.by = "nobody" => (Sendable(p)' <=> Sendable(p))
           /\ r.by # "nobody" => ~Sendable(r.pay)
           /\ outcome = "ok" => ~Sendable(r.pay)' \/ r.by = "nobody"
           /\ UNCHANGED <<stored, screen, syncs, unsure, syncFaults, retries>>
<1> DEFINE new == [r EXCEPT !.outcome = outcome]
<1>1. r \in SyncRequests /\ r.outcome = "none"
  BY DEF SyncInv, SyncTypeOK, Decided
<1>2. /\ new \in SyncRequests /\ new.pay = r.pay /\ new.by = r.by /\ new.outcome = outcome
      /\ requests' = (requests \ {r}) \cup (IF r.by = "nobody" THEN {} ELSE {new})
  BY <1>1 DEF Decided, SyncRequests
<1>3. UNCHANGED <<stored, screen, syncs, unsure, syncFaults, retries>>
  BY DEF Decided
<1>4. requests' \subseteq SyncRequests
  BY <1>2 DEF SyncInv, SyncTypeOK
<1>5. WaitingAgrees'
  <2> HIDE DEF new
  <2>1. \A x \in requests' : \/ x \in requests /\ x # r
                             \/ r.by # "nobody" /\ x = new /\ x.pay = r.pay /\ x.by = r.by
    BY <1>1, <1>2
  <2>2. WaitingAgrees
    BY DEF SyncInv
  <2>3. \A x \in requests' :
           /\ x.by = "nobody" => x.outcome = "none"
           /\ x.by = "screen" => screen'[x.pay] = "posting"
           /\ x.by \in Syncs => x.pay \in syncs'[x.by].posting
    BY <1>3, <2>1, <2>2 DEF WaitingAgrees
  <2>4. \A x, y \in requests' : x.pay = y.pay /\ x.by # "nobody" /\ y.by # "nobody" => x = y
    BY <2>1, <2>2 DEF WaitingAgrees
  <2>5. QED
    BY <2>3, <2>4 DEF WaitingAgrees
<1>6. SyncsAgree'
  BY <1>3 DEF SyncInv, SyncsAgree
<1>7. \A p \in Captures : Undecided(p)' = IF p = r.pay THEN Undecided(p) \ {r} ELSE Undecided(p)
  BY <1>1, <1>2 DEF Undecided
<1>8. \A p \in Captures : p # r.pay \/ r.by = "nobody" => (Sendable(p)' <=> Sendable(p))
  BY <1>1, <1>2, <1>3 DEF Sendable
<1>9. /\ r.by # "nobody" => ~Sendable(r.pay)
      /\ outcome = "ok" => ~Sendable(r.pay)' \/ r.by = "nobody"
  BY <1>1, <1>2 DEF Sendable
<1>10. r \in Undecided(r.pay)
  BY <1>1 DEF Undecided
<1>11. \A x \in requests' : x \in requests \/ (x.pay = r.pay /\ x.outcome = outcome)
  BY <1>2
<1>12. QED
  BY <1>1, <1>3, <1>4, <1>5, <1>6, <1>7, <1>8, <1>9, <1>10, <1>11

LEMMA RecordsKeepsIInv ==
    ASSUME SyncInv, NEW r \in requests, ServerRecords(r)
    PROVE  SyncInv'
<1> DEFINE p == r.pay
<1>1. Decided(r, "ok")
  BY DEF ServerRecords
<1>2. /\ requests' \subseteq SyncRequests
      /\ WaitingAgrees' /\ SyncsAgree'
      /\ r \in SyncRequests /\ r \in Undecided(r.pay)
      /\ \A x \in Captures : Undecided(x)' = IF x = r.pay THEN Undecided(x) \ {r} ELSE Undecided(x)
      /\ \A x \in requests' : x \in requests \/ (x.pay = r.pay /\ x.outcome = "ok")
      /\ \A x \in Captures : x # r.pay \/ r.by = "nobody" => (Sendable(x)' <=> Sendable(x))
      /\ ~Sendable(r.pay)' \/ r.by = "nobody"
      /\ UNCHANGED <<stored, screen, syncs, unsure, syncFaults, retries>>
  BY <1>1, DecidedFacts
<1>3. p \in Captures /\ recorded \in [Captures -> Nat]
  BY <1>2 DEF SyncInv, SyncTypeOK, SyncRequests
<1>4. /\ recorded' \in [Captures -> Nat]
      /\ \A x \in Captures : recorded'[x] = IF x = p THEN recorded[x] + 1 ELSE recorded[x]
  BY <1>3 DEF ServerRecords
<1>5. SyncTypeOK'
  BY <1>2, <1>4 DEF SyncInv, SyncTypeOK
<1>6. AcceptedIsRecorded'
  <2> SUFFICES ASSUME NEW x \in requests', x.outcome = "ok" PROVE recorded'[x.pay] > 0
    BY DEF AcceptedIsRecorded
  <2>1. x.pay \in Captures
    BY <1>2 DEF SyncRequests
  <2>2. CASE x.pay = p
    BY <1>3, <1>4, <2>2
  <2>3. CASE x.pay # p
    BY <1>2, <1>4, <2>1, <2>3 DEF SyncInv, AcceptedIsRecorded
  <2>4. QED
    BY <2>2, <2>3
<1>7. CapturedIsKept'
  <2>1. \A x \in Captures : recorded[x] > 0 => recorded'[x] > 0
    BY <1>3, <1>4
  <2>2. QED
    BY <1>2, <2>1 DEF SyncInv, CapturedIsKept
<1>8. ASSUME NEW x \in Captures PROVE Bounded(x)'
  <2>1. IsFiniteSet(Undecided(x)) /\ Cardinality(Undecided(x)) \in Nat
    BY FS_CardinalityType DEF SyncInv, Bounded
  <2>2. CASE x # p
    BY <1>2, <1>4, <2>1, <2>2, BoundedKept
  <2>3. CASE x = p
    <3>1. /\ IsFiniteSet(Undecided(x)') /\ Cardinality(Undecided(x)') \in Nat
          /\ Cardinality(Undecided(x)') <= Cardinality(Undecided(x)) - 1
      BY <1>2, <2>1, <2>3, OneLess
    <3>2. Sendable(x)' => Sendable(x)
      BY <1>2, <2>3
    <3>3. recorded[x] + Cardinality(Undecided(x)) + (IF Sendable(x) THEN 1 ELSE 0) <= 1 + unsure[x]
      BY DEF SyncInv, Bounded
    <3>4. recorded'[x] = recorded[x] + 1 /\ recorded[x] \in Nat /\ unsure'[x] = unsure[x] /\ unsure[x] \in Nat
      BY <1>2, <1>3, <1>4, <2>3 DEF SyncInv, SyncTypeOK
    <3>5. recorded'[x] + Cardinality(Undecided(x)') + (IF Sendable(x)' THEN 1 ELSE 0) <= 1 + unsure'[x]
      BY <2>1, <3>1, <3>2, <3>3, <3>4
    <3>6. QED
      BY <3>1, <3>5 DEF Bounded
  <2>4. QED
    BY <2>2, <2>3
<1>9. QED
  BY <1>2, <1>5, <1>6, <1>7, <1>8 DEF SyncInv

LEMMA NotRecordedKeepsIInv ==
    ASSUME SyncInv, NEW r \in requests, NotRecorded(r)
    PROVE  SyncInv'
<1>1. Decided(r, "error") /\ UNCHANGED recorded
  BY DEF NotRecorded
<1>2. /\ requests' \subseteq SyncRequests
      /\ WaitingAgrees' /\ SyncsAgree'
      /\ r \in SyncRequests /\ r \in Undecided(r.pay)
      /\ \A x \in Captures : Undecided(x)' = IF x = r.pay THEN Undecided(x) \ {r} ELSE Undecided(x)
      /\ \A x \in requests' : x \in requests \/ (x.pay = r.pay /\ x.outcome = "error")
      /\ \A x \in Captures : x # r.pay \/ r.by = "nobody" => (Sendable(x)' <=> Sendable(x))
      /\ UNCHANGED <<stored, screen, syncs, unsure, syncFaults, retries>>
  BY <1>1, DecidedFacts
<1>3. SyncTypeOK'
  BY <1>1, <1>2 DEF SyncInv, SyncTypeOK
<1>4. AcceptedIsRecorded' /\ CapturedIsKept'
  BY <1>1, <1>2 DEF SyncInv, AcceptedIsRecorded, CapturedIsKept
<1>5. ASSUME NEW x \in Captures PROVE Bounded(x)'
  <2>1. IsFiniteSet(Undecided(x)) /\ Cardinality(Undecided(x)) \in Nat
    BY FS_CardinalityType DEF SyncInv, Bounded
  <2>2. CASE x # r.pay
    BY <1>1, <1>2, <2>1, <2>2, BoundedKept
  <2>3. CASE x = r.pay
    <3>1. /\ IsFiniteSet(Undecided(x)') /\ Cardinality(Undecided(x)') \in Nat
          /\ Cardinality(Undecided(x)') <= Cardinality(Undecided(x)) - 1
      BY <1>2, <2>1, <2>3, OneLess
    <3>2. recorded[x] + Cardinality(Undecided(x)) <= 1 + unsure[x]
      BY <2>1 DEF SyncInv, Bounded, SyncTypeOK
    <3>3. recorded'[x] = recorded[x] /\ recorded[x] \in Nat /\ unsure'[x] = unsure[x] /\ unsure[x] \in Nat
      BY <1>1, <1>2 DEF SyncInv, SyncTypeOK
    <3>4. recorded'[x] + Cardinality(Undecided(x)') + (IF Sendable(x)' THEN 1 ELSE 0) <= 1 + unsure'[x]
      BY <2>1, <3>1, <3>2, <3>3
    <3>5. QED
      BY <3>1, <3>4 DEF Bounded
  <2>4. QED
    BY <2>2, <2>3
<1>6. QED
  BY <1>2, <1>3, <1>4, <1>5 DEF SyncInv

-----------------------------------------------------------------------------
(* Sending, and what an answer leaves. *)

\* Of a payment that nobody waits for, one request more is on its way.
LEMMA SentFacts ==
    ASSUME SyncInv, NEW p \in Captures, NEW caller \in Callers, Sent(p, caller),
           \A r \in requests : r.pay = p => r.by = "nobody",
           \A q \in Captures \ {p} : screen'[q] = screen[q] /\ stored'[q] = stored[q]
    PROVE  LET new == [pay |-> p, by |-> caller, outcome |-> "none", nr |-> 0]
           IN  /\ requests' \subseteq SyncRequests
               /\ new.pay = p /\ new.by = caller /\ new.outcome = "none" /\ caller # "nobody"
               /\ \A x \in requests' : x \in requests \/ x = new
               /\ \A x, y \in requests' : x.pay = y.pay /\ x.by # "nobody" /\ y.by # "nobody" => x = y
               /\ Undecided(p)' \subseteq Undecided(p) \cup {new}
               /\ ~Sendable(p)'
               /\ \A q \in Captures \ {p} : Undecided(q)' = Undecided(q) /\ (Sendable(q)' <=> Sendable(q))
<1> DEFINE new == [pay |-> p, by |-> caller, outcome |-> "none", nr |-> 0]
<1>1. new \in SyncRequests /\ caller # "nobody"
  BY OfflineSyncAssumption DEF SyncRequests, Callers
<1>2. requests' = requests \cup {new} /\ requests \subseteq SyncRequests
  BY DEF Sent, SyncInv, SyncTypeOK
<1>3. new.pay = p /\ new.by = caller /\ new.outcome = "none"
  OBVIOUS
<1> HIDE DEF new
<1>4. \A x, y \in requests' : x.pay = y.pay /\ x.by # "nobody" /\ y.by # "nobody" => x = y
  BY <1>2, <1>3 DEF SyncInv, WaitingAgrees
<1>5. Undecided(p)' \subseteq Undecided(p) \cup {new}
  BY <1>2 DEF Undecided
<1>6. ~Sendable(p)'
  BY <1>1, <1>2, <1>3 DEF Sendable
<1>7. ASSUME NEW q \in Captures \ {p}
      PROVE  Undecided(q)' = Undecided(q) /\ (Sendable(q)' <=> Sendable(q))
  BY <1>2, <1>3 DEF Undecided, Sendable
<1>8. requests' \subseteq SyncRequests
  BY <1>1, <1>2
<1>9. QED
  BY <1>1, <1>2, <1>3, <1>4, <1>5, <1>6, <1>7, <1>8 DEF new

\* Bounded after a payment was sent.
LEMMA SentKeepsBounded ==
    ASSUME SyncInv, NEW p \in Captures, Sendable(p), ~Sendable(p)', NEW new,
           Undecided(p)' \subseteq Undecided(p) \cup {new},
           \A q \in Captures \ {p} : Undecided(q)' = Undecided(q) /\ (Sendable(q)' <=> Sendable(q)),
           UNCHANGED <<recorded, unsure>>
    PROVE  \A q \in Captures : Bounded(q)'
<1> SUFFICES ASSUME NEW q \in Captures PROVE Bounded(q)'
  OBVIOUS
<1>1. IsFiniteSet(Undecided(q)) /\ Cardinality(Undecided(q)) \in Nat
  BY FS_CardinalityType DEF SyncInv, Bounded
<1>2. CASE q # p
  <2>1. Undecided(q)' = Undecided(q) /\ (Sendable(q)' <=> Sendable(q))
    BY <1>2
  <2>2. QED
    BY <1>1, <2>1, BoundedKept
<1>3. CASE q = p
  <2>1. /\ IsFiniteSet(Undecided(q)') /\ Cardinality(Undecided(q)') \in Nat
        /\ Cardinality(Undecided(q)') <= Cardinality(Undecided(q)) + 1
    BY <1>1, <1>3, OneMore
  <2>2. QED
    BY <1>3, <2>1, BoundedSent
<1>4. QED
  BY <1>2, <1>3

LEMMA CaptureKeepsIInv ==
    ASSUME SyncInv, NEW p \in Captures, Capture(p)
    PROVE  SyncInv'
<1> DEFINE new == [pay |-> p, by |-> "screen", outcome |-> "none", nr |-> 0]
<1>1. /\ Sent(p, "screen") /\ screen[p] = "new"
      /\ screen' = [screen EXCEPT ![p] = "posting"]
      /\ UNCHANGED <<stored, syncs, recorded, unsure, syncFaults, retries>>
  BY DEF Capture
<1>2. /\ screen' \in [Captures -> {"new", "posting", "saving", "done", "killed"}]
      /\ \A q \in Captures : screen'[q] = IF q = p THEN "posting" ELSE screen[q]
  BY <1>1 DEF SyncInv, SyncTypeOK
<1>3. stored[p] = "none"
  BY <1>1 DEF SyncInv, SyncsAgree
<1>4. \A r \in requests : r.pay = p => r.by = "nobody"
  <2> SUFFICES ASSUME NEW r \in requests, r.pay = p, r.by # "nobody" PROVE FALSE
    OBVIOUS
  <2>1. r.by \in Syncs \cup {"screen"}
    BY DEF SyncInv, SyncTypeOK, SyncRequests, Callers
  <2>2. r.by # "screen"
    BY <1>1 DEF SyncInv, WaitingAgrees
  <2>3. p \in syncs[r.by].posting
    BY <2>1, <2>2 DEF SyncInv, WaitingAgrees
  <2>4. QED
    BY <1>3, <2>1, <2>2, <2>3 DEF SyncInv, SyncsAgree
<1>5. "screen" \in Callers
  BY DEF Callers
<1>6. /\ requests' \subseteq SyncRequests
      /\ new.pay = p /\ new.by = "screen" /\ new.outcome = "none"
      /\ \A x \in requests' : x \in requests \/ x = new
      /\ \A x, y \in requests' : x.pay = y.pay /\ x.by # "nobody" /\ y.by # "nobody" => x = y
      /\ Undecided(p)' \subseteq Undecided(p) \cup {new}
      /\ ~Sendable(p)'
      /\ \A q \in Captures \ {p} : Undecided(q)' = Undecided(q) /\ (Sendable(q)' <=> Sendable(q))
  BY <1>1, <1>2, <1>4, <1>5, SentFacts
<1> HIDE DEF new
<1>7. SyncTypeOK'
  BY <1>1, <1>2, <1>6 DEF SyncInv, SyncTypeOK
<1>8. WaitingAgrees'
  <2>1. ASSUME NEW x \in requests'
        PROVE  /\ x.by = "nobody" => x.outcome = "none"
               /\ x.by = "screen" => screen'[x.pay] = "posting"
               /\ x.by \in Syncs => x.pay \in syncs'[x.by].posting
    <3>1. CASE x \in requests
      BY <1>1, <1>2, <3>1 DEF SyncInv, WaitingAgrees, SyncTypeOK, SyncRequests
    <3>2. CASE x = new
      BY <1>2, <1>6, <3>2, OfflineSyncAssumption
    <3>3. QED
      BY <1>6, <3>1, <3>2
  <2>2. QED
    BY <1>6, <2>1 DEF WaitingAgrees
<1>9. SyncsAgree'
  BY <1>1, <1>2, <1>3 DEF SyncInv, SyncsAgree
<1>10. AcceptedIsRecorded'
  BY <1>1, <1>6 DEF SyncInv, AcceptedIsRecorded
<1>11. CapturedIsKept'
  BY <1>1, <1>2 DEF SyncInv, CapturedIsKept
<1>12. Sendable(p)
  BY <1>1, <1>4 DEF Sendable
<1>13. \A q \in Captures : Bounded(q)'
  BY <1>1, <1>6, <1>12, SentKeepsBounded
<1>14. QED
  BY <1>7, <1>8, <1>9, <1>10, <1>11, <1>13 DEF SyncInv

LEMMA PostKeepsSyncInv ==
    ASSUME SyncInv, NEW k \in Syncs, NEW p \in Captures, SyncPost(k, p)
    PROVE  SyncInv'
<1> DEFINE new == [pay |-> p, by |-> k, outcome |-> "none", nr |-> 0]
           run == [syncs[k] EXCEPT !.posting = {p}, !.left = @ \ {p}]
<1>1. /\ Sent(p, k) /\ syncs[k].posting = {} /\ p \in syncs[k].left
      /\ UNCHANGED <<stored, screen, recorded, unsure, syncFaults, retries>>
  BY DEF SyncPost
<1>2. /\ run \in [running : BOOLEAN, left : SUBSET Captures, posting : SUBSET Captures]
      /\ run.posting = {p} /\ run.left = syncs[k].left \ {p} /\ run.running = syncs[k].running
  BY DEF SyncInv, SyncTypeOK
<1>3. /\ syncs' \in [Syncs -> [running : BOOLEAN, left : SUBSET Captures, posting : SUBSET Captures]]
      /\ \A j \in Syncs : syncs'[j] = IF j = k THEN run ELSE syncs[j]
  BY <1>2 DEF SyncPost, SyncInv, SyncTypeOK
<1>4. stored[p] = "pending" /\ screen[p] = "done" /\ syncs[k].running
  BY <1>1 DEF SyncInv, SyncsAgree, SyncTypeOK
<1>5. \A r \in requests : r.pay = p => r.by = "nobody"
  <2> SUFFICES ASSUME NEW r \in requests, r.pay = p, r.by # "nobody" PROVE FALSE
    OBVIOUS
  <2>1. r.by \in Syncs \cup {"screen"}
    BY DEF SyncInv, SyncTypeOK, SyncRequests, Callers
  <2>2. r.by # "screen"
    BY <1>4 DEF SyncInv, WaitingAgrees
  <2>3. p \in syncs[r.by].posting
    BY <2>1, <2>2 DEF SyncInv, WaitingAgrees
  <2>4. syncs[r.by].running
    BY <2>1, <2>2, <2>3 DEF SyncInv, SyncsAgree
  <2>5. r.by = k
    BY <1>4, <2>1, <2>2, <2>4 DEF SyncInv, SyncsAgree
  <2>6. QED
    BY <1>1, <2>3, <2>5
<1>6. k \in Callers
  BY DEF Callers
<1>7. /\ requests' \subseteq SyncRequests
      /\ new.pay = p /\ new.by = k /\ new.outcome = "none" /\ k # "nobody"
      /\ \A x \in requests' : x \in requests \/ x = new
      /\ \A x, y \in requests' : x.pay = y.pay /\ x.by # "nobody" /\ y.by # "nobody" => x = y
      /\ Undecided(p)' \subseteq Undecided(p) \cup {new}
      /\ ~Sendable(p)'
      /\ \A q \in Captures \ {p} : Undecided(q)' = Undecided(q) /\ (Sendable(q)' <=> Sendable(q))
  BY <1>1, <1>5, <1>6, SentFacts
<1> HIDE DEF new, run
<1>8. SyncTypeOK'
  BY <1>1, <1>3, <1>7 DEF SyncInv, SyncTypeOK
<1>9. WaitingAgrees'
  <2>1. ASSUME NEW x \in requests'
        PROVE  /\ x.by = "nobody" => x.outcome = "none"
               /\ x.by = "screen" => screen'[x.pay] = "posting"
               /\ x.by \in Syncs => x.pay \in syncs'[x.by].posting
    <3>1. CASE x \in requests
      <4>1. x.by # k
        BY <1>1, <3>1 DEF SyncInv, WaitingAgrees
      <4>2. QED
        BY <1>1, <1>3, <3>1, <4>1 DEF SyncInv, WaitingAgrees
    <3>2. CASE x = new
      BY <1>2, <1>3, <1>7, <3>2, OfflineSyncAssumption
    <3>3. QED
      BY <1>7, <3>1, <3>2
  <2>2. QED
    BY <1>7, <2>1 DEF WaitingAgrees
<1>10. SyncsAgree'
  <2>1. \A i, j \in Syncs : syncs'[i].running /\ syncs'[j].running => i = j
    BY <1>2, <1>3 DEF SyncInv, SyncsAgree
  <2>2. ASSUME NEW j \in Syncs
        PROVE  /\ ~syncs'[j].running => syncs'[j].left = {} /\ syncs'[j].posting = {}
               /\ syncs'[j].left \cap syncs'[j].posting = {}
               /\ \A q \in syncs'[j].left \cup syncs'[j].posting : stored'[q] = "pending"
               /\ \A q, x \in syncs'[j].posting : q = x
    <3>1. CASE j = k
      <4>1. syncs'[j] = run /\ run.posting = {p} /\ run.left = syncs[k].left \ {p} /\ run.running
        BY <1>2, <1>3, <1>4, <3>1
      <4>2. \A q \in syncs[k].left : stored[q] = "pending"
        BY DEF SyncInv, SyncsAgree
      <4>3. \A q \in syncs'[j].left \cup syncs'[j].posting : stored'[q] = "pending"
        BY <1>1, <1>4, <4>1, <4>2
      <4>4. QED
        BY <4>1, <4>3
    <3>2. CASE j # k
      <4>1. syncs'[j] = syncs[j] /\ stored' = stored
        BY <1>1, <1>3, <3>2
      <4>2. QED
        BY <4>1 DEF SyncInv, SyncsAgree
    <3>3. QED
      BY <3>1, <3>2
  <2>3. QED
    BY <1>1, <2>1, <2>2 DEF SyncInv, SyncsAgree
<1>11. AcceptedIsRecorded'
  BY <1>1, <1>7 DEF SyncInv, AcceptedIsRecorded
<1>12. CapturedIsKept'
  BY <1>1 DEF SyncInv, CapturedIsKept
<1>13. Sendable(p)
  BY <1>4, <1>5 DEF Sendable
<1>14. \A q \in Captures : Bounded(q)'
  BY <1>1, <1>7, <1>13, SentKeepsBounded
<1>15. QED
  BY <1>8, <1>9, <1>10, <1>11, <1>12, <1>14 DEF SyncInv

\* An answer that was awaited is gone; nothing else about requests changes.
LEMMA ConsumedFacts ==
    ASSUME SyncInv, NEW p \in Captures, NEW caller \in Callers, Consumed(p, caller),
           Awaited(p, caller) # {},
           \A q \in Captures \ {p} : screen'[q] = screen[q] /\ stored'[q] = stored[q]
    PROVE  /\ requests' \subseteq requests
           /\ \A x \in requests' : x.pay = p => x.by = "nobody"
           /\ \A q \in Captures : Undecided(q)' \subseteq Undecided(q)
           /\ \A q \in Captures \ {p} : Sendable(q)' <=> Sendable(q)
           /\ Got(p, caller, "error") /\ (screen[p] \in {"new", "posting", "saving"}
                                          \/ stored[p] \in {"pending", "failed"}) => Sendable(p)
<1>1. requests' = requests \ Awaited(p, caller)
  BY DEF Consumed
<1>2. PICK r \in requests : r.pay = p /\ r.by = caller /\ r.by # "nobody"
  BY OfflineSyncAssumption DEF Awaited, Callers
<1>3. \A x \in requests : x.pay = p /\ x.by # "nobody" => x = r
  BY <1>2 DEF SyncInv, WaitingAgrees
<1>4. \A x \in requests' : x.pay = p => x.by = "nobody"
  BY <1>1, <1>2, <1>3 DEF Awaited
<1>5. \A q \in Captures : Undecided(q)' \subseteq Undecided(q)
  BY <1>1 DEF Undecided
<1>6. ASSUME NEW q \in Captures \ {p} PROVE Sendable(q)' <=> Sendable(q)
  BY <1>1 DEF Sendable, Awaited
<1>7. Got(p, caller, "error") => r.outcome = "error"
  BY <1>2, <1>3 DEF Got, Awaited
<1>8. QED
  BY <1>1, <1>2, <1>3, <1>4, <1>5, <1>6, <1>7 DEF Sendable

\* Bounded where an answer ends the payment, or leaves it to be sent again.
LEMMA ConsumedKeepsBounded ==
    ASSUME SyncInv, NEW p \in Captures,
           \A q \in Captures : Undecided(q)' \subseteq Undecided(q),
           \A q \in Captures \ {p} : (Sendable(q)' <=> Sendable(q)) /\ unsure'[q] = unsure[q],
           UNCHANGED recorded,
           \/ unsure'[p] = unsure[p] + 1
           \/ unsure'[p] = unsure[p] /\ (Sendable(p)' => Sendable(p))
    PROVE  \A q \in Captures : Bounded(q)'
<1> SUFFICES ASSUME NEW q \in Captures PROVE Bounded(q)'
  OBVIOUS
<1>1. IsFiniteSet(Undecided(q)) /\ Undecided(q)' \subseteq Undecided(q)
  BY DEF SyncInv, Bounded
<1>2. /\ IsFiniteSet(Undecided(q)') /\ Cardinality(Undecided(q)') \in Nat
      /\ Cardinality(Undecided(q)') <= Cardinality(Undecided(q))
  BY <1>1, NoMore
<1>3. CASE unsure'[q] = unsure[q] /\ (Sendable(q)' => Sendable(q))
  BY <1>2, <1>3, BoundedKept
<1>4. CASE unsure'[q] = unsure[q] + 1
  BY <1>2, <1>4, BoundedUnsure
<1>5. QED
  BY <1>3, <1>4

\* The capture screen's payment was answered: with success, or it is to be saved.
LEMMA CaptureEndsKeepsIInv ==
    ASSUME SyncInv, NEW p \in Captures, CaptureDone(p) \/ CaptureFailed(p)
    PROVE  SyncInv'
<1> DEFINE to == IF Got(p, "screen", "ok") THEN "done" ELSE "saving"
<1>1. /\ screen[p] = "posting" /\ Consumed(p, "screen")
      /\ UNCHANGED <<stored, syncs, recorded, unsure, syncFaults, retries>>
  BY DEF CaptureDone, CaptureFailed
<1>2. \/ Got(p, "screen", "ok") /\ screen' = [screen EXCEPT ![p] = "done"]
      \/ Got(p, "screen", "error") /\ screen' = [screen EXCEPT ![p] = "saving"]
  BY DEF CaptureDone, CaptureFailed
<1>3. /\ screen' \in [Captures -> {"new", "posting", "saving", "done", "killed"}]
      /\ \A q \in Captures \ {p} : screen'[q] = screen[q]
      /\ \/ Got(p, "screen", "ok") /\ screen'[p] = "done"
         \/ Got(p, "screen", "error") /\ screen'[p] = "saving"
  BY <1>2 DEF SyncInv, SyncTypeOK
<1>4. stored[p] = "none"
  BY <1>1 DEF SyncInv, SyncsAgree
<1>5. Awaited(p, "screen") # {} /\ "screen" \in Callers
  BY <1>2 DEF Got, Callers
<1>6. /\ requests' \subseteq requests
      /\ \A x \in requests' : x.pay = p => x.by = "nobody"
      /\ \A q \in Captures : Undecided(q)' \subseteq Undecided(q)
      /\ \A q \in Captures \ {p} : Sendable(q)' <=> Sendable(q)
      /\ Got(p, "screen", "error") => Sendable(p)
  BY <1>1, <1>3, <1>5, ConsumedFacts
<1>7. SyncTypeOK'
  BY <1>1, <1>3, <1>6 DEF SyncInv, SyncTypeOK
<1>8. WaitingAgrees'
  <2>1. ASSUME NEW x \in requests', x.by = "screen" PROVE screen'[x.pay] = "posting"
    <3>1. x.pay \in Captures /\ x.pay # p
      BY <1>6, <2>1 DEF SyncInv, SyncTypeOK, SyncRequests
    <3>2. QED
      BY <1>3, <1>6, <2>1, <3>1 DEF SyncInv, WaitingAgrees
  <2>2. QED
    BY <1>1, <1>6, <2>1 DEF SyncInv, WaitingAgrees
<1>9. SyncsAgree'
  BY <1>1, <1>3, <1>4 DEF SyncInv, SyncsAgree
<1>10. AcceptedIsRecorded'
  BY <1>1, <1>6 DEF SyncInv, AcceptedIsRecorded
<1>11. CapturedIsKept'
  <2>1. Got(p, "screen", "ok") => recorded[p] > 0
    BY DEF Got, Awaited, SyncInv, AcceptedIsRecorded
  <2>2. QED
    BY <1>1, <1>3, <2>1 DEF SyncInv, CapturedIsKept
<1>12. Sendable(p)' => Sendable(p)
  BY <1>1, <1>3, <1>4, <1>6 DEF Sendable
<1>13. \A q \in Captures : Bounded(q)'
  BY <1>1, <1>6, <1>12, ConsumedKeepsBounded
<1>14. QED
  BY <1>7, <1>8, <1>9, <1>10, <1>11, <1>13 DEF SyncInv

\* So was the payment a sync posts: it is synced or failed.
LEMMA SettleKeepsIInv ==
    ASSUME SyncInv, NEW k \in Syncs, NEW p \in Captures, NEW status \in {"synced", "failed"},
           p \in syncs[k].posting, Settle(k, p, status), Awaited(p, k) # {},
           status = "synced" => Got(p, k, "ok"),
           syncFaults' \in 0..MaxSyncFaults,
           \/ unsure' = [unsure EXCEPT ![p] = @ + 1]
           \/ unsure' = unsure /\ (status = "failed" => Got(p, k, "error"))
    PROVE  SyncInv'
<1> DEFINE run == [syncs[k] EXCEPT !.posting = {}]
<1>1. UNCHANGED <<screen, recorded, retries>> /\ Consumed(p, k)
  BY DEF Settle
<1>2. /\ stored' \in [Captures -> {"none", "pending", "synced", "failed"}]
      /\ \A q \in Captures : stored'[q] = IF q = p THEN status ELSE stored[q]
  BY DEF Settle, SyncInv, SyncTypeOK
<1>3. /\ run \in [running : BOOLEAN, left : SUBSET Captures, posting : SUBSET Captures]
      /\ run.posting = {} /\ run.left = syncs[k].left /\ run.running = syncs[k].running
  BY DEF SyncInv, SyncTypeOK
<1>4. /\ syncs' \in [Syncs -> [running : BOOLEAN, left : SUBSET Captures, posting : SUBSET Captures]]
      /\ \A j \in Syncs : syncs'[j] = IF j = k THEN run ELSE syncs[j]
  BY <1>3 DEF Settle, SyncInv, SyncTypeOK
<1> HIDE DEF run
<1>5. stored[p] = "pending" /\ screen[p] = "done" /\ p \notin syncs[k].left /\ syncs[k].running
  BY DEF SyncInv, SyncsAgree, SyncTypeOK
<1>6. /\ unsure' \in [Captures -> Nat]
      /\ \A q \in Captures \ {p} : unsure'[q] = unsure[q]
      /\ \/ unsure'[p] = unsure[p] + 1
         \/ unsure'[p] = unsure[p] /\ (status = "failed" => Got(p, k, "error"))
  BY DEF SyncInv, SyncTypeOK
<1>7. /\ requests' \subseteq requests
      /\ \A x \in requests' : x.pay = p => x.by = "nobody"
      /\ \A q \in Captures : Undecided(q)' \subseteq Undecided(q)
      /\ \A q \in Captures \ {p} : Sendable(q)' <=> Sendable(q)
      /\ Got(p, k, "error") => Sendable(p)
  <2>1. k \in Callers
    BY DEF Callers
  <2>2. \A q \in Captures \ {p} : screen'[q] = screen[q] /\ stored'[q] = stored[q]
    BY <1>1, <1>2
  <2>3. QED
    BY <1>1, <1>5, <2>1, <2>2, ConsumedFacts
<1>8. SyncTypeOK'
  BY <1>1, <1>2, <1>4, <1>6, <1>7 DEF SyncInv, SyncTypeOK
<1>9. WaitingAgrees'
  <2>1. ASSUME NEW x \in requests', x.by \in Syncs PROVE x.pay \in syncs'[x.by].posting
    <3>1. x \in requests /\ x.by # "nobody" /\ x.pay \in syncs[x.by].posting
      BY <1>7, <2>1, OfflineSyncAssumption DEF SyncInv, WaitingAgrees
    <3>2. x.by # k
      BY <1>7, <3>1 DEF SyncInv, SyncsAgree
    <3>3. QED
      BY <1>4, <2>1, <3>1, <3>2
  <2>2. QED
    BY <1>1, <1>7, <2>1 DEF SyncInv, WaitingAgrees
<1>10. SyncsAgree'
  <2>1. \A i, j \in Syncs : syncs'[i].running /\ syncs'[j].running => i = j
    BY <1>3, <1>4 DEF SyncInv, SyncsAgree
  <2>2. ASSUME NEW j \in Syncs
        PROVE  /\ ~syncs'[j].running => syncs'[j].left = {} /\ syncs'[j].posting = {}
               /\ syncs'[j].left \cap syncs'[j].posting = {}
               /\ \A q \in syncs'[j].left \cup syncs'[j].posting : stored'[q] = "pending"
               /\ \A q, x \in syncs'[j].posting : q = x
    <3>1. CASE j = k
      <4>1. syncs'[j] = run /\ \A q \in run.left : q # p /\ stored[q] = "pending" /\ q \in Captures
        BY <1>3, <1>4, <1>5, <3>1 DEF SyncInv, SyncsAgree, SyncTypeOK
      <4>2. \A q \in run.left : stored'[q] = "pending"
        BY <1>2, <4>1
      <4>3. QED
        BY <1>3, <1>5, <4>1, <4>2
    <3>2. CASE j # k
      <4>1. ~syncs[j].running
        BY <1>5, <3>2 DEF SyncInv, SyncsAgree
      <4>2. syncs'[j] = syncs[j] /\ syncs[j].left = {} /\ syncs[j].posting = {}
        BY <1>4, <3>2, <4>1 DEF SyncInv, SyncsAgree
      <4>3. QED
        BY <4>2
    <3>3. QED
      BY <3>1, <3>2
  <2>3. \A q \in Captures : stored'[q] # "none" => screen'[q] = "done"
    BY <1>1, <1>2, <1>5 DEF SyncInv, SyncsAgree
  <2>4. QED
    BY <2>1, <2>2, <2>3 DEF SyncsAgree
<1>11. AcceptedIsRecorded'
  BY <1>1, <1>7 DEF SyncInv, AcceptedIsRecorded
<1>12. CapturedIsKept'
  <2>1. status = "synced" => recorded[p] > 0
    BY DEF Got, Awaited, SyncInv, AcceptedIsRecorded
  <2>2. QED
    BY <1>1, <1>2, <2>1 DEF SyncInv, CapturedIsKept
<1>13. status = "synced" => ~Sendable(p)'
  BY <1>1, <1>2, <1>5 DEF Sendable
<1>14. \A q \in Captures : Bounded(q)'
  BY <1>1, <1>6, <1>7, <1>13, ConsumedKeepsBounded
<1>15. QED
  BY <1>8, <1>9, <1>10, <1>11, <1>12, <1>14 DEF SyncInv

\* A sync that gives up leaves its payment pending, to be sent again.
LEMMA RejectsKeepsIInv ==
    ASSUME SyncInv, NEW k \in Syncs, NEW p \in Captures, SyncRejects(k, p)
    PROVE  SyncInv'
<1>1. /\ UNCHANGED <<stored, screen, recorded, retries>> /\ Consumed(p, k)
      /\ p \in syncs[k].posting
      /\ \/ Got(p, k, "error") /\ UNCHANGED unsure
         \/ Got(p, k, "ok") /\ unsure' = [unsure EXCEPT ![p] = @ + 1]
  BY DEF SyncRejects
<1>2. syncFaults' \in 0..MaxSyncFaults
  BY OfflineSyncAssumption DEF SyncRejects, Fault, SyncInv, SyncTypeOK
<1>3. /\ syncs' \in [Syncs -> [running : BOOLEAN, left : SUBSET Captures, posting : SUBSET Captures]]
      /\ \A j \in Syncs : syncs'[j] = IF j = k THEN NotRunning ELSE syncs[j]
  BY DEF SyncRejects, Released, NotRunning, SyncInv, SyncTypeOK
<1>4. stored[p] = "pending" /\ syncs[k].running
  BY <1>1 DEF SyncInv, SyncsAgree, SyncTypeOK
<1>5. /\ unsure' \in [Captures -> Nat]
      /\ \A q \in Captures \ {p} : unsure'[q] = unsure[q]
      /\ \/ unsure'[p] = unsure[p] + 1
         \/ unsure'[p] = unsure[p] /\ Got(p, k, "error")
  BY <1>1 DEF SyncInv, SyncTypeOK
<1>6. /\ requests' \subseteq requests
      /\ \A x \in requests' : x.pay = p => x.by = "nobody"
      /\ \A q \in Captures : Undecided(q)' \subseteq Undecided(q)
      /\ \A q \in Captures \ {p} : Sendable(q)' <=> Sendable(q)
      /\ Got(p, k, "error") => Sendable(p)
  <2>1. k \in Callers /\ Awaited(p, k) # {}
    BY <1>1 DEF Callers, Got
  <2>2. QED
    BY <1>1, <1>4, <2>1, ConsumedFacts
<1>7. SyncTypeOK'
  BY <1>1, <1>2, <1>3, <1>5, <1>6 DEF SyncInv, SyncTypeOK
<1>8. WaitingAgrees'
  <2>1. ASSUME NEW x \in requests', x.by \in Syncs PROVE x.pay \in syncs'[x.by].posting
    <3>1. x \in requests /\ x.by # "nobody" /\ x.pay \in syncs[x.by].posting
      BY <1>6, <2>1, OfflineSyncAssumption DEF SyncInv, WaitingAgrees
    <3>2. x.by # k
      BY <1>1, <1>6, <3>1 DEF SyncInv, SyncsAgree
    <3>3. QED
      BY <1>3, <2>1, <3>1, <3>2
  <2>2. QED
    BY <1>1, <1>6, <2>1 DEF SyncInv, WaitingAgrees
<1>9. SyncsAgree'
  BY <1>1, <1>3 DEF SyncInv, SyncsAgree, NotRunning
<1>10. AcceptedIsRecorded' /\ CapturedIsKept'
  BY <1>1, <1>6 DEF SyncInv, AcceptedIsRecorded, CapturedIsKept
<1>11. \A q \in Captures : Bounded(q)'
  BY <1>1, <1>5, <1>6, ConsumedKeepsBounded
<1>12. QED
  BY <1>7, <1>8, <1>9, <1>10, <1>11 DEF SyncInv

\* Steps that send nothing, and of which no payment becomes one that may be sent.
LEMMA LocalKeepsIInv ==
    ASSUME SyncInv, SyncTypeOK', SyncsAgree', UNCHANGED <<requests, recorded, unsure>>,
           \A r \in requests : r.by = "screen" => screen'[r.pay] = "posting",
           \A r \in requests : r.by \in Syncs => r.pay \in syncs'[r.by].posting,
           CapturedIsKept',
           \A p \in Captures : Sendable(p)' => Sendable(p)
    PROVE  SyncInv'
<1>1. WaitingAgrees' /\ AcceptedIsRecorded'
  BY DEF SyncInv, WaitingAgrees, AcceptedIsRecorded
<1>2. ASSUME NEW p \in Captures PROVE Bounded(p)'
  <2>1. Undecided(p)' = Undecided(p)
    BY DEF Undecided
  <2>2. IsFiniteSet(Undecided(p)) /\ Cardinality(Undecided(p)) \in Nat
    BY FS_CardinalityType DEF SyncInv, Bounded
  <2>3. QED
    BY <2>1, <2>2, BoundedKept
<1>3. QED
  BY <1>1, <1>2 DEF SyncInv

LEMMA SaveKeepsIInv ==
    ASSUME SyncInv, NEW p \in Captures, SaveOffline(p)
    PROVE  SyncInv'
<1>1. screen[p] = "saving" /\ UNCHANGED <<syncs, requests, recorded, unsure, syncFaults, retries>>
  BY DEF SaveOffline
<1>2. /\ screen' \in [Captures -> {"new", "posting", "saving", "done", "killed"}]
      /\ \A q \in Captures : screen'[q] = IF q = p THEN "done" ELSE screen[q]
      /\ stored' \in [Captures -> {"none", "pending", "synced", "failed"}]
      /\ \A q \in Captures : stored'[q] = IF q = p THEN "pending" ELSE stored[q]
  BY DEF SaveOffline, SyncInv, SyncTypeOK
<1>3. SyncTypeOK'
  BY <1>1, <1>2 DEF SyncInv, SyncTypeOK
<1>4. SyncsAgree'
  <2>1. ASSUME NEW k \in Syncs, NEW q \in syncs[k].left \cup syncs[k].posting PROVE stored'[q] = "pending"
    BY <1>2, <2>1 DEF SyncInv, SyncsAgree, SyncTypeOK
  <2>2. QED
    BY <1>1, <1>2, <2>1 DEF SyncInv, SyncsAgree
<1>5. \A r \in requests : r.by = "screen" => screen'[r.pay] = "posting"
  BY <1>1, <1>2 DEF SyncInv, WaitingAgrees, SyncTypeOK, SyncRequests
<1>6. \A r \in requests : r.by \in Syncs => r.pay \in syncs'[r.by].posting
  BY <1>1 DEF SyncInv, WaitingAgrees
<1>7. CapturedIsKept'
  BY <1>1, <1>2 DEF SyncInv, CapturedIsKept
<1>8. \A q \in Captures : Sendable(q)' => Sendable(q)
  BY <1>1, <1>2 DEF Sendable
<1>9. QED
  BY <1>1, <1>3, <1>4, <1>5, <1>6, <1>7, <1>8, LocalKeepsIInv

LEMMA StartKeepsIInv ==
    ASSUME SyncInv, NEW k \in Syncs, StartSync(k)
    PROVE  SyncInv'
<1> DEFINE run == [running |-> TRUE, left |-> Pending, posting |-> {}]
<1>1. (\A j \in Syncs : ~syncs[j].running) /\ UNCHANGED <<stored, screen, requests, recorded, unsure, syncFaults, retries>>
  BY DEF StartSync, MayStart
<1>2. \A j \in Syncs : syncs[j].left = {} /\ syncs[j].posting = {}
  BY <1>1 DEF SyncInv, SyncsAgree
<1>3. /\ run \in [running : BOOLEAN, left : SUBSET Captures, posting : SUBSET Captures]
      /\ run.left = Pending /\ run.posting = {} /\ run.running
  BY DEF Pending
<1>4. /\ syncs' \in [Syncs -> [running : BOOLEAN, left : SUBSET Captures, posting : SUBSET Captures]]
      /\ \A j \in Syncs : syncs'[j] = IF j = k THEN run ELSE syncs[j]
  BY <1>3 DEF StartSync, SyncInv, SyncTypeOK
<1> HIDE DEF run
<1>5. SyncTypeOK'
  BY <1>1, <1>4 DEF SyncInv, SyncTypeOK
<1>6. SyncsAgree'
  <2>1. \A i, j \in Syncs : syncs'[i].running /\ syncs'[j].running => i = j
    BY <1>1, <1>4
  <2>2. ASSUME NEW j \in Syncs
        PROVE  /\ ~syncs'[j].running => syncs'[j].left = {} /\ syncs'[j].posting = {}
               /\ syncs'[j].left \cap syncs'[j].posting = {}
               /\ \A q \in syncs'[j].left \cup syncs'[j].posting : stored'[q] = "pending"
               /\ \A q, x \in syncs'[j].posting : q = x
    BY <1>1, <1>2, <1>3, <1>4 DEF Pending
  <2>3. QED
    BY <1>1, <2>1, <2>2 DEF SyncInv, SyncsAgree
<1>7. \A r \in requests : r.by \in Syncs => r.pay \in syncs'[r.by].posting
  BY <1>2 DEF SyncInv, WaitingAgrees
<1>8. \A r \in requests : r.by = "screen" => screen'[r.pay] = "posting"
  BY <1>1 DEF SyncInv, WaitingAgrees
<1>9. CapturedIsKept' /\ \A p \in Captures : Sendable(p)' => Sendable(p)
  BY <1>1 DEF SyncInv, CapturedIsKept, Sendable
<1>10. QED
  BY <1>1, <1>5, <1>6, <1>7, <1>8, <1>9, LocalKeepsIInv

LEMMA EndKeepsIInv ==
    ASSUME SyncInv, NEW k \in Syncs, EndSync(k)
    PROVE  SyncInv'
<1>1. /\ syncs[k].left = {} /\ syncs[k].posting = {}
      /\ UNCHANGED <<stored, screen, requests, recorded, unsure, syncFaults, retries>>
  BY DEF EndSync
<1>2. /\ syncs' \in [Syncs -> [running : BOOLEAN, left : SUBSET Captures, posting : SUBSET Captures]]
      /\ \A j \in Syncs : syncs'[j] = IF j = k THEN NotRunning ELSE syncs[j]
  BY DEF EndSync, Released, NotRunning, SyncInv, SyncTypeOK
<1>3. SyncTypeOK'
  BY <1>1, <1>2 DEF SyncInv, SyncTypeOK
<1>4. SyncsAgree'
  BY <1>1, <1>2 DEF SyncInv, SyncsAgree, NotRunning
<1>5. \A r \in requests : r.by \in Syncs => r.pay \in syncs'[r.by].posting
  BY <1>1, <1>2 DEF SyncInv, WaitingAgrees
<1>6. \A r \in requests : r.by = "screen" => screen'[r.pay] = "posting"
  BY <1>1 DEF SyncInv, WaitingAgrees
<1>7. CapturedIsKept' /\ \A p \in Captures : Sendable(p)' => Sendable(p)
  BY <1>1 DEF SyncInv, CapturedIsKept, Sendable
<1>8. QED
  BY <1>1, <1>3, <1>4, <1>5, <1>6, <1>7, LocalKeepsIInv

LEMMA RetryKeepsIInv ==
    ASSUME SyncInv, RetryFailed
    PROVE  SyncInv'
<1>1. UNCHANGED <<screen, syncs, requests, recorded, unsure, syncFaults>>
  BY DEF RetryFailed
<1>2. /\ stored' \in [Captures -> {"none", "pending", "synced", "failed"}]
      /\ \A q \in Captures : stored'[q] = IF stored[q] = "failed" THEN "pending" ELSE stored[q]
  BY DEF RetryFailed, SyncInv, SyncTypeOK
<1>3. retries' \in 0..MaxRetries
  BY OfflineSyncAssumption DEF RetryFailed, SyncInv, SyncTypeOK
<1>4. SyncTypeOK'
  BY <1>1, <1>2, <1>3 DEF SyncInv, SyncTypeOK
<1>5. SyncsAgree'
  <2>1. ASSUME NEW k \in Syncs, NEW q \in syncs[k].left \cup syncs[k].posting PROVE stored'[q] = "pending"
    <3>1. q \in Captures /\ stored[q] = "pending"
      BY <2>1 DEF SyncInv, SyncsAgree, SyncTypeOK
    <3>2. QED
      BY <1>2, <3>1
  <2>2. \A q \in Captures : stored'[q] # "none" => screen'[q] = "done"
    BY <1>1, <1>2 DEF SyncInv, SyncsAgree
  <2>3. QED
    BY <1>1, <2>1, <2>2 DEF SyncInv, SyncsAgree
<1>6. /\ \A r \in requests : r.by \in Syncs => r.pay \in syncs'[r.by].posting
      /\ \A r \in requests : r.by = "screen" => screen'[r.pay] = "posting"
  BY <1>1 DEF SyncInv, WaitingAgrees
<1>7. CapturedIsKept'
  BY <1>1, <1>2 DEF SyncInv, CapturedIsKept
<1>8. \A p \in Captures : Sendable(p)' => Sendable(p)
  BY <1>1, <1>2 DEF Sendable
<1>9. QED
  BY <1>1, <1>4, <1>5, <1>6, <1>7, <1>8, LocalKeepsIInv

-----------------------------------------------------------------------------
(* Faults. *)

LEMMA LostKeepsIInv ==
    ASSUME SyncInv, NEW r \in requests, AnswerNeverCame(r)
    PROVE  SyncInv'
<1> DEFINE p == r.pay
           ghost == [r EXCEPT !.by = "nobody", !.nr = syncFaults]
           error == [r EXCEPT !.outcome = "error"]
<1>1. /\ r \in SyncRequests /\ r.by # "nobody" /\ r.outcome # "error" /\ p \in Captures
      /\ UNCHANGED <<stored, screen, syncs, recorded, retries>>
  BY DEF AnswerNeverCame, SyncInv, SyncTypeOK, SyncRequests
<1>2. syncFaults \in 0..MaxSyncFaults /\ syncFaults' \in 0..MaxSyncFaults
  BY OfflineSyncAssumption DEF AnswerNeverCame, Fault, SyncInv, SyncTypeOK
<1>3. /\ ghost \in SyncRequests /\ error \in SyncRequests
      /\ ghost.pay = p /\ ghost.by = "nobody" /\ ghost.outcome = r.outcome
      /\ error.pay = p /\ error.by = r.by /\ error.outcome = "error"
  BY <1>1, <1>2 DEF SyncRequests
<1>4. requests' = (requests \ {r}) \cup (IF r.outcome = "none" THEN {ghost} ELSE {}) \cup {error}
  BY DEF AnswerNeverCame, GivenUp
<1>5. /\ unsure' \in [Captures -> Nat]
      /\ \A q \in Captures : unsure'[q] = IF q = p THEN unsure[q] + 1 ELSE unsure[q]
  BY <1>1 DEF AnswerNeverCame, SyncInv, SyncTypeOK
<1> HIDE DEF ghost, error
<1>6. \A x \in requests' : \/ x \in requests /\ x # r
                           \/ x = ghost /\ r.outcome = "none"
                           \/ x = error
  BY <1>4
<1>7. SyncTypeOK'
  BY <1>1, <1>2, <1>3, <1>4, <1>5 DEF SyncInv, SyncTypeOK
<1>8. WaitingAgrees'
  <2>1. WaitingAgrees
    BY DEF SyncInv
  <2>2. ASSUME NEW x \in requests'
        PROVE  /\ x.by = "nobody" => x.outcome = "none"
               /\ x.by = "screen" => screen'[x.pay] = "posting"
               /\ x.by \in Syncs => x.pay \in syncs'[x.by].posting
    <3>1. CASE x \in requests /\ x # r
      BY <1>1, <2>1, <3>1 DEF WaitingAgrees
    <3>2. CASE x = ghost /\ r.outcome = "none"
      BY <1>3, <3>2, OfflineSyncAssumption
    <3>3. CASE x = error
      BY <1>1, <1>3, <2>1, <3>3 DEF WaitingAgrees
    <3>4. QED
      BY <1>6, <3>1, <3>2, <3>3
  <2>3. \A x, y \in requests' : x.pay = y.pay /\ x.by # "nobody" /\ y.by # "nobody" => x = y
    BY <1>1, <1>3, <1>6, <2>1 DEF WaitingAgrees
  <2>4. QED
    BY <2>2, <2>3 DEF WaitingAgrees
<1>9. SyncsAgree' /\ CapturedIsKept'
  BY <1>1 DEF SyncInv, SyncsAgree, CapturedIsKept
<1>10. AcceptedIsRecorded'
  BY <1>1, <1>3, <1>6 DEF SyncInv, AcceptedIsRecorded
<1>11. ASSUME NEW q \in Captures PROVE Bounded(q)'
  <2>1. IsFiniteSet(Undecided(q)) /\ Cardinality(Undecided(q)) \in Nat
    BY FS_CardinalityType DEF SyncInv, Bounded
  <2>2. CASE q # p
    <3>1. Undecided(q)' = Undecided(q)
      BY <1>3, <1>4, <2>2 DEF Undecided
    <3>2. Sendable(q)' => Sendable(q)
      BY <1>1, <1>4, <2>2 DEF Sendable
    <3>3. QED
      BY <1>1, <1>5, <2>1, <2>2, <3>1, <3>2, BoundedKept
  <2>3. CASE q = p /\ r.outcome = "none"
    <3>1. r \in Undecided(q) /\ Undecided(q)' \subseteq (Undecided(q) \ {r}) \cup {ghost}
      BY <1>1, <1>3, <1>4, <2>3 DEF Undecided
    <3>2. /\ IsFiniteSet(Undecided(q)') /\ Cardinality(Undecided(q)') \in Nat
          /\ Cardinality(Undecided(q)') <= Cardinality(Undecided(q))
      BY <2>1, <3>1, RequestReplaced
    <3>3. QED
      BY <1>1, <1>5, <2>3, <3>2, BoundedUnsure
  <2>4. CASE q = p /\ r.outcome # "none"
    <3>1. Undecided(q)' \subseteq Undecided(q)
      BY <1>3, <1>4, <2>4 DEF Undecided
    <3>2. /\ IsFiniteSet(Undecided(q)') /\ Cardinality(Undecided(q)') \in Nat
          /\ Cardinality(Undecided(q)') <= Cardinality(Undecided(q))
      BY <2>1, <3>1, NoMore
    <3>3. QED
      BY <1>1, <1>5, <2>4, <3>2, BoundedUnsure
  <2>5. QED
    BY <2>2, <2>3, <2>4
<1>12. QED
  BY <1>7, <1>8, <1>9, <1>10, <1>11 DEF SyncInv

\* What a kill gives up of one payment: nothing, or the one request it waited for.
LEMMA GivenUpOf ==
    ASSUME SyncInv, NEW p \in Captures
    PROVE  \/ \A r \in requests : r.pay = p => r.by = "nobody"
           \/ \E r \in requests : /\ r.pay = p /\ r.by # "nobody"
                                  /\ \A x \in requests : x.pay = p /\ x.by # "nobody" => x = r
BY DEF SyncInv, WaitingAgrees

LEMMA KillKeepsIInv ==
    ASSUME SyncInv, Kill
    PROVE  SyncInv'
<1> DEFINE awaited == {r \in requests : r.by # "nobody"}
           Ghost(r) == [r EXCEPT !.by = "nobody", !.nr = syncFaults]
           Lost(p) == {r \in requests : r.pay = p /\ r.by # "nobody" /\ r.outcome # "error"}
<1>1. UNCHANGED <<stored, recorded, retries>>
  BY DEF Kill
<1>2. syncFaults \in 0..MaxSyncFaults /\ syncFaults' \in 0..MaxSyncFaults
  BY OfflineSyncAssumption DEF Kill, Fault, SyncInv, SyncTypeOK
<1>3. /\ screen' \in [Captures -> {"new", "posting", "saving", "done", "killed"}]
      /\ \A p \in Captures : screen'[p] = IF screen[p] \in {"posting", "saving"} THEN "killed" ELSE screen[p]
  BY DEF Kill, SyncInv, SyncTypeOK
<1>4. /\ syncs' \in [Syncs -> [running : BOOLEAN, left : SUBSET Captures, posting : SUBSET Captures]]
      /\ \A k \in Syncs : syncs'[k] = NotRunning
  BY DEF Kill, NotRunning
<1>5. \A r \in requests : /\ Ghost(r) \in SyncRequests
                          /\ Ghost(r).pay = r.pay /\ Ghost(r).by = "nobody"
                          /\ Ghost(r).outcome = r.outcome
  BY <1>2 DEF SyncInv, SyncTypeOK, SyncRequests
<1>6. requests' = (requests \ awaited) \cup {Ghost(r) : r \in {g \in awaited : g.outcome = "none"}}
  BY DEF Kill, GivenUp
<1>7. \A x \in requests' : \/ x \in requests /\ x.by = "nobody"
                           \/ \E r \in requests : r.by # "nobody" /\ r.outcome = "none" /\ x = Ghost(r)
  BY <1>6
<1> HIDE DEF Ghost
<1>8. \A x \in requests' : x \in SyncRequests /\ x.by = "nobody" /\ x.outcome = "none"
  BY <1>5, <1>7 DEF SyncInv, SyncTypeOK, WaitingAgrees
<1>9. ASSUME NEW p \in Captures
      PROVE  \/ Lost(p) = {} /\ Undecided(p)' \subseteq Undecided(p) /\ (Sendable(p)' => Sendable(p))
             \/ \E r : Lost(p) = {r} /\ Undecided(p)' \subseteq Undecided(p)
             \/ \E r \in Undecided(p) : Lost(p) = {r} /\ Undecided(p)' \subseteq (Undecided(p) \ {r}) \cup {Ghost(r)}
  <2>1. \A x \in Undecided(p)' : \/ x \in Undecided(p) /\ x.by = "nobody"
                                 \/ \E r \in requests : /\ r.by # "nobody" /\ r.outcome = "none"
                                                        /\ r.pay = p /\ x = Ghost(r)
    BY <1>5, <1>7 DEF Undecided
  <2>2. Sendable(p)' => /\ screen[p] \in {"new", "posting", "saving"} \/ stored[p] \in {"pending", "failed"}
    BY <1>1, <1>3 DEF Sendable
  <2>3. CASE \A r \in requests : r.pay = p => r.by = "nobody"
    <3>1. Lost(p) = {} /\ Undecided(p)' \subseteq Undecided(p)
      BY <2>1, <2>3
    <3>2. Sendable(p)' => Sendable(p)
      BY <2>2, <2>3 DEF Sendable
    <3>3. QED
      BY <3>1, <3>2
  <2>4. ASSUME NEW r \in requests, r.pay = p, r.by # "nobody",
               \A x \in requests : x.pay = p /\ x.by # "nobody" => x = r
        PROVE  \/ Lost(p) = {} /\ Undecided(p)' \subseteq Undecided(p) /\ (Sendable(p)' => Sendable(p))
               \/ Lost(p) = {r} /\ Undecided(p)' \subseteq Undecided(p)
               \/ r \in Undecided(p) /\ Lost(p) = {r} /\ Undecided(p)' \subseteq (Undecided(p) \ {r}) \cup {Ghost(r)}
    <3>1. CASE r.outcome = "error"
      <4>1. Lost(p) = {} /\ Undecided(p)' \subseteq Undecided(p)
        BY <2>1, <2>4, <3>1
      <4>2. Sendable(p)' => Sendable(p)
        BY <2>2, <2>4, <3>1 DEF Sendable
      <4>3. QED
        BY <4>1, <4>2
    <3>2. CASE r.outcome = "none"
      <4>1. r \in Undecided(p) /\ Lost(p) = {r}
        BY <2>4, <3>2 DEF Undecided
      <4>2. Undecided(p)' \subseteq (Undecided(p) \ {r}) \cup {Ghost(r)}
        BY <2>1, <2>4
      <4>3. QED
        BY <4>1, <4>2
    <3>3. CASE r.outcome \notin {"none", "error"}
      <4>1. Lost(p) = {r}
        BY <2>4, <3>3
      <4>2. Undecided(p)' \subseteq Undecided(p)
        BY <2>1, <2>4, <3>3
      <4>3. QED
        BY <4>1, <4>2
    <3>4. QED
      BY <3>1, <3>2, <3>3
  <2>5. QED
    BY <2>3, <2>4, GivenUpOf
<1>10. \A p \in Captures : unsure'[p] = unsure[p] + Cardinality(Lost(p))
  BY DEF Kill
<1> HIDE DEF Lost
<1>11. ASSUME NEW p \in Captures PROVE Cardinality(Lost(p)) \in {0, 1}
  <2>1. \A r : Lost(p) = {r} => Cardinality(Lost(p)) = 1
    BY FS_Singleton
  <2>2. Lost(p) = {} => Cardinality(Lost(p)) = 0
    BY FS_EmptySet
  <2>3. QED
    BY <1>9, <2>1, <2>2
<1>12. unsure' \in [Captures -> Nat]
  <2>1. \A p \in Captures : unsure'[p] \in Nat
    BY <1>10, <1>11 DEF SyncInv, SyncTypeOK
  <2>2. unsure' = [p \in Captures |-> unsure'[p]]
    BY DEF Kill
  <2>3. QED
    BY <2>1, <2>2
<1>13. SyncTypeOK'
  BY <1>1, <1>2, <1>3, <1>4, <1>8, <1>12 DEF SyncInv, SyncTypeOK
<1>14. WaitingAgrees' /\ AcceptedIsRecorded'
  BY <1>8, OfflineSyncAssumption DEF WaitingAgrees, AcceptedIsRecorded
<1>15. SyncsAgree' /\ CapturedIsKept'
  BY <1>1, <1>3, <1>4 DEF SyncInv, SyncsAgree, CapturedIsKept, NotRunning
<1>16. ASSUME NEW p \in Captures PROVE Bounded(p)'
  <2>1. IsFiniteSet(Undecided(p)) /\ Cardinality(Undecided(p)) \in Nat
    BY FS_CardinalityType DEF SyncInv, Bounded
  <2>2. unsure[p] \in Nat
    BY DEF SyncInv, SyncTypeOK
  <2>3. CASE Lost(p) = {} /\ Undecided(p)' \subseteq Undecided(p) /\ (Sendable(p)' => Sendable(p))
    <3>1. /\ IsFiniteSet(Undecided(p)') /\ Cardinality(Undecided(p)') \in Nat
          /\ Cardinality(Undecided(p)') <= Cardinality(Undecided(p))
      BY <2>1, <2>3, NoMore
    <3>2. unsure'[p] = unsure[p]
      BY <1>10, <2>2, <2>3, FS_EmptySet
    <3>3. QED
      BY <1>1, <2>3, <3>1, <3>2, BoundedKept
  <2>4. ASSUME NEW r, Lost(p) = {r},
               \/ Undecided(p)' \subseteq Undecided(p)
               \/ r \in Undecided(p) /\ Undecided(p)' \subseteq (Undecided(p) \ {r}) \cup {Ghost(r)}
        PROVE  Bounded(p)'
    <3>1. /\ IsFiniteSet(Undecided(p)') /\ Cardinality(Undecided(p)') \in Nat
          /\ Cardinality(Undecided(p)') <= Cardinality(Undecided(p))
      <4>1. CASE Undecided(p)' \subseteq Undecided(p)
        BY <2>1, <4>1, NoMore
      <4>2. CASE r \in Undecided(p) /\ Undecided(p)' \subseteq (Undecided(p) \ {r}) \cup {Ghost(r)}
        BY <2>1, <4>2, RequestReplaced
      <4>3. QED
        BY <2>4, <4>1, <4>2
    <3>2. Cardinality({r}) = 1
      BY FS_Singleton
    <3>3. unsure'[p] = unsure[p] + 1
      BY <1>10, <2>4, <3>2
    <3>4. QED
      BY <1>1, <3>1, <3>3, BoundedUnsure
  <2>5. QED
    BY <1>9, <2>3, <2>4
<1>17. QED
  BY <1>13, <1>14, <1>15, <1>16 DEF SyncInv

-----------------------------------------------------------------------------
(* All steps together. *)

LEMMA FaultType ==
    ASSUME SyncInv
    PROVE  syncFaults \in 0..MaxSyncFaults /\ (Fault => syncFaults' \in 0..MaxSyncFaults)
BY OfflineSyncAssumption DEF SyncInv, SyncTypeOK, Fault

LEMMA SyncEndsKeepIInv ==
    ASSUME SyncInv, NEW k \in Syncs, NEW p \in Captures,
           SyncOk(k, p) \/ SyncOkUnmarked(k, p) \/ SyncError(k, p)
    PROVE  SyncInv'
<1>1. CASE SyncOk(k, p)
  <2>1. /\ p \in syncs[k].posting /\ Got(p, k, "ok") /\ Settle(k, p, "synced")
        /\ UNCHANGED <<unsure, syncFaults>>
    BY <1>1 DEF SyncOk
  <2>2. Awaited(p, k) # {}
    BY <2>1 DEF Got
  <2>3. QED
    BY <2>1, <2>2, FaultType, SettleKeepsIInv
<1>2. CASE SyncOkUnmarked(k, p)
  <2>1. /\ p \in syncs[k].posting /\ Got(p, k, "ok") /\ Settle(k, p, "failed")
        /\ Fault /\ unsure' = [unsure EXCEPT ![p] = @ + 1]
    BY <1>2 DEF SyncOkUnmarked
  <2>2. Awaited(p, k) # {}
    BY <2>1 DEF Got
  <2>3. QED
    BY <2>1, <2>2, FaultType, SettleKeepsIInv
<1>3. CASE SyncError(k, p)
  <2>1. /\ p \in syncs[k].posting /\ Got(p, k, "error") /\ Settle(k, p, "failed")
        /\ UNCHANGED <<unsure, syncFaults>>
    BY <1>3 DEF SyncError, OnError
  <2>2. Awaited(p, k) # {}
    BY <2>1 DEF Got
  <2>3. QED
    BY <2>1, <2>2, FaultType, SettleKeepsIInv
<1>4. QED
  BY <1>1, <1>2, <1>3

LEMMA StepKeepsSyncInv == SyncInv /\ [SyncNext]_syncVars => SyncInv'
<1> SUFFICES ASSUME SyncInv, [SyncNext]_syncVars PROVE SyncInv'
  OBVIOUS
<1>1. CASE Screen
  <2>1. PICK p \in Captures : CaptureDone(p) \/ CaptureFailed(p) \/ SaveOffline(p)
    BY <1>1 DEF Screen
  <2>2. QED
    BY <2>1, CaptureEndsKeepsIInv, SaveKeepsIInv
<1>2. CASE RetryFailed
  BY <1>2, RetryKeepsIInv
<1>3. CASE Kill
  BY <1>3, KillKeepsIInv
<1>4. ASSUME NEW p \in Captures, Capture(p) PROVE SyncInv'
  BY <1>4, CaptureKeepsIInv
<1>5. ASSUME NEW k \in Syncs, StartSync(k) PROVE SyncInv'
  BY <1>5, StartKeepsIInv
<1>6. ASSUME NEW k \in Syncs, SyncStep(k) PROVE SyncInv'
  <2>1. CASE EndSync(k)
    BY <2>1, EndKeepsIInv
  <2>2. ASSUME NEW p \in Captures, SyncPost(k, p) \/ SyncOk(k, p) \/ SyncError(k, p) PROVE SyncInv'
    BY <2>2, PostKeepsSyncInv, SyncEndsKeepIInv
  <2>3. QED
    BY <1>6, <2>1, <2>2 DEF SyncStep
<1>7. ASSUME NEW k \in Syncs, NEW p \in Captures, SyncOkUnmarked(k, p) \/ SyncRejects(k, p)
      PROVE  SyncInv'
  BY <1>7, SyncEndsKeepIInv, RejectsKeepsIInv
<1>8. ASSUME NEW r \in requests, Handled(r) PROVE SyncInv'
  BY <1>8, RecordsKeepsIInv, NotRecordedKeepsIInv DEF Handled
<1>9. ASSUME NEW r \in requests, AnswerNeverCame(r) PROVE SyncInv'
  BY <1>9, LostKeepsIInv
<1>10. CASE UNCHANGED syncVars
  <2>1. UNCHANGED <<stored, screen, syncs, requests, recorded, unsure, syncFaults, retries>>
    BY <1>10 DEF syncVars
  <2>2. \A p : Bounded(p)' = Bounded(p)
    BY <2>1 DEF Bounded, Undecided, Sendable
  <2>3. QED
    BY <2>1, <2>2 DEF SyncInv, SyncTypeOK, WaitingAgrees, SyncsAgree, AcceptedIsRecorded, CapturedIsKept
<1>11. QED
  BY <1>1, <1>2, <1>3, <1>4, <1>5, <1>6, <1>7, <1>8, <1>9, <1>10 DEF SyncNext

(***************************************************************************)
(* The invariant the others follow from, over every behaviour.             *)
(***************************************************************************)
THEOREM SyncInvariant == SyncSpec => []SyncInv
BY InitEstablishesSyncInv, StepKeepsSyncInv, PTL DEF SyncSpec

(***************************************************************************)
(* Types, for any number of payments and overlapping calls of sync.        *)
(***************************************************************************)
THEOREM SyncTypeCorrect == SyncSpec => []SyncTypeOK
<1>1. SyncInv => SyncTypeOK
  BY DEF SyncInv
<1>2. QED
  BY <1>1, SyncInvariant, PTL

(***************************************************************************)
(* Money taken in is recorded or still on the phone, whatever is lost and  *)
(* whenever the app is killed, but for the payment the screen works on.    *)
(***************************************************************************)
THEOREM CapturedMoneyIsKept == SyncSpec => []CapturedIsKept
<1>1. SyncInv => CapturedIsKept
  BY DEF SyncInv
<1>2. QED
  BY <1>1, SyncInvariant, PTL

(***************************************************************************)
(* The server records a payment twice only after the phone gave up a       *)
(* request of it without knowing the outcome, for any number of faults.    *)
(***************************************************************************)
THEOREM RecordedOnceUnlessUnsure == SyncSpec => []RecordedOncePerKnownOutcome
<1>1. SyncInv => RecordedOncePerKnownOutcome
  <2> SUFFICES ASSUME SyncInv, NEW p \in Captures PROVE recorded[p] <= 1 + unsure[p]
    BY DEF RecordedOncePerKnownOutcome
  <2>1. recorded[p] \in Nat /\ unsure[p] \in Nat /\ Cardinality(Undecided(p)) \in Nat
    BY FS_CardinalityType DEF SyncInv, SyncTypeOK, Bounded
  <2>2. recorded[p] + Cardinality(Undecided(p)) + (IF Sendable(p) THEN 1 ELSE 0) <= 1 + unsure[p]
    BY DEF SyncInv, Bounded
  <2>3. QED
    BY <2>1, <2>2
<1>2. QED
  BY <1>1, SyncInvariant, PTL
=============================================================================

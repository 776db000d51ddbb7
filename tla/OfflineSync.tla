------------------------------ MODULE OfflineSync ------------------------------
(***************************************************************************)
(* Payments captured on an agent's phone.  The capture screen posts the    *)
(* payment and, on any error at all, saves it on the phone as pending;     *)
(* syncPendingPayments posts what is pending, one after the other, without *)
(* a key by which the server could tell a repetition; what fails is only   *)
(* tried again when the agent asks for it.  Answers may get lost, the app  *)
(* may be killed at any step, and a request outlives the app that sent it. *)
(***************************************************************************)
EXTENDS Naturals, FiniteSets

CONSTANTS
    Captures,       \* payments the agent takes in
    Syncs,          \* calls of _doSync that may run at the same time, if anything lets them
    MaxSyncFaults,      \* bound: lost answers, failed writes on the phone and kills together
    MaxRetries      \* bound: times the agent asks to retry what failed

ASSUME OfflineSyncAssumption ==
    /\ MaxSyncFaults \in Nat /\ MaxRetries \in Nat
    /\ Syncs \cap {"screen", "nobody"} = {}      \* who else may wait for an answer

VARIABLES
    stored,     \* per payment: sync_status of its row on the phone, "none" without one
    screen,     \* per payment: what the capture screen has come to
    syncs,      \* per call of _doSync: the payments it has still to post, and the one it posts
    requests,   \* POST requests sent and not answered yet, and whose answer is awaited
    recorded,   \* per payment: how many times the server has recorded it
    unsure,     \* history, per payment: requests whose outcome the phone never learned or noted
    syncFaults,
    retries

syncVars == <<stored, screen, syncs, requests, recorded, unsure, syncFaults, retries>>

NotRunning == [running |-> FALSE, left |-> {}, posting |-> {}]
Callers == Syncs \cup {"screen"}
\* "outcome": the server has not got to it, has recorded it, or has refused it; "nr" is the
\* fault that made the phone give up a request that nobody waits for any more.
SyncRequests == [pay : Captures, by : Callers \cup {"nobody"}, outcome : {"none", "ok", "error"},
             nr : 0..MaxSyncFaults]

(***************************************************************************)
(* Type correctness.                                                       *)
(***************************************************************************)
SyncTypeOK ==
    /\ stored \in [Captures -> {"none", "pending", "synced", "failed"}]
    /\ screen \in [Captures -> {"new", "posting", "saving", "done", "killed"}]
    /\ syncs \in [Syncs -> [running : BOOLEAN, left : SUBSET Captures, posting : SUBSET Captures]]
    /\ requests \subseteq SyncRequests
    /\ recorded \in [Captures -> Nat]
    /\ unsure \in [Captures -> Nat]
    /\ syncFaults \in 0..MaxSyncFaults
    /\ retries \in 0..MaxRetries

SyncInit ==
    /\ stored = [p \in Captures |-> "none"]
    /\ screen = [p \in Captures |-> "new"]
    /\ syncs = [k \in Syncs |-> NotRunning]
    /\ requests = {}
    /\ recorded = [p \in Captures |-> 0]
    /\ unsure = [p \in Captures |-> 0]
    /\ syncFaults = 0
    /\ retries = 0

-----------------------------------------------------------------------------
(* apiRequest and the server. *)

Sent(p, caller) ==
    requests' = requests \cup {[pay |-> p, by |-> caller, outcome |-> "none", nr |-> 0]}
Awaited(p, caller) == {r \in requests : r.pay = p /\ r.by = caller}
Got(p, caller, outcome) == \E r \in Awaited(p, caller) : r.outcome = outcome
Consumed(p, caller) == requests' = requests \ Awaited(p, caller)
\* What nobody waits for any more goes on; once the server has decided, nobody hears of it.
GivenUp(given) ==
    (requests \ given) \cup
        {[r EXCEPT !.by = "nobody", !.nr = syncFaults] : r \in {g \in given : g.outcome = "none"}}

Fault == syncFaults < MaxSyncFaults /\ syncFaults' = syncFaults + 1

\* recordPayment records it, or refuses it, or the request never arrives.
Decided(r, outcome) ==
    /\ r \in requests /\ r.outcome = "none"
    /\ requests' = (requests \ {r}) \cup
                       (IF r.by = "nobody" THEN {} ELSE {[r EXCEPT !.outcome = outcome]})
    /\ UNCHANGED <<stored, screen, syncs, unsure, syncFaults, retries>>

ServerRecords(r) ==
    /\ Decided(r, "ok")
    /\ recorded' = [recorded EXCEPT ![r.pay] = @ + 1]

NotRecorded(r) == Decided(r, "error") /\ UNCHANGED recorded

\* The fetch fails for the caller while the request, or its answer, is on its way.
AnswerNeverCame(r) ==
    /\ r \in requests /\ r.by # "nobody" /\ r.outcome # "error"
    /\ Fault
    /\ requests' = GivenUp({r}) \cup {[r EXCEPT !.outcome = "error"]}
    /\ unsure' = [unsure EXCEPT ![r.pay] = @ + 1]
    /\ UNCHANGED <<stored, screen, syncs, recorded, retries>>

-----------------------------------------------------------------------------
(* handleSubmit of the capture screen *)

Capture(p) ==
    /\ screen[p] = "new"
    /\ \A q \in Captures : screen[q] \notin {"posting", "saving"}
    /\ screen' = [screen EXCEPT ![p] = "posting"]
    /\ Sent(p, "screen")
    /\ UNCHANGED <<stored, syncs, recorded, unsure, syncFaults, retries>>

CaptureDone(p) ==
    /\ screen[p] = "posting" /\ Got(p, "screen", "ok")
    /\ screen' = [screen EXCEPT ![p] = "done"]
    /\ Consumed(p, "screen")
    /\ UNCHANGED <<stored, syncs, recorded, unsure, syncFaults, retries>>

CaptureFailed(p) ==
    /\ screen[p] = "posting" /\ Got(p, "screen", "error")
    /\ screen' = [screen EXCEPT ![p] = "saving"]
    /\ Consumed(p, "screen")
    /\ UNCHANGED <<stored, syncs, recorded, unsure, syncFaults, retries>>

\* saveOfflinePayment
SaveOffline(p) ==
    /\ screen[p] = "saving"
    /\ screen' = [screen EXCEPT ![p] = "done"]
    /\ stored' = [stored EXCEPT ![p] = "pending"]
    /\ UNCHANGED <<syncs, requests, recorded, unsure, syncFaults, retries>>

-----------------------------------------------------------------------------
(* syncPendingPayments, called when the app comes to the foreground and by the agent. *)

Pending == {p \in Captures : stored[p] = "pending"}

\* Mutant: only the caller looks at whether it runs itself.
MayStartAnyway(k) == ~syncs[k].running
\* _syncInProgress: whoever calls while a sync runs waits for that one.
MayStart(k) == \A j \in Syncs : ~syncs[j].running

StartSync(k) ==
    /\ MayStart(k)
    /\ syncs' = [syncs EXCEPT ![k] = [running |-> TRUE, left |-> Pending, posting |-> {}]]
    /\ UNCHANGED <<stored, screen, requests, recorded, unsure, syncFaults, retries>>

SyncPost(k, p) ==
    /\ syncs[k].posting = {} /\ p \in syncs[k].left
    /\ syncs' = [syncs EXCEPT ![k].posting = {p}, ![k].left = @ \ {p}]
    /\ Sent(p, k)
    /\ UNCHANGED <<stored, screen, recorded, unsure, syncFaults, retries>>

\* The caller goes on to the next payment; the row has the status its answer calls for.
Settle(k, p, status) ==
    /\ stored' = [stored EXCEPT ![p] = status]
    /\ syncs' = [syncs EXCEPT ![k].posting = {}]
    /\ Consumed(p, k)
    /\ UNCHANGED <<screen, recorded, retries>>

SyncOk(k, p) ==
    /\ p \in syncs[k].posting /\ Got(p, k, "ok")
    /\ Settle(k, p, "synced")
    /\ UNCHANGED <<unsure, syncFaults>>

\* markPaymentSynced throws, and the catch takes it for a payment that failed.
SyncOkUnmarked(k, p) ==
    /\ p \in syncs[k].posting /\ Got(p, k, "ok")
    /\ Settle(k, p, "failed")
    /\ Fault
    /\ unsure' = [unsure EXCEPT ![p] = @ + 1]

\* Mutant: what fails is marked like what succeeds.
OnErrorSynced == "synced"
\* markPaymentFailed
OnError == "failed"

SyncError(k, p) ==
    /\ p \in syncs[k].posting /\ Got(p, k, "error")
    /\ Settle(k, p, OnError)
    /\ UNCHANGED <<unsure, syncFaults>>

\* Mutant: the lock is not released when the sync is over.
StillRunning == [NotRunning EXCEPT !.running = TRUE]
\* .finally(() => { _syncInProgress = null; })
Released == NotRunning

\* markPaymentFailed throws: the rest of the loop is skipped and the payment stays pending,
\* for the next sync to post again, whatever its answer was.
SyncRejects(k, p) ==
    /\ p \in syncs[k].posting
    /\ \/ Got(p, k, "error") /\ UNCHANGED unsure
       \/ Got(p, k, "ok") /\ unsure' = [unsure EXCEPT ![p] = @ + 1]
    /\ Fault
    /\ syncs' = [syncs EXCEPT ![k] = Released]
    /\ Consumed(p, k)
    /\ UNCHANGED <<stored, screen, recorded, retries>>

EndSync(k) ==
    /\ syncs[k].running /\ syncs[k].left = {} /\ syncs[k].posting = {}
    /\ syncs' = [syncs EXCEPT ![k] = Released]
    /\ UNCHANGED <<stored, screen, requests, recorded, unsure, syncFaults, retries>>

\* resetFailedPayments, before a sync of its own or the one that runs already.
RetryFailed ==
    /\ retries < MaxRetries /\ retries' = retries + 1
    /\ \E p \in Captures : stored[p] = "failed"
    /\ stored' = [p \in Captures |-> IF stored[p] = "failed" THEN "pending" ELSE stored[p]]
    /\ UNCHANGED <<screen, syncs, requests, recorded, unsure, syncFaults>>

\* The app is killed: its lock and its calls are gone, its rows are not.
Kill ==
    /\ Fault
    /\ screen' = [p \in Captures |-> IF screen[p] \in {"posting", "saving"} THEN "killed"
                                                                         ELSE screen[p]]
    /\ syncs' = [k \in Syncs |-> NotRunning]
    /\ requests' = GivenUp({r \in requests : r.by # "nobody"})
    /\ unsure' = [p \in Captures |->
                     unsure[p] + Cardinality({r \in requests : /\ r.pay = p /\ r.by # "nobody"
                                                               /\ r.outcome # "error"})]
    /\ UNCHANGED <<stored, recorded, retries>>

-----------------------------------------------------------------------------
Screen == \E p \in Captures : CaptureDone(p) \/ CaptureFailed(p) \/ SaveOffline(p)
SyncStep(k) ==
    \/ \E p \in Captures : SyncPost(k, p) \/ SyncOk(k, p) \/ SyncError(k, p)
    \/ EndSync(k)
Handled(r) == ServerRecords(r) \/ NotRecorded(r)

SyncNext ==
    \/ Screen \/ RetryFailed \/ Kill
    \/ \E p \in Captures : Capture(p)
    \/ \E k \in Syncs : \/ StartSync(k) \/ SyncStep(k)
                       \/ \E p \in Captures : SyncOkUnmarked(k, p) \/ SyncRejects(k, p)
    \/ \E r \in requests : Handled(r) \/ AnswerNeverCame(r)

\* The agent comes back to the app, and a sync that has its answer goes on.  That an answer,
\* or fetch's error, ever comes is not assumed: apiRequest sets no timeout.
SyncFairness ==
    /\ WF_syncVars(\E k \in Syncs : StartSync(k))
    /\ \A k \in Syncs : WF_syncVars(SyncStep(k))

SyncSpec == SyncInit /\ [][SyncNext]_syncVars /\ SyncFairness

-----------------------------------------------------------------------------
(* Properties. *)

(***************************************************************************)
(* The server records a payment more than once only when the phone had to  *)
(* give up a request of it without knowing what became of it, or could not *)
(* note it: never because syncs overlap, or because the agent retries what *)
(* failed.                                                                 *)
(***************************************************************************)
RecordedOncePerKnownOutcome ==
    \A p \in Captures : recorded[p] <= 1 + unsure[p]

(***************************************************************************)
(* Money the agent has taken is not forgotten: it is recorded, or on the   *)
(* phone still to be sent or retried, unless the app was killed while the  *)
(* capture screen was working on it.  What the phone shows as synced is    *)
(* recorded.                                                               *)
(***************************************************************************)
CapturedIsKept ==
    \A p \in Captures :
        /\ screen[p] = "done" => recorded[p] > 0 \/ stored[p] \in {"pending", "failed"}
        /\ stored[p] = "synced" => recorded[p] > 0

\* A sync waits for an answer that has not come.
Waiting == \E r \in requests : r.by \in Syncs /\ r.outcome = "none"

(***************************************************************************)
(* A payment saved on the phone does not stay pending for ever: a sync     *)
(* sends it, and it is synced or failed.  Failing writes and kills only    *)
(* delay that; a single request that never ends, of this payment or of     *)
(* another, prevents it, as every later sync waits for the one that posts. *)
(***************************************************************************)
PendingIsTried ==
    <>[]Waiting \/ \A p \in Captures : stored[p] = "pending" ~> stored[p] # "pending"
=============================================================================

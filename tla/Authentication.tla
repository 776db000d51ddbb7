---------------------------- MODULE Authentication ----------------------------
(***************************************************************************)
(* Login and forgotten passwords of a tenant's users, TenantAuthService:   *)
(* one-time codes are issued, texted, consumed; and every step runs on a   *)
(* connection of the one pool, which Prisma's queries share and where a    *)
(* request waits for as long as it takes.  Some requests ask for a second  *)
(* connection while they hold one.  Every user has a telephone; a code is  *)
(* its position in otp_tokens, two codes that are alike by chance are not  *)
(* modelled, and a password only decides whether a login is refused.  Left *)
(* out: that a tempToken expires, half-way through its code's life, and    *)
(* the master code a deployment may set while it sends no messages.        *)
(* Whether a user exists and is active is whatever the users table says.   *)
(***************************************************************************)
EXTENDS Integers, Sequences, FiniteSetsExt

CONSTANTS
    Users,
    Requests,       \* requests in flight at the same time
    PoolSize,       \* connections of the pool
    MaxCodes        \* bound: codes that exist or are being asked for

ASSUME AuthenticationAssumption ==
    /\ Users # {} /\ PoolSize \in Nat \ {0} /\ MaxCodes \in Nat

VARIABLES
    codes,      \* otp_tokens, in insertion order
    texted,     \* codes whose text message has been sent
    req,        \* per request: what it is and the step it is at
    conns,      \* per request: connections it holds
    shared,     \* history: codes two requests were consuming at once
    raced       \* history: user and purpose whose last codes were issued at once

authVars == <<codes, texted, req, conns, shared, raced>>

Kinds == {"login", "verify", "forgot", "reset"}
Purpose == [kind \in Kinds |-> IF kind \in {"login", "verify"} THEN "LOGIN" ELSE "RESET_PASSWORD"]
\* "accepted" is history: how many requests it was accepted from.
Codes == [user : Users, purpose : {"LOGIN", "RESET_PASSWORD"},
          state : {"live", "used", "expired"}, accepted : Nat]
Idle == [at |-> "idle", kind |-> "login", user |-> CHOOSE u \in Users : TRUE, code |-> 0]

(***************************************************************************)
(* Type correctness.                                                       *)
(***************************************************************************)
AuthTypeOK ==
    /\ codes \in Seq(Codes)
    /\ texted \subseteq DOMAIN codes
    /\ req \in [Requests -> [at : {"idle", "waiting", "issuing", "inserting", "texting",
                                   "consuming", "marking", "naming"},
                             kind : Kinds, user : Users, code : Nat]]
    /\ conns \in [Requests -> 0..2]
    /\ shared \subseteq DOMAIN codes
    /\ raced \subseteq Users \X {"LOGIN", "RESET_PASSWORD"}

AuthInit ==
    /\ codes = <<>>
    /\ texted = {}
    /\ req = [r \in Requests |-> Idle]
    /\ conns = [r \in Requests |-> 0]
    /\ shared = {} /\ raced = {}

-----------------------------------------------------------------------------
(* The pool. *)

InUse == MapThenSumSet(LAMBDA r : conns[r], Requests)
Free == InUse < PoolSize
Acquire(r) == Free /\ conns' = [conns EXCEPT ![r] = @ + 1]
Release(r) == conns' = [conns EXCEPT ![r] = @ - 1]
\* A query of its own: the connection is given back before the next step.
Query == Free /\ UNCHANGED conns

Advances(r, at) == req' = [req EXCEPT ![r].at = at]
Ends(r) == req' = [req EXCEPT ![r] = Idle]

-----------------------------------------------------------------------------
(* Requests arrive: a user enters any code that was ever texted to him. *)

AskedFor == {q \in Requests : req[q].kind \in {"login", "forgot"}
                               /\ req[q].at \in {"waiting", "issuing", "inserting"}}

Asks(r, kind, u) ==
    /\ req[r].at = "idle" /\ Len(codes) + Cardinality(AskedFor) < MaxCodes
    /\ kind \in {"login", "forgot"}
    /\ req' = [req EXCEPT ![r] = [at |-> "waiting", kind |-> kind, user |-> u, code |-> 0]]
    /\ UNCHANGED <<codes, texted, conns, shared, raced>>

\* A login that could text its code has answered with a tempToken.
HasToken(u) == \E c \in texted : codes[c].user = u /\ codes[c].purpose = "LOGIN"

\* verifyLoginOtp wants the tempToken, resetPassword the telephone number.
Enters(r, kind, c) ==
    /\ req[r].at = "idle"
    /\ kind \in {"verify", "reset"}
    /\ kind = "verify" => HasToken(codes[c].user)
    /\ req' = [req EXCEPT ![r] = [at |-> "waiting", kind |-> kind, user |-> codes[c].user,
                                  code |-> c]]
    /\ UNCHANGED <<codes, texted, conns, shared, raced>>

-----------------------------------------------------------------------------
(* login, forgotPassword, issueOtp *)

Waits(r, kind) == req[r].at = "waiting" /\ req[r].kind = kind
NoCodeStep == UNCHANGED <<codes, texted, shared, raced>>

\* The connection is given back before the code is issued.
LoginRead(r) ==
    /\ Waits(r, "login")
    /\ Query /\ Advances(r, "issuing") /\ NoCodeStep

\* "Invalid credentials", or "Your account has been deactivated"
LoginRefused(r) == Waits(r, "login") /\ Query /\ Ends(r) /\ NoCodeStep

\* The connection is kept while the code is issued.
ForgotRead(r) ==
    /\ Waits(r, "forgot")
    /\ Acquire(r) /\ Advances(r, "issuing") /\ NoCodeStep

\* No active user has the number: nothing is sent.
ForgotNobody(r) == Waits(r, "forgot") /\ Query /\ Ends(r) /\ NoCodeStep

Live(c) == codes[c].state = "live"
SameUse(c, u, purpose) == codes[c].user = u /\ codes[c].purpose = purpose
IssuesFor(r) == <<req[r].user, Purpose[req[r].kind]>>

\* Mutant: the codes issued before stay live.
ReplacedNone(c) == codes[c]
\* UPDATE otp_tokens SET used = TRUE ... AND used = FALSE
Replaced(c) == [codes[c] EXCEPT !.state = "used"]

IssueStart(r) ==
    LET u == req[r].user
        purpose == Purpose[req[r].kind]
        others == {q \in Requests \ {r} : req[q].at = "inserting" /\ IssuesFor(q) = IssuesFor(r)}
    IN  /\ req[r].at = "issuing"
        /\ Acquire(r) /\ Advances(r, "inserting")
        /\ codes' = [c \in DOMAIN codes |->
                        IF Live(c) /\ SameUse(c, u, purpose) THEN Replaced(c) ELSE codes[c]]
        /\ raced' = IF others = {} THEN raced \ {IssuesFor(r)} ELSE raced \cup {IssuesFor(r)}
        /\ UNCHANGED <<texted, shared>>

IssueInsert(r) ==
    /\ req[r].at = "inserting"
    /\ codes' = Append(codes, [user |-> req[r].user, purpose |-> Purpose[req[r].kind],
                               state |-> "live", accepted |-> 0])
    /\ Release(r)
    /\ req' = [req EXCEPT ![r].at = "texting", ![r].code = Len(codes) + 1]
    /\ UNCHANGED <<texted, shared, raced>>

\* The outer connection of a forgotten password goes back when its request ends.
EndsTexting(r) ==
    /\ Ends(r)
    /\ IF req[r].kind = "forgot" THEN Release(r) ELSE UNCHANGED conns

\* SmsService.send, which looks its provider up first.
Text(r) ==
    /\ req[r].at = "texting" /\ Free
    /\ texted' = texted \cup {req[r].code}
    /\ EndsTexting(r)
    /\ UNCHANGED <<codes, shared, raced>>

\* "SMS delivery failed"
TextFails(r) == req[r].at = "texting" /\ Free /\ EndsTexting(r) /\ NoCodeStep

-----------------------------------------------------------------------------
(* verifyLoginOtp, resetPassword, consumeOtp *)

\* resetPassword looks the active user up first.
ConsumeStart(r) ==
    /\ Waits(r, "verify") \/ Waits(r, "reset")
    /\ Acquire(r) /\ Advances(r, "consuming") /\ NoCodeStep

\* Mutant: an error is thrown with no finally around it.
ReleasesNot(r) == UNCHANGED conns
\* finally { client.release() }
ReleasesOnError(r) == Release(r)

\* otp and purpose match, used = FALSE AND expires_at > NOW()
Valid(r) ==
    /\ Live(req[r].code)
    /\ SameUse(req[r].code, req[r].user, Purpose[req[r].kind])

ConsumeRead(r) ==
    LET c == req[r].code
    IN  /\ req[r].at = "consuming" /\ Valid(r)
        /\ Advances(r, "marking")
        /\ shared' = shared \cup
              (IF \E q \in Requests : req[q].at = "marking" /\ req[q].code = c THEN {c} ELSE {})
        /\ UNCHANGED <<codes, texted, conns, raced>>

\* "Invalid or expired OTP", or the user whose password it is about is not active.
ConsumeRefused(r) ==
    /\ req[r].at = "consuming" /\ (Valid(r) => req[r].kind = "reset")
    /\ ReleasesOnError(r) /\ Ends(r) /\ NoCodeStep

\* UPDATE otp_tokens SET used = TRUE WHERE id = ...
Used(c) == codes' = [codes EXCEPT ![c].state = "used", ![c].accepted = @ + 1]

\* resetPassword stores the password, or finds it weak; a login's user is not active.
MarkEnds(r) ==
    /\ req[r].at = "marking"
    /\ Used(req[r].code)
    /\ Release(r) /\ Ends(r)
    /\ UNCHANGED <<texted, shared, raced>>

MarkLogin(r) ==
    /\ req[r].at = "marking" /\ req[r].kind = "verify"
    /\ Used(req[r].code)
    /\ Advances(r, "naming")
    /\ UNCHANGED <<texted, conns, shared, raced>>

\* prisma.tenant.findUnique, on a second connection; then the access token.
NameTenant(r) == req[r].at = "naming" /\ Free /\ Ends(r) /\ Release(r) /\ NoCodeStep

-----------------------------------------------------------------------------
(* Time, and a server that stops. *)

Expire(c) ==
    /\ Live(c)
    /\ codes' = [codes EXCEPT ![c].state = "expired"]
    /\ UNCHANGED <<texted, req, conns, shared, raced>>

ServerStops ==
    /\ req' = [r \in Requests |-> Idle]
    /\ conns' = [r \in Requests |-> 0]
    /\ NoCodeStep

-----------------------------------------------------------------------------
Handles(r) ==
    \/ LoginRead(r) \/ LoginRefused(r) \/ ForgotRead(r) \/ ForgotNobody(r)
    \/ IssueStart(r) \/ IssueInsert(r) \/ Text(r) \/ TextFails(r)
    \/ ConsumeStart(r) \/ ConsumeRead(r) \/ ConsumeRefused(r)
    \/ MarkEnds(r) \/ MarkLogin(r) \/ NameTenant(r)

AuthNext ==
    \/ \E r \in Requests :
         \/ \E kind \in Kinds, u \in Users : Asks(r, kind, u)
         \/ \E kind \in Kinds, c \in texted : Enters(r, kind, c)
         \/ Handles(r)
    \/ \E c \in DOMAIN codes : Expire(c)
    \/ ServerStops

\* A request goes on, and the pool serves those who wait in the order they came.
AuthFairness == \A r \in Requests : SF_authVars(Handles(r))

AuthSpec == AuthInit /\ [][AuthNext]_authVars /\ AuthFairness

-----------------------------------------------------------------------------
(* Properties. *)

\* Every connection is held by a request that waits for a second one.
Exhausted ==
    /\ ~Free
    /\ \A r \in Requests : conns[r] > 0 => req[r].at \in {"issuing", "texting", "naming"}

(***************************************************************************)
(* Every request is answered in the end, unless the pool runs out for      *)
(* good, and only one thing can make it: as many forgotten passwords and   *)
(* verifications at once as it has connections, each holding one and       *)
(* waiting for another.                                                    *)
(***************************************************************************)
EveryRequestEnds ==
    \A r \in Requests : req[r].at # "idle" ~> req[r].at = "idle" \/ Exhausted

(***************************************************************************)
(* Of a user's codes for one purpose only the last one issued is live, and *)
(* a code is accepted once.  Two are live when requests issued them at the *)
(* same time, until the next is issued; one is accepted twice when two     *)
(* requests consume it at the same time.                                   *)
(***************************************************************************)
OneCodeOnce ==
    \A c \in DOMAIN codes :
        /\ codes[c].accepted > 1 => c \in shared
        /\ Live(c) /\ <<codes[c].user, codes[c].purpose>> \notin raced =>
              \A d \in c + 1..Len(codes) : ~SameUse(d, codes[c].user, codes[c].purpose)
=============================================================================

---------------------------- MODULE SignIn ----------------------------
(* Signing in (packages/identity, packages/ratelimit and the web actions that
   use them): the emailed code or link, the attempt budget and the growing
   delay behind it, the second factor, recovery codes, passkeys, sessions and
   the one-time setup of the installation.

   One address and one account.  A request runs statement by statement, as the
   code does outside a transaction, so two tabs, or a person and somebody else
   at the same form, interleave between any read and the write that follows it.
   A secret is abstracted to whether it is the right one; a one-time proof is
   named by what it proves (a challenge, a step of a seed, a recovery code, a
   passkey ceremony, the setup) so that accepting it twice can be seen. *)
EXTENDS Integers, FiniteSets
CONSTANTS
    Callers,          \* requests that may be under way together
    ChallengeIds,     \* login challenges and passkey ceremonies, in the order they are made
    RecoveryCodes,    \* the codes of the batches issued
    SessionIds,       \* sessions, in the order they are established
    maxAttempts,      \* wrong guesses a challenge takes
    CodeTtl, ResendCooldown, StepUpTtl, IdleTtl, AbsoluteTtl, PendingTtl,
    WindowSize, WindowLimit,  \* the rate limit of an address
    FreeFailures,     \* failures before the delay begins
    MaxFailures,      \* bound on counted failures
    MaxSeeds,         \* bound on enrolments of an authenticator
    MaxClock, Horizon, \* bounds on time: over all scenes, and in each
    SignInScenes      \* which part of the module a behaviour looks at
ASSUME SignInAssumption ==
    /\ maxAttempts \in Nat \ {0} /\ ChallengeIds \subseteq Nat \ {0} /\ IsFiniteSet(Callers) /\ MaxSeeds \in Nat \ {0}
    /\ MaxClock \in Nat /\ \A s \in SignInScenes : Horizon[s] \in 0..MaxClock
    /\ {CodeTtl, ResendCooldown, StepUpTtl, IdleTtl, AbsoluteTtl, PendingTtl} \subseteq Nat \ {0}
VARIABLES
    part,        \* the scene of this behaviour
    clock,
    hasAccount,  \* whether the address belongs to somebody
    challenges,  \* login_challenges
    guessed,     \* wrong secrets that were compared, per challenge
    window,      \* rate_limit_windows of the address, and the process's exhaustion cache
    pressure,    \* authentication_pressure of the address
    request,     \* what each caller is in the middle of
    totp,        \* totp_credentials
    recovery,    \* recovery_codes
    pending,     \* the signed cookie between the two factors: when it lapses
    sessions,    \* sessions, by the order of their creation
    ceremonies,  \* webauthn_challenges
    credential,  \* the account's passkey
    bootstrap,   \* installation_bootstrap
    accepted     \* how often each proof was accepted
codeVars == <<challenges, guessed, window, pressure>>
factorVars == <<totp, recovery, pending>>
passkeyVars == <<ceremonies, credential>>
signInVars == <<part, clock, hasAccount, codeVars, request, factorVars, sessions, passkeyVars, bootstrap, accepted>>

Quiet == [stage |-> "idle"]
NoChallenge == [live |-> FALSE]
LoginChallenge(method, resent) ==
    [live |-> TRUE, method |-> method, known |-> hasAccount, consumed |-> FALSE, superseded |-> FALSE,
     attempts |-> 0, sentAt |-> clock, expiresAt |-> clock + CodeTtl, resendCount |-> resent]
Active(row) == row.live /\ ~row.consumed /\ ~row.superseded
Issued(rows) == {i \in ChallengeIds : rows[i].live}
Fewer(S) == CHOOSE n \in S : \A k \in S : n <= k
Accept(proof) == accepted' = [accepted EXCEPT ![proof] = @ + 1]
Proofs ==
    ({"challenge", "passkey"} \X ChallengeIds) \cup ({"step"} \X ((0..MaxSeeds) \X (0..MaxClock + 1)))
    \cup ({"recovery"} \X RecoveryCodes) \cup {<<"setup", 0>>}

-----------------------------------------------------------------------
(* Limits. *)
startOfWindow(now) == (now \div WindowSize) * WindowSize
\* Counting is one statement; a window found full is remembered until it ends.
consume ==
    LET fresh == window.start # startOfWindow(clock)
        full == ~fresh /\ window.cached
        count == (IF fresh THEN 0 ELSE window.count) + 1
    IN  [allowed |-> ~full /\ count <= WindowLimit,
         row |-> IF full THEN window
                 ELSE [start |-> startOfWindow(clock), count |-> count, cached |-> count > WindowLimit]]
delayForAttempt(failures) == IF failures <= FreeFailures THEN 0 ELSE 1
remainingDelaySeconds == pressure.failures > 0 /\ pressure.next > clock
pruneExpiredWindows ==
    /\ window.start + WindowSize <= clock /\ window.count > 0
    /\ window' = [window EXCEPT !.count = 0, !.cached = FALSE]
    /\ UNCHANGED <<part, clock, hasAccount, challenges, guessed, pressure, request, factorVars, sessions, passkeyVars, bootstrap, accepted>>

-----------------------------------------------------------------------
(* The emailed challenge. *)
CodeFrame == UNCHANGED <<part, clock, hasAccount, factorVars, passkeyVars, bootstrap>>
requestSignInAction(c, method) ==
    /\ request[c] = Quiet
    /\ Issued(challenges) # ChallengeIds
    /\ LET limit == consume
           live == {i \in ChallengeIds : Active(challenges[i])}
           resting == \E i \in live : /\ clock - challenges[i].sentAt < ResendCooldown
                                      /\ challenges[i].expiresAt > clock
       IN  /\ window' = limit.row
           /\ request' = IF ~limit.allowed \/ resting THEN request
                         ELSE [request EXCEPT ![c] =
                                [stage |-> "superseding", method |-> method,
                                 resent |-> IF live = {} THEN 0 ELSE challenges[Fewer(live)].resendCount + 1]]
    /\ UNCHANGED <<challenges, guessed, pressure, sessions, accepted>> /\ CodeFrame
supersedeLive(c) ==
    /\ request[c].stage = "superseding"
    /\ challenges' = [i \in ChallengeIds |->
                        IF Active(challenges[i]) THEN [challenges[i] EXCEPT !.superseded = TRUE] ELSE challenges[i]]
    /\ request' = [request EXCEPT ![c].stage = "inserting"]
    /\ UNCHANGED <<guessed, window, pressure, sessions, accepted>> /\ CodeFrame
\* A second live challenge is refused by the unique index and the request fails.
issue(c) ==
    /\ request[c].stage = "inserting"
    /\ LET free == ChallengeIds \ Issued(challenges)
       IN  challenges' = IF free = {} \/ \E i \in ChallengeIds : Active(challenges[i]) THEN challenges
                         ELSE [challenges EXCEPT ![Fewer(free)] = LoginChallenge(request[c].method, request[c].resent)]
    /\ request' = [request EXCEPT ![c] = Quiet]
    /\ UNCHANGED <<guessed, window, pressure, sessions, accepted>> /\ CodeFrame

\* What the row as it was read, the browser and the secret lead to.
Judged(row, bound, right) ==
    IF ~row.live \/ row.consumed \/ row.superseded \/ row.expiresAt <= clock
       \/ row.attempts >= maxAttempts THEN "failing"
    ELSE IF (row.method = "email_code" /\ ~bound) \/ ~right THEN "counting"
    ELSE IF ~row.known THEN "failing" ELSE "consuming"
\* Verifying: the delay, the limit, then the challenge is read and the secret compared.
verifySignIn(c, i, bound, right) ==
    /\ request[c] = Quiet
    /\ ~remainingDelaySeconds
    /\ LET limit == consume
           to == Judged(challenges[i], bound, right)
       IN  /\ window' = limit.row
           /\ request' = IF limit.allowed THEN [request EXCEPT ![c] = [stage |-> to, id |-> i]] ELSE request
           /\ guessed' = IF limit.allowed /\ to = "counting" THEN [guessed EXCEPT ![i] = @ + 1] ELSE guessed
    /\ UNCHANGED <<challenges, pressure, sessions, accepted>> /\ CodeFrame
countAttempt_ForSecretsOnly(c) ==
    /\ request[c].stage = "counting"
    /\ request' = [request EXCEPT ![c].stage = "failing"]
    /\ challenges' = IF challenges[request[c].id].method = "email_code" THEN challenges
                     ELSE [challenges EXCEPT ![request[c].id].attempts = IF @ < maxAttempts THEN @ + 1 ELSE @]
    /\ UNCHANGED <<guessed, window, pressure, sessions, accepted>> /\ CodeFrame
countAttempt(c) ==
    /\ request[c].stage = "counting"
    /\ challenges' = [challenges EXCEPT ![request[c].id].attempts = IF @ < maxAttempts THEN @ + 1 ELSE @]
    /\ request' = [request EXCEPT ![c].stage = "failing"]
    /\ UNCHANGED <<guessed, window, pressure, sessions, accepted>> /\ CodeFrame
\* Spending the challenge is conditional on nobody having spent it, and on nothing else.
verify(c) ==
    /\ request[c].stage = "consuming"
    /\ LET i == request[c].id
       IN  IF challenges[i].live /\ ~challenges[i].consumed
             THEN /\ challenges' = [challenges EXCEPT ![i].consumed = TRUE]
                  /\ request' = [request EXCEPT ![c].stage = "clearing"]
                  /\ Accept(<<"challenge", i>>)
             ELSE /\ request' = [request EXCEPT ![c].stage = "failing"] /\ UNCHANGED <<challenges, accepted>>
    /\ UNCHANGED <<guessed, window, pressure, sessions>> /\ CodeFrame
\* A failure is counted by one statement and the delay it earns is written by the next.
recordFailure(c) ==
    /\ request[c].stage \in {"failing", "delaying"}
    /\ IF request[c].stage = "failing"
         THEN /\ pressure.failures < MaxFailures
              /\ pressure' = [pressure EXCEPT !.failures = @ + 1]
              /\ request' = [request EXCEPT ![c] = [stage |-> "delaying", count |-> pressure.failures + 1]]
         ELSE /\ pressure' = IF pressure.failures = 0 THEN pressure
                             ELSE [pressure EXCEPT !.next = IF delayForAttempt(request[c].count) = 0 THEN 0
                                                            ELSE clock + delayForAttempt(request[c].count)]
              /\ request' = [request EXCEPT ![c] = Quiet]
    /\ UNCHANGED <<challenges, guessed, window, sessions, accepted>> /\ CodeFrame

-----------------------------------------------------------------------
(* Sessions. *)
NoSession == [live |-> FALSE]
resolve(s) ==
    /\ sessions[s].live /\ ~sessions[s].revoked
    /\ sessions[s].absolute > clock /\ sessions[s].idle > clock
\* Reading a session pushes its idle deadline on, never past the absolute one.
slideIdleDeadline(s) ==
    [sessions EXCEPT ![s].idle = IF clock + IdleTtl < sessions[s].absolute THEN clock + IdleTtl ELSE sessions[s].absolute]
hasRecentAuthentication(s) == clock - sessions[s].authAt < StepUpTtl
Established ==
    [sessions EXCEPT ![Fewer({s \in SessionIds : ~sessions[s].live})] =
        [live |-> TRUE, revoked |-> FALSE, authAt |-> clock, idle |-> clock + IdleTtl, absolute |-> clock + AbsoluteTtl]]
establishSession(c) ==
    /\ request[c].stage = "establishing"
    /\ \E s \in SessionIds : ~sessions[s].live
    /\ sessions' = Established
    /\ request' = [request EXCEPT ![c] = Quiet]
    /\ UNCHANGED <<codeVars, accepted>> /\ CodeFrame
\* The verified address: its pressure is forgotten, and a second factor is asked for if one is on.
Verified(c) ==
    /\ request[c].stage = "clearing"
    /\ pressure' = [failures |-> 0, next |-> 0]
    /\ IF totp.status = "active"
         THEN pending' = clock + PendingTtl /\ request' = [request EXCEPT ![c] = Quiet]
         ELSE request' = [request EXCEPT ![c].stage = "establishing"] /\ UNCHANGED pending
    /\ UNCHANGED <<part, clock, hasAccount, challenges, guessed, window, totp, recovery, sessions, passkeyVars, bootstrap, accepted>>
SessionFrame == UNCHANGED <<part, clock, hasAccount, codeVars, factorVars, request, passkeyVars, bootstrap, accepted>>
signOutAction(s) ==
    /\ resolve(s) /\ sessions' = [slideIdleDeadline(s) EXCEPT ![s].revoked = TRUE] /\ SessionFrame
revokeSessionAction(s, other) ==
    /\ resolve(s) /\ resolve(other) /\ s # other
    /\ sessions' = [slideIdleDeadline(s) EXCEPT ![other].revoked = TRUE] /\ SessionFrame
signOutEverywhereAction(s) ==
    /\ resolve(s)
    /\ sessions' = [i \in SessionIds |-> IF sessions[i].live THEN [sessions[i] EXCEPT !.revoked = TRUE] ELSE sessions[i]]
    /\ SessionFrame

-----------------------------------------------------------------------
(* The second factor. *)
FactorFrame == UNCHANGED <<part, clock, hasAccount, codeVars, passkeyVars, bootstrap>>
NoTotp == [status |-> "none", seed |-> 0, last |-> -1]
\* A code is read against the credential; using its step up is a compare-and-set on the step
\* that was read, whatever credential is there by then.
check(step, requireActive) ==
    /\ totp.status # "none" /\ (requireActive => totp.status = "active")
    /\ step \in {clock - 1, clock, clock + 1} \cap Nat
    /\ step > totp.last
Stepping(step, then, s) == [stage |-> "stepping", step |-> step, seed |-> totp.seed, last |-> totp.last, then |-> then, session |-> s]
useStep_Unconditional(c) ==
    /\ request[c].stage = "stepping"
    /\ totp' = IF totp.status = "none" THEN totp ELSE [totp EXCEPT !.last = request[c].step]
    /\ request' = [request EXCEPT ![c].stage = request[c].then]
    /\ Accept(<<"step", <<request[c].seed, request[c].step>>>>)
    /\ UNCHANGED <<recovery, pending, sessions>> /\ FactorFrame
useStep(c) ==
    /\ request[c].stage = "stepping"
    /\ IF totp.status # "none" /\ totp.last = request[c].last
         THEN /\ totp' = [totp EXCEPT !.last = request[c].step]
              /\ request' = [request EXCEPT ![c].stage = request[c].then]
              /\ Accept(<<"step", <<request[c].seed, request[c].step>>>>)
         ELSE request' = [request EXCEPT ![c] = Quiet] /\ UNCHANGED <<totp, accepted>>
    /\ UNCHANGED <<recovery, pending, sessions>> /\ FactorFrame
\* Spending a recovery code is one conditional statement.
consumeRecoveryCode(r) ==
    /\ recovery[r] = "live"
    /\ recovery' = [recovery EXCEPT ![r] = "consumed"]
    /\ Accept(<<"recovery", r>>)
Invalidated == [r \in RecoveryCodes |-> IF recovery[r] = "live" THEN "invalidated" ELSE recovery[r]]
\* The half-finished sign-in is a signed cookie: nothing on the server remembers it.
verifySecondFactorAction(c) ==
    /\ request[c] = Quiet /\ pending > clock
    /\ \/ \E step \in 0..MaxClock + 1 :
             /\ check(step, TRUE)
             /\ request' = [request EXCEPT ![c] = Stepping(step, "admitted", 0)]
             /\ UNCHANGED <<recovery, accepted>>
       \/ \E r \in RecoveryCodes :
             consumeRecoveryCode(r) /\ request' = [request EXCEPT ![c] = [stage |-> "admitted"]]
    /\ UNCHANGED <<totp, pending, sessions>> /\ FactorFrame
Admitted(c) ==
    /\ request[c].stage = "admitted"
    /\ pending' = 0
    /\ request' = [request EXCEPT ![c] = [stage |-> "establishing"]]
    /\ UNCHANGED <<totp, recovery, sessions, accepted>> /\ FactorFrame
\* Security settings need a session that authenticated lately.
Settled(s) == resolve(s) /\ hasRecentAuthentication(s)
beginTotpEnrollmentAction(s) ==
    /\ Settled(s) /\ totp.seed < MaxSeeds
    /\ totp' = [status |-> "pending", seed |-> totp.seed + 1, last |-> -1]
    /\ sessions' = slideIdleDeadline(s)
    /\ UNCHANGED <<request, recovery, pending, accepted>> /\ FactorFrame
activateTotpAction(c, s) ==
    /\ request[c] = Quiet /\ Settled(s)
    /\ \E step \in 0..MaxClock + 1 :
          check(step, FALSE) /\ request' = [request EXCEPT ![c] = Stepping(step, "activating", s)]
    /\ sessions' = slideIdleDeadline(s)
    /\ UNCHANGED <<totp, recovery, pending, accepted>> /\ FactorFrame
activateTotp(c) ==
    /\ request[c].stage = "activating"
    /\ totp' = IF totp.status = "none" THEN totp ELSE [totp EXCEPT !.status = "active"]
    /\ request' = [request EXCEPT ![c] = [stage |-> "issuing"]]
    /\ UNCHANGED <<recovery, pending, sessions, accepted>> /\ FactorFrame
\* Issuing a batch of codes withdraws the codes nobody used.
issueRecoveryCodes(c) ==
    /\ request[c].stage = "issuing"
    /\ recovery' = LET free == {r \in RecoveryCodes : recovery[r] = "unissued"}
                   IN  IF free = {} THEN Invalidated ELSE [Invalidated EXCEPT ![CHOOSE r \in free : TRUE] = "live"]
    /\ request' = [request EXCEPT ![c] = Quiet]
    /\ UNCHANGED <<totp, pending, sessions, accepted>> /\ FactorFrame
regenerateRecoveryCodesAction(c, s) ==
    /\ request[c] = Quiet /\ Settled(s) /\ \E r \in RecoveryCodes : recovery[r] = "unissued"
    /\ request' = [request EXCEPT ![c] = [stage |-> "issuing"]]
    /\ sessions' = slideIdleDeadline(s)
    /\ UNCHANGED <<totp, recovery, pending, accepted>> /\ FactorFrame
\* Turning the factor off takes a proof of it first.
disableTotpAction(c, s) ==
    /\ request[c] = Quiet /\ Settled(s)
    /\ \/ \E step \in 0..MaxClock + 1 :
             /\ check(step, TRUE) /\ request' = [request EXCEPT ![c] = Stepping(step, "disabling", s)]
             /\ UNCHANGED <<recovery, accepted>>
       \/ \E r \in RecoveryCodes :
             consumeRecoveryCode(r) /\ request' = [request EXCEPT ![c] = [stage |-> "disabling"]]
    /\ sessions' = slideIdleDeadline(s)
    /\ UNCHANGED <<totp, pending>> /\ FactorFrame
disableTotp(c) ==
    /\ request[c].stage = "disabling"
    /\ totp' = [totp EXCEPT !.status = "none", !.last = -1]
    /\ recovery' = Invalidated
    /\ request' = [request EXCEPT ![c] = Quiet]
    /\ UNCHANGED <<pending, sessions, accepted>> /\ FactorFrame

-----------------------------------------------------------------------
(* Passkeys: a ceremony is spent by one conditional statement, then the answer is checked. *)
PasskeyFrame == UNCHANGED <<part, clock, hasAccount, codeVars, factorVars, sessions, bootstrap>>
storeChallenge(kind) ==
    /\ \E i \in ChallengeIds : ~ceremonies[i].live
    /\ ceremonies' = [ceremonies EXCEPT ![Fewer({i \in ChallengeIds : ~ceremonies[i].live})] =
                        [live |-> TRUE, kind |-> kind, consumed |-> FALSE, expiresAt |-> clock + CodeTtl]]
    /\ UNCHANGED <<credential, request, accepted>> /\ PasskeyFrame
consumeChallenge(i, kind) ==
    /\ ceremonies[i].live /\ ceremonies[i].kind = kind
    /\ ~ceremonies[i].consumed /\ ceremonies[i].expiresAt > clock
    /\ ceremonies' = [ceremonies EXCEPT ![i].consumed = TRUE]
finishRegistration(c, i, right) ==
    /\ request[c] = Quiet
    /\ consumeChallenge(i, "registration")
    /\ credential' = IF right /\ ~credential.registered THEN [credential EXCEPT !.registered = TRUE] ELSE credential
    /\ IF right THEN Accept(<<"passkey", i>>) ELSE UNCHANGED accepted
    /\ UNCHANGED request /\ PasskeyFrame
\* The authenticator counts its own uses; the row is read, the answer checked, the count written.
finishAuthentication(c, i, right) ==
    /\ request[c] = Quiet
    /\ consumeChallenge(i, "authentication")
    /\ IF right /\ credential.registered
         THEN /\ credential' = [credential EXCEPT !.device = @ + 1]
              /\ request' = [request EXCEPT ![c] = [stage |-> "counted", counter |-> credential.device + 1]]
              /\ Accept(<<"passkey", i>>)
         ELSE UNCHANGED <<credential, request, accepted>>
    /\ PasskeyFrame
saveCounter(c) ==
    /\ request[c].stage = "counted"
    /\ credential' = IF credential.registered THEN [credential EXCEPT !.signCount = request[c].counter] ELSE credential
    /\ request' = [request EXCEPT ![c] = Quiet]
    /\ UNCHANGED <<ceremonies, accepted>> /\ PasskeyFrame
removePasskeyAction ==
    /\ credential.registered
    /\ credential' = [credential EXCEPT !.registered = FALSE, !.signCount = 0]
    /\ UNCHANGED <<ceremonies, request, accepted>> /\ PasskeyFrame

-----------------------------------------------------------------------
(* The first administrator. *)
SetupFrame == UNCHANGED <<part, clock, hasAccount, codeVars, factorVars, sessions, passkeyVars>>
requestSetupLinkAction(configured) ==
    /\ bootstrap.open
    /\ bootstrap' = IF configured THEN [bootstrap EXCEPT !.link = TRUE, !.expiresAt = clock + CodeTtl]
                    ELSE [bootstrap EXCEPT !.failed = TRUE]
    /\ UNCHANGED <<request, accepted>> /\ SetupFrame
completeSetupAction(c, right) ==
    /\ request[c] = Quiet /\ bootstrap.open
    /\ IF right /\ bootstrap.link /\ bootstrap.expiresAt > clock
         THEN request' = [request EXCEPT ![c] = [stage |-> "closing"]] /\ UNCHANGED bootstrap
         ELSE bootstrap' = [bootstrap EXCEPT !.failed = TRUE] /\ UNCHANGED request
    /\ UNCHANGED accepted /\ SetupFrame
\* Closing the setup and making the administrator are one transaction, open setups only.
complete(c) ==
    /\ request[c].stage = "closing"
    /\ request' = [request EXCEPT ![c] = Quiet]
    /\ IF bootstrap.open
         THEN /\ bootstrap' = [bootstrap EXCEPT !.open = FALSE, !.link = FALSE, !.expiresAt = 0]
              /\ Accept(<<"setup", 0>>)
         ELSE UNCHANGED <<bootstrap, accepted>>
    /\ SetupFrame

-----------------------------------------------------------------------
Tick ==
    /\ clock < Horizon[part] /\ clock' = clock + 1
    /\ UNCHANGED <<part, hasAccount, codeVars, request, factorVars, sessions, passkeyVars, bootstrap, accepted>>
SignInInit ==
    /\ part \in SignInScenes
    /\ clock = 0
    /\ hasAccount \in IF part = "codes" THEN BOOLEAN ELSE {TRUE}
    /\ challenges = [i \in ChallengeIds |-> NoChallenge]
    /\ guessed = [i \in ChallengeIds |-> 0]
    /\ window = [start |-> 0, count |-> 0, cached |-> FALSE]
    /\ pressure = [failures |-> 0, next |-> 0]
    /\ request = [c \in Callers |-> Quiet]
    /\ totp \in {NoTotp} \cup IF part = "factor" THEN {[status |-> "active", seed |-> 1, last |-> 0]} ELSE {}
    /\ recovery = [r \in RecoveryCodes |-> "unissued"]
    /\ pending = IF totp.status = "active" THEN PendingTtl ELSE 0
    /\ sessions = IF part = "factor"
                    THEN [s \in SessionIds |-> IF s = 1 THEN [live |-> TRUE, revoked |-> FALSE, authAt |-> 0, idle |-> IdleTtl, absolute |-> AbsoluteTtl]
                                              ELSE NoSession]
                    ELSE [s \in SessionIds |-> NoSession]
    /\ ceremonies = [i \in ChallengeIds |-> NoChallenge]
    /\ credential = [registered |-> FALSE, signCount |-> 0, device |-> 0]
    /\ bootstrap = [open |-> part = "setup", link |-> FALSE, expiresAt |-> 0, failed |-> FALSE]
    /\ accepted = [p \in Proofs |-> 0]
CodeStep(c) ==
    \/ \E method \in {"magic_link", "email_code"} : requestSignInAction(c, method)
    \/ supersedeLive(c) \/ issue(c) \/ countAttempt(c) \/ verify(c) \/ recordFailure(c)
    \/ \E i \in ChallengeIds, bound, right \in BOOLEAN : challenges[i].live /\ verifySignIn(c, i, bound, right)
FactorStep(c) ==
    \/ verifySecondFactorAction(c) \/ useStep(c) \/ Admitted(c) \/ activateTotp(c) \/ issueRecoveryCodes(c) \/ disableTotp(c)
    \/ \E s \in SessionIds : \/ beginTotpEnrollmentAction(s) \/ activateTotpAction(c, s)
                             \/ regenerateRecoveryCodesAction(c, s) \/ disableTotpAction(c, s)
SessionStep ==
    \E s \in SessionIds : signOutAction(s) \/ signOutEverywhereAction(s) \/ \E o \in SessionIds : revokeSessionAction(s, o)
PasskeyStep(c) ==
    \/ \E kind \in {"registration", "authentication"} : storeChallenge(kind)
    \/ \E i \in ChallengeIds, right \in BOOLEAN : finishRegistration(c, i, right) \/ finishAuthentication(c, i, right)
    \/ saveCounter(c) \/ removePasskeyAction
SetupStep(c) ==
    \/ \E right \in BOOLEAN : requestSetupLinkAction(right) \/ completeSetupAction(c, right)
    \/ complete(c)
SignInNext ==
    \/ Tick
    \/ part = "codes" /\ (pruneExpiredWindows \/ \E c \in Callers : CodeStep(c))
    \/ part \in {"codes", "factor"} /\ \E c \in Callers : establishSession(c)
    \/ part = "codes" /\ \E c \in Callers : Verified(c)
    \/ part = "factor" /\ (SessionStep \/ \E c \in Callers : FactorStep(c))
    \/ part = "passkeys" /\ \E c \in Callers : PasskeyStep(c)
    \/ part = "setup" /\ \E c \in Callers : SetupStep(c)
SignInSpec == SignInInit /\ [][SignInNext]_signInVars

-----------------------------------------------------------------------
\* However many requests guess together, a challenge has at most maxAttempts wrong guesses compared
\* with it, and one more for every other request that had read it before the last one was counted
\* (challenges.ts verify and countAttempt read, compare and count in separate statements).
GuessesAreBounded == \A i \in ChallengeIds : guessed[i] <= maxAttempts + Cardinality(Callers) - 1
\* No one-time proof is accepted twice: not a challenge, a recovery code, a passkey ceremony, the setup
\* of the installation or a step of the authenticator enrolled now, whichever requests present it
\* together (the conditional updates of challenges.ts, twofactor.ts, passkeys.ts and bootstrap.ts).
\* The steps of an authenticator that has been replaced are not covered: enrolling again forgets the
\* last step used, and a request that had read the old one can still use its step up.
ProofIsSpentOnce ==
    \A p \in Proofs : accepted[p] > 1 => p[1] = "step" /\ p[2][1] # totp.seed
====

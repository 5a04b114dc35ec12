----------------------------- MODULE WalletAuth -----------------------------
(***************************************************************************)
(* How a wallet becomes a session: api/auth/challenge, api/auth/verify,    *)
(* api/auth/session and security/wallet-auth.ts, as the server executes    *)
(* them for any number of overlapping requests.  A verify request is       *)
(* limited, looks its challenge up, checks the signature and consumes the  *)
(* challenge in a transaction; time passes and other requests run between  *)
(* these steps.  A request may come twice (a retried POST), its answer may *)
(* be lost, and a restart forgets the rate limiter, which is a Map of the  *)
(* process.                                                                *)
(*                                                                         *)
(* Abstractions.  A signature is good or it is not (a contract wallet's is *)
(* not); messages, nonces and tokens are the rows they belong to.  Origins *)
(* are right and bodies parse.                                             *)
(***************************************************************************)
EXTENDS Integers, FiniteSets, FiniteSetsExt

CONSTANTS
  Wallets,        \* the wallets that sign in, with the chain they are on
  Challenges,     \* bound: rows of walletChallenge
  Requests,       \* bound: verify requests in flight
  Nobody,         \* no wallet, no challenge
  ChallengeTtl,   \* CHALLENGE_TTL_MS
  ChallengeLimit, \* challenges one address may ask for in a RateWindow
  VerifyLimit,    \* verifications of one wallet in a RateWindow
  RateWindow,     \* windowMs
  LastTick        \* bound: the clock stops here

ASSUME NobodyIsNobody == Nobody \notin Wallets \cup Challenges
ASSUME AuthLimits ==
  /\ {ChallengeTtl, RateWindow} \subseteq Nat \ {0}
  /\ {ChallengeLimit, VerifyLimit} \subseteq Nat \ {0}
  /\ LastTick \in Nat

\* The keys of the limiter: challenge:<address>, and verify:<wallet>.
Address   == "address"
LimitKeys == {Address} \cup Wallets
Limit(k)  == IF k = Address THEN ChallengeLimit ELSE VerifyLimit

Ticks == 0 .. LastTick

VARIABLES
  clock,      \* the server's clock
  challenge,  \* [Challenges -> row]: wallet, expiresAt, consumedAt
  request,    \* [Requests -> the state of a verify handler]
  sessions,   \* the rows of userSession
  attempts,   \* [LimitKeys -> count and resetAt]: the limiter's Map
  passed      \* [LimitKeys -> [Ticks -> Nat]]: what it has let through since
              \* the last restart; not a variable of the code

authVars == <<clock, challenge, request, sessions, attempts, passed>>

NoRow == [wallet |-> Nobody, expires |-> 0, consumed |-> FALSE]
Idle  == [step |-> "idle", wallet |-> Nobody, challenge |-> Nobody, signed |-> FALSE]
Fresh == [k \in LimitKeys |-> [count |-> 0, reset |-> 0]]
NoPasses == [k \in LimitKeys |-> [t \in Ticks |-> 0]]

AuthInit ==
  /\ clock = 0
  /\ challenge = [c \in Challenges |-> NoRow]
  /\ request = [q \in Requests |-> Idle]
  /\ sessions = {}
  /\ attempts = Fresh
  /\ passed = NoPasses

-----------------------------------------------------------------------------
(***************************************************************************)
(* checkAuthRateLimit: a fixed window per key, that the first attempt      *)
(* after its end opens anew.                                               *)
(***************************************************************************)

Reopened(k) == attempts[k].reset <= clock
Allowed(k)  == Reopened(k) \/ attempts[k].count < Limit(k)

\* Mutant: the attempt that opens a window is not counted.
OpenedUncounted(k) == [count |-> 0, reset |-> clock + RateWindow]

Opened(k) == [count |-> 1, reset |-> clock + RateWindow]

Pass(k) ==
  /\ Allowed(k)
  /\ attempts' = [attempts EXCEPT ![k] =
       IF Reopened(k) THEN Opened(k) ELSE [attempts[k] EXCEPT !.count = @ + 1]]
  /\ passed' = [passed EXCEPT ![k][clock] = @ + 1]

-----------------------------------------------------------------------------
(***************************************************************************)
(* The handlers.                                                           *)
(***************************************************************************)

Issued(w) == [wallet |-> w, expires |-> clock + ChallengeTtl, consumed |-> FALSE]

\* POST /api/auth/challenge: the attempt counts even if the row is not written
\* (AUTH_SERVICE_UNAVAILABLE).
IssueChallenge(w) ==
  /\ Pass(Address)
  /\ \/ \E c \in {d \in Challenges : challenge[d] = NoRow} :
          challenge' = [challenge EXCEPT ![c] = Issued(w)]
     \/ UNCHANGED challenge
  /\ UNCHANGED <<clock, request, sessions>>

Move(q, step) == request' = [request EXCEPT ![q].step = step]
Answer(q)     == request' = [request EXCEPT ![q] = Idle]

\* POST /api/auth/verify up to the limiter; RATE_LIMITED leaves no trace.  The
\* body is what the browser had at hand: its account may have been switched.
Present(q, w, c, signed) ==
  /\ request[q] = Idle /\ challenge[c] # NoRow
  /\ Pass(w)
  /\ request' = [request EXCEPT ![q] =
       [step |-> "lookup", wallet |-> w, challenge |-> c, signed |-> signed]]
  /\ UNCHANGED <<clock, challenge, sessions>>

Usable(c, w) == /\ challenge[c].wallet = w
                /\ ~challenge[c].consumed
                /\ challenge[c].expires > clock

\* CHALLENGE_NOT_FOUND, CHALLENGE_ALREADY_USED, CHALLENGE_EXPIRED; or on to the
\* signature.
Lookup(q) ==
  /\ request[q].step = "lookup"
  /\ IF Usable(request[q].challenge, request[q].wallet) THEN Move(q, "signature") ELSE Answer(q)
  /\ UNCHANGED <<clock, challenge, sessions, attempts, passed>>

CheckSignature(q) ==
  /\ request[q].step = "signature"
  /\ IF request[q].signed THEN Move(q, "consume") ELSE Answer(q)
  /\ UNCHANGED <<clock, challenge, sessions, attempts, passed>>

\* Mutant: the lookup is trusted to have found it unconsumed.
ConsumableOnceSeen(c) == challenge[c].expires > clock

\* Mutant: the lookup is trusted to have found it unexpired.
ConsumableLate(c) == ~challenge[c].consumed

\* The where clause of the transaction.
Consumable(c) == ~challenge[c].consumed /\ challenge[c].expires > clock

\* The transaction: consume, upsert the user, create the session, all or
\* nothing.  Whether the answer with its cookie arrives changes nothing here.
Consume(q) ==
  /\ request[q].step = "consume"
  /\ LET c == request[q].challenge IN
       \/ /\ Consumable(c)
          /\ challenge' = [challenge EXCEPT ![c].consumed = TRUE]
          /\ sessions' = sessions \cup
               {[challenge |-> c, request |-> q, wallet |-> request[q].wallet, at |-> clock,
                 signed |-> request[q].signed, revoked |-> FALSE]}
       \/ ~Consumable(c) /\ UNCHANGED <<challenge, sessions>>
  /\ Answer(q)
  /\ UNCHANGED <<clock, attempts, passed>>

\* A database call throws: VERIFY_FAILED, nothing is written.
VerifyFails(q) ==
  /\ request[q].step \in {"lookup", "consume"}
  /\ Answer(q)
  /\ UNCHANGED <<clock, challenge, sessions, attempts, passed>>

\* DELETE /api/auth/session, of the session of the cookie.
SignOut(s) ==
  /\ ~s.revoked
  /\ sessions' = (sessions \ {s}) \cup {[s EXCEPT !.revoked = TRUE]}
  /\ UNCHANGED <<clock, challenge, request, attempts, passed>>

\* The process dies and is started again: handlers and the limiter are gone.
ServerRestart ==
  /\ attempts # Fresh
  /\ attempts' = Fresh /\ passed' = NoPasses
  /\ request' = [q \in Requests |-> Idle]
  /\ UNCHANGED <<clock, challenge, sessions>>

Tick ==
  /\ clock < LastTick
  /\ clock' = clock + 1
  /\ UNCHANGED <<challenge, request, sessions, attempts, passed>>

AuthNext ==
  \/ Tick \/ ServerRestart
  \/ \E w \in Wallets : IssueChallenge(w)
  \/ \E q \in Requests, w \in Wallets, c \in Challenges, signed \in BOOLEAN : Present(q, w, c, signed)
  \/ \E q \in Requests : Lookup(q) \/ CheckSignature(q) \/ Consume(q) \/ VerifyFails(q)
  \/ \E s \in sessions : SignOut(s)

AuthSpec == AuthInit /\ [][AuthNext]_authVars

-----------------------------------------------------------------------------
(***************************************************************************)
(* Properties.                                                             *)
(***************************************************************************)

AuthTypeOK ==
  /\ clock \in Ticks
  /\ challenge \in [Challenges -> [wallet : Wallets \cup {Nobody}, expires : Nat, consumed : BOOLEAN]]
  /\ request \in [Requests -> [step : {"idle", "lookup", "signature", "consume"},
                               wallet : Wallets \cup {Nobody},
                               challenge : Challenges \cup {Nobody}, signed : BOOLEAN]]
  /\ \A q \in Requests : request[q].step # "idle" =>
       request[q].challenge \in Challenges /\ request[q].wallet \in Wallets
  /\ sessions \subseteq [challenge : Challenges, request : Requests, wallet : Wallets,
                         at : Nat, signed : BOOLEAN, revoked : BOOLEAN]
  /\ attempts \in [LimitKeys -> [count : Nat, reset : Nat]]
  /\ passed \in [LimitKeys -> [Ticks -> Nat]]

\* A signed challenge gives one session, however many requests present it at
\* once and however long each of them takes.
OneSessionPerChallenge ==
  \A s, t \in sessions : s.challenge = t.challenge => s = t

\* A session belongs to the wallet its challenge was issued to, which signed it,
\* and was opened before the challenge expired, whatever passed between the
\* lookup and the transaction.
SessionsAreEarned ==
  \A s \in sessions : /\ challenge[s.challenge].wallet = s.wallet
                      /\ s.signed
                      /\ s.at < challenge[s.challenge].expires

\* Windows are fixed and not sliding: in no stretch as long as a window does
\* the limiter of one process let more than twice the limit through.
PassesBounded ==
  \A k \in LimitKeys, t \in Ticks :
    MapThenSumSet(LAMBDA u : passed[k][u], {u \in Ticks : t <= u /\ u < t + RateWindow})
      <= 2 * Limit(k)
=============================================================================

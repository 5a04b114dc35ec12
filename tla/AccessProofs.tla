---------------------------- MODULE AccessProofs ----------------------------
(***************************************************************************)
(* Who is let in, under which name, and with whose consent: WalletAuth,    *)
(* Browser and PolicyForm, for any number of wallets, requests, sessions   *)
(* and saves on their way.  Each rests on something it read or was told    *)
(* before it waited, and the invariants say what of that is still true.    *)
(*                                                                         *)
(* A challenge: what a request read of it stays true where it can (the     *)
(* wallet it was issued to, and that it was signed) and is asked again     *)
(* where it cannot (unconsumed, unexpired): a session then marks its       *)
(* challenge, and a marked challenge opens no other.                       *)
(*                                                                         *)
(* The limiter: its windows are fixed, so that a stretch of time as long   *)
(* as a window meets at most two of them, the present one and the one      *)
(* before; each has let through at most what it counted.                   *)
(*                                                                         *)
(* The shell: the cookie moves only in steps that tell the shell or note   *)
(* that it was not told.                                                   *)
(*                                                                         *)
(* A policy: what its row says was decided when the request was sent, and  *)
(* the form may have changed since.  The agreement is followed along its   *)
(* way: a ticked box belongs to AUTONOMOUS and to this choice of it, a     *)
(* request carries the agreement of the form it was made of, and the row   *)
(* that of the request that wrote it.                                      *)
(***************************************************************************)
EXTENDS WalletAuth, Browser, PolicyForm, FiniteProofs

-----------------------------------------------------------------------------
(***************************************************************************)
(* WalletAuth: challenges and sessions.                                    *)
(***************************************************************************)

\* A request past a check still has what the check saw.
RequestsChecked ==
  \A q \in Requests :
    /\ request[q].step \in {"signature", "consume"} =>
         challenge[request[q].challenge].wallet = request[q].wallet
    /\ request[q].step = "consume" => request[q].signed

SessionsMark == \A s \in sessions : challenge[s.challenge].consumed

AuthInv == /\ AuthTypeOK /\ RequestsChecked /\ SessionsMark
           /\ OneSessionPerChallenge /\ SessionsAreEarned

-----------------------------------------------------------------------------

Rows     == [wallet : Wallets \cup {Nobody}, expires : Nat, consumed : BOOLEAN]
Handlers == [step : {"idle", "lookup", "signature", "consume"}, wallet : Wallets \cup {Nobody},
             challenge : Challenges \cup {Nobody}, signed : BOOLEAN]
Opens    == [challenge : Challenges, request : Requests, wallet : Wallets,
             at : Nat, signed : BOOLEAN, revoked : BOOLEAN]

LEMMA InitAuth == AuthInit => AuthInv
BY AuthLimits DEF AuthInit, AuthInv, AuthTypeOK, RequestsChecked, SessionsMark,
   OneSessionPerChallenge, SessionsAreEarned, NoRow, Idle, Fresh, NoPasses, Ticks

\* The limiter's Map keeps its shape.
LEMMA PassTyped ==
  ASSUME AuthTypeOK, NEW k \in LimitKeys, Pass(k)
  PROVE  /\ attempts' \in [LimitKeys -> [count : Nat, reset : Nat]]
         /\ passed' \in [LimitKeys -> [Ticks -> Nat]]
<1>1. clock \in Nat /\ clock \in Ticks /\ RateWindow \in Nat
  BY AuthLimits DEF AuthTypeOK, Ticks
<1>2. Opened(k) \in [count : Nat, reset : Nat]
  BY <1>1 DEF Opened
<1>3. attempts[k] \in [count : Nat, reset : Nat]
  BY DEF AuthTypeOK
<1>4. attempts' = [attempts EXCEPT ![k] =
        IF Reopened(k) THEN Opened(k) ELSE [attempts[k] EXCEPT !.count = attempts[k].count + 1]]
  BY DEF Pass
<1>5. attempts' \in [LimitKeys -> [count : Nat, reset : Nat]]
  BY <1>2, <1>3, <1>4 DEF AuthTypeOK
<1>6. passed[k] \in [Ticks -> Nat]
  BY DEF AuthTypeOK
<1>7. [passed[k] EXCEPT ![clock] = passed[k][clock] + 1] \in [Ticks -> Nat]
  BY <1>1, <1>6
<1>8. passed' = [passed EXCEPT ![k] = [passed[k] EXCEPT ![clock] = passed[k][clock] + 1]]
  BY DEF Pass
<1> QED
  BY <1>5, <1>7, <1>8 DEF AuthTypeOK

\* A handler that ends, or goes on to another step.
LEMMA MovedRequest ==
  ASSUME AuthTypeOK, NEW q \in Requests, request[q].step # "idle",
         \/ Answer(q)
         \/ \E step \in {"signature", "consume"} : Move(q, step)
  PROVE  /\ request' \in [Requests -> Handlers]
         /\ \A p \in Requests : p # q => request'[p] = request[p]
         /\ request'[q] = Idle \/ /\ request'[q].challenge = request[q].challenge
                                  /\ request'[q].wallet = request[q].wallet
                                  /\ request'[q].signed = request[q].signed
         /\ \A p \in Requests : request'[p].step # "idle" =>
              request'[p].challenge \in Challenges /\ request'[p].wallet \in Wallets
<1>1. CASE Answer(q)
  BY <1>1 DEF Answer, AuthTypeOK, Idle, Handlers
<1>2. CASE \E step \in {"signature", "consume"} : Move(q, step)
  BY <1>2 DEF Move, AuthTypeOK, Handlers
<1> QED
  BY <1>1, <1>2

-----------------------------------------------------------------------------
(***************************************************************************)
(* The steps.                                                              *)
(***************************************************************************)

\* A new challenge takes a row that no request and no session is about.
LEMMA IssuingKept ==
  ASSUME AuthInv, NEW w \in Wallets, IssueChallenge(w)
  PROVE  AuthInv'
<1>1. /\ attempts' \in [LimitKeys -> [count : Nat, reset : Nat]]
      /\ passed' \in [LimitKeys -> [Ticks -> Nat]]
  BY PassTyped DEF IssueChallenge, AuthInv, LimitKeys
<1>2. UNCHANGED <<clock, request, sessions>>
  BY DEF IssueChallenge
<1>3. Issued(w) \in Rows
  BY AuthLimits DEF Issued, Rows, AuthInv, AuthTypeOK, Ticks
<1>4. \/ UNCHANGED challenge
      \/ \E c \in Challenges : /\ challenge[c] = NoRow
                               /\ challenge' = [challenge EXCEPT ![c] = Issued(w)]
  BY DEF IssueChallenge
<1>5. /\ challenge' \in [Challenges -> Rows]
      /\ \A c \in Challenges : challenge[c] # NoRow => challenge'[c] = challenge[c]
  BY <1>3, <1>4 DEF AuthInv, AuthTypeOK, Rows
<1>6. AuthTypeOK'
  BY <1>1, <1>2, <1>5 DEF AuthInv, AuthTypeOK, Rows
<1>7. \A q \in Requests : request[q].step \in {"signature", "consume"} =>
        challenge'[request[q].challenge] = challenge[request[q].challenge]
  BY <1>5, NobodyIsNobody DEF AuthInv, AuthTypeOK, RequestsChecked, NoRow
<1>8. \A s \in sessions : challenge'[s.challenge] = challenge[s.challenge]
  BY <1>5 DEF AuthInv, AuthTypeOK, SessionsMark, NoRow
<1>9. RequestsChecked'
  BY <1>2, <1>7 DEF AuthInv, RequestsChecked
<1>10. SessionsMark' /\ OneSessionPerChallenge' /\ SessionsAreEarned'
  BY <1>2, <1>8 DEF AuthInv, SessionsMark, OneSessionPerChallenge, SessionsAreEarned
<1> QED
  BY <1>6, <1>9, <1>10 DEF AuthInv

LEMMA PresentingKept ==
  ASSUME AuthInv, NEW q \in Requests, NEW w \in Wallets, NEW c \in Challenges,
         NEW signed \in BOOLEAN, Present(q, w, c, signed)
  PROVE  AuthInv'
<1>1. /\ attempts' \in [LimitKeys -> [count : Nat, reset : Nat]]
      /\ passed' \in [LimitKeys -> [Ticks -> Nat]]
  BY PassTyped DEF Present, AuthInv, LimitKeys
<1>2. UNCHANGED <<clock, challenge, sessions>>
  BY DEF Present
<1>3. request' = [request EXCEPT ![q] =
        [step |-> "lookup", wallet |-> w, challenge |-> c, signed |-> signed]]
  BY DEF Present
<1>4. AuthTypeOK'
  BY <1>1, <1>2, <1>3 DEF AuthInv, AuthTypeOK
<1>5. RequestsChecked'
  BY <1>2, <1>3 DEF AuthInv, AuthTypeOK, RequestsChecked
<1>6. SessionsMark' /\ OneSessionPerChallenge' /\ SessionsAreEarned'
  BY <1>2 DEF AuthInv, SessionsMark, OneSessionPerChallenge, SessionsAreEarned
<1> QED
  BY <1>4, <1>5, <1>6 DEF AuthInv

\* A check that was passed is what the next step relies on.
LEMMA CheckingKept ==
  ASSUME AuthInv, NEW q \in Requests, Lookup(q) \/ CheckSignature(q) \/ VerifyFails(q)
  PROVE  AuthInv'
<1>1. UNCHANGED <<clock, challenge, sessions, attempts, passed>> /\ request[q].step # "idle"
  BY DEF Lookup, CheckSignature, VerifyFails
<1>2. Answer(q) \/ \E step \in {"signature", "consume"} : Move(q, step)
  BY DEF Lookup, CheckSignature, VerifyFails
<1>3. AuthTypeOK'
  BY <1>1, <1>2, MovedRequest DEF AuthInv, AuthTypeOK, Handlers
<1>4. RequestsChecked'
  <2>1. CASE Lookup(q)
    BY <2>1, <1>1 DEF Lookup, Usable, Move, Answer, Idle, AuthInv, AuthTypeOK, RequestsChecked
  <2>2. CASE CheckSignature(q)
    BY <2>2, <1>1 DEF CheckSignature, Move, Answer, Idle, AuthInv, AuthTypeOK, RequestsChecked
  <2>3. CASE VerifyFails(q)
    BY <2>3, <1>1 DEF VerifyFails, Answer, Idle, AuthInv, AuthTypeOK, RequestsChecked
  <2> QED
    BY <2>1, <2>2, <2>3
<1>5. SessionsMark' /\ OneSessionPerChallenge' /\ SessionsAreEarned'
  BY <1>1 DEF AuthInv, SessionsMark, OneSessionPerChallenge, SessionsAreEarned
<1> QED
  BY <1>3, <1>4, <1>5 DEF AuthInv

\* The transaction opens a session of a challenge that had none, and marks it.
LEMMA ConsumingKept ==
  ASSUME AuthInv, NEW q \in Requests, Consume(q)
  PROVE  AuthInv'
<1> DEFINE c == request[q].challenge
<1> DEFINE open == [challenge |-> c, request |-> q, wallet |-> request[q].wallet, at |-> clock,
                    signed |-> request[q].signed, revoked |-> FALSE]
<1>1. UNCHANGED <<clock, attempts, passed>> /\ request[q].step = "consume" /\ Answer(q)
  BY DEF Consume
<1>2. /\ c \in Challenges /\ open \in Opens
      /\ challenge[c].wallet = request[q].wallet /\ request[q].signed
  BY <1>1 DEF AuthInv, AuthTypeOK, RequestsChecked, Opens, Ticks
<1>3. /\ request' \in [Requests -> Handlers]
      /\ \A p \in Requests : request'[p].step # "idle" =>
           request'[p].challenge \in Challenges /\ request'[p].wallet \in Wallets
  BY <1>1, MovedRequest DEF AuthInv
<1>4. \A p \in Requests : request'[p].step # "idle" => request'[p] = request[p]
  BY <1>1 DEF Answer, Idle, AuthInv, AuthTypeOK
<1>5. CASE ~Consumable(c) /\ UNCHANGED <<challenge, sessions>>
  <2>1. AuthTypeOK'
    BY <1>1, <1>3, <1>5 DEF AuthInv, AuthTypeOK, Handlers
  <2>2. RequestsChecked'
    BY <1>4, <1>5 DEF AuthInv, RequestsChecked
  <2> QED
    BY <1>5, <2>1, <2>2 DEF AuthInv, SessionsMark, OneSessionPerChallenge, SessionsAreEarned
<1>6. CASE /\ Consumable(c)
           /\ challenge' = [challenge EXCEPT ![c].consumed = TRUE]
           /\ sessions' = sessions \cup {open}
  <2>1. /\ challenge' \in [Challenges -> Rows] /\ challenge'[c].consumed
        /\ \A d \in Challenges : /\ challenge'[d].wallet = challenge[d].wallet
                                 /\ challenge'[d].expires = challenge[d].expires
                                 /\ challenge[d].consumed => challenge'[d].consumed
    <3>1. challenge[c] \in Rows /\ challenge' = [challenge EXCEPT ![c] = [challenge[c] EXCEPT !.consumed = TRUE]]
      BY <1>2, <1>6 DEF AuthInv, AuthTypeOK, Rows
    <3>2. challenge \in [Challenges -> Rows]
      BY DEF AuthInv, AuthTypeOK, Rows
    <3> QED
      BY <1>2, <3>1, <3>2 DEF Rows
  <2>2. sessions' \subseteq Opens
    BY <1>2, <1>6 DEF AuthInv, AuthTypeOK, Opens
  <2>3. AuthTypeOK'
    BY <1>1, <1>3, <2>1, <2>2 DEF AuthInv, AuthTypeOK, Handlers, Rows, Opens
  <2>4. RequestsChecked'
    BY <1>3, <1>4, <2>1 DEF AuthInv, RequestsChecked
  <2>5. \A s \in sessions : s.challenge \in Challenges /\ s.challenge # c
    BY <1>6 DEF Consumable, AuthInv, AuthTypeOK, SessionsMark
  <2>6. SessionsMark'
    BY <1>6, <2>1, <2>5 DEF AuthInv, SessionsMark
  <2>7. OneSessionPerChallenge'
    <3> SUFFICES ASSUME NEW s \in sessions', NEW t \in sessions', s.challenge = t.challenge
                 PROVE  s = t
      BY DEF OneSessionPerChallenge
    <3>1. open.challenge = c
      OBVIOUS
    <3>2. (s \in sessions \/ s = open) /\ (t \in sessions \/ t = open)
      BY <1>6
    <3>3. s \in sessions /\ t \in sessions => s = t
      BY DEF AuthInv, OneSessionPerChallenge
    <3> HIDE DEF open, c
    <3> QED
      BY <2>5, <3>1, <3>2, <3>3
  <2>8. SessionsAreEarned'
    BY <1>2, <1>6, <2>1, <2>5 DEF Consumable, AuthInv, SessionsAreEarned
  <2> QED
    BY <2>3, <2>4, <2>6, <2>7, <2>8 DEF AuthInv
<1> QED
  BY <1>5, <1>6 DEF Consume

LEMMA SigningOutKept ==
  ASSUME AuthInv, NEW s \in sessions, SignOut(s)
  PROVE  AuthInv'
<1> DEFINE t == [s EXCEPT !.revoked = TRUE]
<1>1. UNCHANGED <<clock, challenge, request, attempts, passed>> /\ sessions' = (sessions \ {s}) \cup {t}
  BY DEF SignOut
<1>2. s \in Opens
  BY DEF AuthInv, AuthTypeOK, Opens
<1>3. t \in Opens /\ t.challenge = s.challenge /\ t.wallet = s.wallet /\ t.signed = s.signed /\ t.at = s.at
  BY <1>2 DEF Opens
<1>4. AuthTypeOK'
  BY <1>1, <1>3 DEF AuthInv, AuthTypeOK, Opens
<1>5. RequestsChecked'
  BY <1>1 DEF AuthInv, RequestsChecked
<1>6. SessionsMark' /\ SessionsAreEarned'
  <2>1. \A u \in sessions' : u \in sessions \/ u = t
    BY <1>1
  <2>2. \A u \in sessions : /\ challenge[u.challenge].consumed /\ u.signed
                            /\ challenge[u.challenge].wallet = u.wallet
                            /\ u.at < challenge[u.challenge].expires
    BY DEF AuthInv, SessionsMark, SessionsAreEarned
  <2>3. /\ challenge[t.challenge].consumed /\ t.signed
        /\ challenge[t.challenge].wallet = t.wallet
        /\ t.at < challenge[t.challenge].expires
    BY <1>3, <2>2
  <2> HIDE DEF t
  <2> QED
    BY <1>1, <2>1, <2>2, <2>3 DEF SessionsMark, SessionsAreEarned
<1>7. OneSessionPerChallenge'
  <2> SUFFICES ASSUME NEW u \in sessions', NEW v \in sessions', u.challenge = v.challenge
               PROVE  u = v
    BY DEF OneSessionPerChallenge
  <2>1. \A r \in sessions : r.challenge = s.challenge => r = s
    BY DEF AuthInv, OneSessionPerChallenge
  <2>2. (u \in sessions \ {s} \/ u = t) /\ (v \in sessions \ {s} \/ v = t)
    BY <1>1
  <2>3. u \in sessions /\ v \in sessions => u = v
    BY DEF AuthInv, OneSessionPerChallenge
  <2>4. t.challenge = s.challenge
    BY <1>3
  <2> HIDE DEF t
  <2> QED
    BY <2>1, <2>2, <2>3, <2>4
<1> QED
  BY <1>4, <1>5, <1>6, <1>7 DEF AuthInv

\* Time passes, or the process is started again: rows stay.
LEMMA PassingKept ==
  ASSUME AuthInv, Tick \/ ServerRestart
  PROVE  AuthInv'
<1>1. UNCHANGED <<challenge, sessions>>
  BY DEF Tick, ServerRestart
<1>2. CASE Tick
  BY <1>2, AuthLimits DEF Tick, AuthInv, AuthTypeOK, RequestsChecked, SessionsMark,
     OneSessionPerChallenge, SessionsAreEarned, Ticks
<1>3. CASE ServerRestart
  <2>1. AuthTypeOK'
    BY <1>3 DEF ServerRestart, AuthInv, AuthTypeOK, Idle, Fresh, NoPasses
  <2>2. RequestsChecked'
    BY <1>3 DEF ServerRestart, RequestsChecked, Idle
  <2> QED
    BY <1>1, <2>1, <2>2 DEF AuthInv, SessionsMark, OneSessionPerChallenge, SessionsAreEarned
<1> QED
  BY <1>2, <1>3

LEMMA StepAuth == AuthInv /\ [AuthNext]_authVars => AuthInv'
<1> SUFFICES ASSUME AuthInv, [AuthNext]_authVars PROVE AuthInv'
    OBVIOUS
<1>1. CASE AuthNext
  BY <1>1, IssuingKept, PresentingKept, CheckingKept, ConsumingKept, SigningOutKept, PassingKept
     DEF AuthNext
<1>2. CASE UNCHANGED authVars
  BY <1>2 DEF authVars, AuthInv, AuthTypeOK, RequestsChecked, SessionsMark,
     OneSessionPerChallenge, SessionsAreEarned
<1> QED
  BY <1>1, <1>2

-----------------------------------------------------------------------------

\* Every reachable state is well typed, requests rest on checks that still hold,
\* and sessions mark their challenges.
THEOREM AuthInvariant == AuthSpec => []AuthInv
BY InitAuth, StepAuth, PTL DEF AuthSpec

\* However many requests present a challenge at once, it opens one session.
THEOREM ChallengeIsConsumedOnce == AuthSpec => []OneSessionPerChallenge
<1>1. AuthInv => OneSessionPerChallenge
  BY DEF AuthInv
<1> QED
  BY AuthInvariant, <1>1, PTL

\* Every session was opened before its challenge expired and for the wallet that
\* signed it, whatever passed between the checks and the transaction.
THEOREM SessionsWereEarned == AuthSpec => []SessionsAreEarned
<1>1. AuthInv => SessionsAreEarned
  BY DEF AuthInv
<1> QED
  BY AuthInvariant, <1>1, PTL
-----------------------------------------------------------------------------
(***************************************************************************)
(* WalletAuth: the limiter.                                                *)
(***************************************************************************)

\* What the limiter of key k has let through in a set of ticks.
LetThrough(k, S) == SumFunctionOnSet(passed[k], S)

Stretch(t)        == {u \in Ticks : t <= u /\ u < t + RateWindow}
InWindow(k)       == {u \in Ticks : attempts[k].reset <= u + RateWindow}
InWindowBefore(k) == {u \in Ticks : /\ u + RateWindow < attempts[k].reset
                                    /\ attempts[k].reset <= u + RateWindow + RateWindow}

\* The window of a key has let through what it counted, and as much time before
\* it no more than a window may.
Windowed(k) ==
  /\ attempts[k].count <= Limit(k)
  /\ attempts[k].reset <= clock + RateWindow
  /\ \A u \in Ticks : passed[k][u] # 0 => u < attempts[k].reset
  /\ LetThrough(k, InWindow(k)) <= attempts[k].count
  /\ LetThrough(k, InWindowBefore(k)) <= Limit(k)

Stretches == \A k \in LimitKeys, t \in Ticks : LetThrough(k, Stretch(t)) <= 2 * Limit(k)

LimiterInv == (\A k \in LimitKeys : Windowed(k)) /\ Stretches

LEMMA LimitTyped == \A k \in LimitKeys : Limit(k) \in Nat \ {0}
BY AuthLimits DEF Limit

LEMMA TicksFinite == Ticks \in SUBSET Nat /\ \A S \in SUBSET Ticks : IsFiniteSet(S)
<1>1. 0 \in Int /\ LastTick \in Int
  BY AuthLimits
<1>2. IsFiniteSet(0 .. LastTick)
  BY <1>1, FS_Interval
<1>3. IsFiniteSet(Ticks) /\ Ticks \in SUBSET Nat
  BY <1>2, AuthLimits DEF Ticks
<1> QED
  BY <1>3, FS_Subset

LEMMA StretchesArePasses == Stretches <=> PassesBounded
<1>1. \A k \in LimitKeys, t \in Ticks :
        LetThrough(k, Stretch(t))
          = MapThenSumSet(LAMBDA u : passed[k][u], {u \in Ticks : t <= u /\ u < t + RateWindow})
  BY DEF LetThrough, Stretch, MapThenSumSet, SumFunctionOnSet, FoldFunctionOnSet
<1> QED
  BY <1>1 DEF Stretches, PassesBounded

\* One more at x.
LEMMA OneMore ==
  ASSUME NEW D, NEW f \in [D -> Nat], NEW S \in SUBSET D, NEW x \in D, IsFiniteSet(S)
  PROVE  LET g == [f EXCEPT ![x] = f[x] + 1]
         IN  /\ NatOn(f, S) /\ NatOn(g, S)
             /\ SumFunctionOnSet(f, S) \in Nat
             /\ SumFunctionOnSet(g, S) =
                  IF x \in S THEN SumFunctionOnSet(f, S) + 1 ELSE SumFunctionOnSet(f, S)
<1> DEFINE g == [f EXCEPT ![x] = f[x] + 1]
<1>1. g \in [D -> Nat] /\ g[x] = f[x] + 1 /\ \A y \in D : y # x => g[y] = f[y]
  OBVIOUS
<1> HIDE DEF g
<1>2. NatOn(f, S) /\ NatOn(g, S)
  BY <1>1 DEF NatOn
<1>3. SumFunctionOnSet(f, S) \in Nat
  BY <1>2, SumType
<1>4. CASE x \notin S
  <2>1. \A y \in S : f[y] = g[y]
    BY <1>1, <1>4
  <2>2. SumFunctionOnSet(f, S) = SumFunctionOnSet(g, S)
    BY <1>2, <2>1, SumCongruence
  <2> QED
    BY <1>2, <1>3, <1>4, <2>2 DEF g
<1>5. CASE x \in S
  <2> DEFINE R == S \ {x}
  <2>1. /\ IsFiniteSet(R) /\ NatOn(f, R)
        /\ \A y \in R : f[y] = g[y]
    BY <1>1, <1>2, FS_RemoveElement DEF NatOn
  <2>2. SumFunctionOnSet(f, R) = SumFunctionOnSet(g, R) /\ SumFunctionOnSet(f, R) \in Nat
    <3> HIDE DEF R
    <3> QED
      BY <2>1, SumCongruence, SumType
  <2>3. /\ SumFunctionOnSet(f, S) = f[x] + SumFunctionOnSet(f, R)
        /\ SumFunctionOnSet(g, S) = g[x] + SumFunctionOnSet(g, R)
    <3>1. SumFunctionOnSet(f, S) = f[x] + SumFunctionOnSet(f, S \ {x})
      BY <1>2, <1>5, SumRemove
    <3>2. SumFunctionOnSet(g, S) = g[x] + SumFunctionOnSet(g, S \ {x})
      BY <1>2, <1>5, SumRemove
    <3> QED
      BY <3>1, <3>2
  <2>4. f[x] \in Nat
    OBVIOUS
  <2>5. SumFunctionOnSet(g, S) = SumFunctionOnSet(f, S) + 1
    <3> HIDE DEF R
    <3> QED
      BY <1>1, <2>2, <2>3, <2>4
  <2> QED
    BY <1>2, <1>3, <1>5, <2>5 DEF g
<1> QED
  BY <1>4, <1>5

\* What an attempt that is let through does to the sums of its key.
LEMMA PassCounts ==
  ASSUME AuthTypeOK, NEW k \in LimitKeys, Pass(k), NEW S \in SUBSET Ticks
  PROVE  /\ LetThrough(k, S) \in Nat /\ LetThrough(k, S)' \in Nat
         /\ NatOn(passed[k], S) /\ NatOn(passed'[k], S)
         /\ LetThrough(k, S)' = IF clock \in S THEN LetThrough(k, S) + 1 ELSE LetThrough(k, S)
<1>1. passed[k] \in [Ticks -> Nat] /\ clock \in Ticks /\ IsFiniteSet(S)
  BY TicksFinite DEF AuthTypeOK
<1>2. passed'[k] = [passed[k] EXCEPT ![clock] = passed[k][clock] + 1]
  BY DEF Pass, AuthTypeOK
<1> QED
  BY <1>1, <1>2, OneMore DEF LetThrough

\* The window that is open goes on.
LEMMA ContinuedWindow ==
  ASSUME AuthTypeOK, NEW k \in LimitKeys, Windowed(k), Pass(k), ~Reopened(k), clock' = clock
  PROVE  Windowed(k)'
<1>1. /\ clock \in Nat /\ clock \in Ticks /\ RateWindow \in Nat /\ Limit(k) \in Nat
      /\ attempts[k] \in [count : Nat, reset : Nat]
      /\ passed[k] \in [Ticks -> Nat]
  BY AuthLimits, LimitTyped DEF AuthTypeOK, Ticks
<1>2. attempts'[k].count = attempts[k].count + 1 /\ attempts'[k].reset = attempts[k].reset
  BY <1>1 DEF Pass, AuthTypeOK
<1>3. clock < attempts[k].reset /\ attempts[k].count < Limit(k)
  BY <1>1 DEF Pass, Allowed, Reopened
<1>4. InWindow(k)' = InWindow(k) /\ InWindowBefore(k)' = InWindowBefore(k)
  BY <1>2 DEF InWindow, InWindowBefore
<1>5. clock \in InWindow(k) /\ clock \notin InWindowBefore(k)
  BY <1>1 DEF Windowed, InWindow, InWindowBefore
<1>6. /\ LetThrough(k, InWindow(k))' = LetThrough(k, InWindow(k)) + 1
      /\ LetThrough(k, InWindow(k)) \in Nat
  <2>1. InWindow(k) \in SUBSET Ticks
    BY DEF InWindow
  <2> QED
    BY <1>4, <1>5, <2>1, PassCounts DEF LetThrough
<1>7. LetThrough(k, InWindowBefore(k))' = LetThrough(k, InWindowBefore(k))
  <2>1. InWindowBefore(k) \in SUBSET Ticks
    BY DEF InWindowBefore
  <2> QED
    BY <1>4, <1>5, <2>1, PassCounts DEF LetThrough
<1>8. \A u \in Ticks : u # clock => passed'[k][u] = passed[k][u]
  BY <1>1 DEF Pass, AuthTypeOK
<1> QED
  BY <1>1, <1>2, <1>3, <1>6, <1>7, <1>8 DEF Windowed

\* The window that has ended becomes the one before.
LEMMA OpenedWindow ==
  ASSUME AuthTypeOK, NEW k \in LimitKeys, Windowed(k), Pass(k), Reopened(k), clock' = clock
  PROVE  Windowed(k)'
<1>1. /\ clock \in Nat /\ clock \in Ticks /\ RateWindow \in Nat \ {0} /\ Limit(k) \in Nat \ {0}
      /\ attempts[k] \in [count : Nat, reset : Nat]
      /\ passed[k] \in [Ticks -> Nat]
      /\ Ticks \in SUBSET Nat
  BY AuthLimits, LimitTyped DEF AuthTypeOK, Ticks
<1>2. attempts'[k].count = 1 /\ attempts'[k].reset = clock + RateWindow
  BY <1>1 DEF Pass, Opened, AuthTypeOK
<1>3. attempts[k].reset <= clock
  BY DEF Reopened
<1>4. InWindow(k)' = {u \in Ticks : clock <= u}
  BY <1>1, <1>2 DEF InWindow
<1>5. InWindowBefore(k)' = {u \in Ticks : u < clock /\ clock <= u + RateWindow}
  <2>1. \A u \in Ticks : /\ u + RateWindow < clock + RateWindow <=> u < clock
                         /\ clock + RateWindow <= u + RateWindow + RateWindow <=> clock <= u + RateWindow
    <3> SUFFICES ASSUME NEW u \in Nat
                 PROVE  /\ u + RateWindow < clock + RateWindow <=> u < clock
                        /\ clock + RateWindow <= u + RateWindow + RateWindow <=> clock <= u + RateWindow
      BY <1>1
    <3> QED
      BY <1>1
  <2> QED
    BY <1>2, <2>1 DEF InWindowBefore
<1> DEFINE N == {u \in Ticks : clock <= u}
           B == {u \in Ticks : u < clock /\ clock <= u + RateWindow}
<1>6. LetThrough(k, N)' = 1
  <2>1. \A u \in N : passed[k][u] = 0
    <3> SUFFICES ASSUME NEW u \in N PROVE passed[k][u] = 0
      OBVIOUS
    <3>1. u \in Ticks /\ u \in Nat /\ clock <= u
      BY <1>1
    <3>2. ~(u < attempts[k].reset)
      BY <1>1, <1>3, <3>1
    <3> QED
      BY <3>1, <3>2 DEF Windowed
  <2>2. N \in SUBSET Ticks /\ clock \in N
    BY <1>1
  <2>3. NatOn(passed[k], N) /\ IsFiniteSet(N)
    BY <1>1, <2>2, TicksFinite DEF NatOn
  <2>4. LetThrough(k, N) <= Cardinality(N) * 0 /\ LetThrough(k, N) \in Nat /\ Cardinality(N) \in Nat
    <3> HIDE DEF N
    <3>1. \A u \in N : passed[k][u] <= 0
      BY <2>1
    <3> QED
      BY <2>3, <3>1, SumBound, SumType, FS_CardinalityType DEF LetThrough
  <2>5. LetThrough(k, N) = 0
    BY <2>4
  <2>6. LetThrough(k, N)' = LetThrough(k, N) + 1
    <3>1. \A S \in SUBSET Ticks : clock \in S =>
            SumFunctionOnSet(passed'[k], S) = SumFunctionOnSet(passed[k], S) + 1
      BY PassCounts DEF LetThrough
    <3>2. SumFunctionOnSet(passed'[k], N) = SumFunctionOnSet(passed[k], N) + 1
      BY <2>2, <3>1
    <3>3. {u \in Ticks : clock' <= u} = N
      OBVIOUS
    <3> QED
      BY <3>2, <3>3 DEF LetThrough
  <2> QED
    BY <2>5, <2>6
<1>7. LetThrough(k, B)' <= Limit(k)
  <2>1. B \in SUBSET Ticks /\ clock \notin B
    BY <1>1
  <2>2. B \in SUBSET InWindow(k) /\ InWindow(k) \in SUBSET Ticks
    <3>1. ASSUME NEW u \in Ticks, clock <= u + RateWindow PROVE attempts[k].reset <= u + RateWindow
      <4>1. u \in Nat /\ attempts[k].reset \in Nat
        BY <1>1
      <4> QED
        BY <1>1, <1>3, <3>1, <4>1
    <3>2. \A u \in B : u \in InWindow(k)
      BY <3>1 DEF InWindow
    <3> QED
      BY <3>2 DEF InWindow
  <2>3. NatOn(passed[k], InWindow(k)) /\ IsFiniteSet(InWindow(k))
    BY <1>1, <2>2, TicksFinite DEF NatOn
  <2>4. LetThrough(k, B) <= LetThrough(k, InWindow(k))
    <3> HIDE DEF B
    <3> QED
      BY <2>2, <2>3, SumSubset DEF LetThrough
  <2>5. LetThrough(k, B) \in Nat /\ LetThrough(k, InWindow(k)) \in Nat
    <3> HIDE DEF B
    <3> QED
      BY <2>1, <2>2, PassCounts
  <2>6. LetThrough(k, B)' = LetThrough(k, B)
    <3>1. \A S \in SUBSET Ticks : clock \notin S =>
            SumFunctionOnSet(passed'[k], S) = SumFunctionOnSet(passed[k], S)
      BY PassCounts DEF LetThrough
    <3>2. SumFunctionOnSet(passed'[k], B) = SumFunctionOnSet(passed[k], B)
      BY <2>1, <3>1
    <3>3. {u \in Ticks : u < clock' /\ clock' <= u + RateWindow} = B
      OBVIOUS
    <3> QED
      BY <3>2, <3>3 DEF LetThrough
  <2> HIDE DEF B
  <2> QED
    BY <1>1, <2>4, <2>5, <2>6 DEF Windowed
<1>8. /\ LetThrough(k, InWindow(k))' = 1
      /\ LetThrough(k, InWindowBefore(k))' <= Limit(k)
  BY <1>4, <1>5, <1>6, <1>7 DEF LetThrough
<1>9. \A u \in Ticks : passed'[k][u] # 0 => u < clock + RateWindow
  <2> SUFFICES ASSUME NEW u \in Ticks, passed'[k][u] # 0 PROVE u < clock + RateWindow
    OBVIOUS
  <2>1. u = clock \/ passed'[k][u] = passed[k][u]
    BY <1>1 DEF Pass, AuthTypeOK
  <2>2. u = clock \/ u < attempts[k].reset
    BY <2>1 DEF Windowed
  <2>3. u \in Nat
    BY <1>1
  <2> QED
    BY <1>1, <1>3, <2>2, <2>3
<1> QED
  BY <1>1, <1>2, <1>8, <1>9 DEF Windowed

\* A stretch that meets this moment lies in the window and the one before.
StretchFits ==
  \A k \in LimitKeys, t \in Ticks :
    AuthTypeOK /\ Windowed(k) /\ clock \in Stretch(t) => LetThrough(k, Stretch(t)) <= 2 * Limit(k)

LEMMA StretchesFit == StretchFits
<1> SUFFICES ASSUME AuthTypeOK, NEW k \in LimitKeys, NEW t \in Ticks, Windowed(k), clock \in Stretch(t)
             PROVE  LetThrough(k, Stretch(t)) <= 2 * Limit(k)
  BY DEF StretchFits
<1> DEFINE S == Stretch(t)
           P == {u \in S : u + RateWindow < attempts[k].reset}
<1>1. /\ clock \in Nat /\ RateWindow \in Nat \ {0} /\ Limit(k) \in Nat /\ t \in Nat
      /\ attempts[k] \in [count : Nat, reset : Nat] /\ passed[k] \in [Ticks -> Nat]
      /\ Ticks \in SUBSET Nat
  BY AuthLimits, LimitTyped DEF AuthTypeOK, Ticks
<1>2. clock < t + RateWindow
  BY DEF Stretch
<1>3. /\ S \in SUBSET Ticks /\ P \in SUBSET S
      /\ InWindow(k) \in SUBSET Ticks /\ InWindowBefore(k) \in SUBSET Ticks
  BY DEF Stretch, InWindow, InWindowBefore
<1>4. P \in SUBSET InWindowBefore(k)
  <2> SUFFICES ASSUME NEW u \in P PROVE u \in InWindowBefore(k)
    OBVIOUS
  <2>1. u \in Ticks /\ t <= u /\ u + RateWindow < attempts[k].reset
    BY DEF Stretch
  <2>2. attempts[k].reset <= clock + RateWindow
    BY DEF Windowed
  <2>3. u \in Nat /\ attempts[k].reset \in Nat
    BY <1>1, <2>1
  <2>4. attempts[k].reset <= u + RateWindow + RateWindow
    BY <1>1, <1>2, <2>1, <2>2, <2>3
  <2> QED
    BY <2>1, <2>4 DEF InWindowBefore
<1>5. S \ P \in SUBSET InWindow(k)
  <2> SUFFICES ASSUME NEW u \in S, u \notin P PROVE u \in InWindow(k)
    OBVIOUS
  <2>1. u \in Ticks /\ ~(u + RateWindow < attempts[k].reset)
    BY <1>3
  <2>2. u \in Nat /\ attempts[k].reset \in Nat
    BY <1>1, <2>1
  <2>3. attempts[k].reset <= u + RateWindow
    BY <1>1, <2>1, <2>2
  <2> QED
    BY <2>1, <2>3 DEF InWindow
<1>6. \A T \in SUBSET Ticks : IsFiniteSet(T) /\ NatOn(passed[k], T) /\ LetThrough(k, T) \in Nat
  <2> SUFFICES ASSUME NEW T \in SUBSET Ticks
               PROVE  IsFiniteSet(T) /\ NatOn(passed[k], T) /\ LetThrough(k, T) \in Nat
    OBVIOUS
  <2>1. IsFiniteSet(T) /\ NatOn(passed[k], T)
    BY <1>1, TicksFinite DEF NatOn
  <2> QED
    BY <2>1, SumType DEF LetThrough
<1> HIDE DEF S, P
<1>7. S \ P \in SUBSET Ticks /\ P \in SUBSET Ticks
  BY <1>3
<1>8. LetThrough(k, S) = LetThrough(k, P) + LetThrough(k, S \ P)
  BY <1>3, <1>6, SumParts DEF LetThrough
<1>9. LetThrough(k, P) <= LetThrough(k, InWindowBefore(k))
  BY <1>3, <1>4, <1>6, SumSubset DEF LetThrough
<1>10. LetThrough(k, S \ P) <= LetThrough(k, InWindow(k))
  BY <1>3, <1>5, <1>6, SumSubset DEF LetThrough
<1>11. /\ LetThrough(k, InWindowBefore(k)) <= Limit(k)
       /\ LetThrough(k, InWindow(k)) <= attempts[k].count /\ attempts[k].count <= Limit(k)
  BY DEF Windowed
<1>12. PICK a \in Nat, b \in Nat, c \in Nat, d \in Nat, e \in Nat :
         /\ a = LetThrough(k, P) /\ b = LetThrough(k, S \ P) /\ e = attempts[k].count
         /\ c = LetThrough(k, InWindowBefore(k)) /\ d = LetThrough(k, InWindow(k))
  BY <1>1, <1>3, <1>6, <1>7
<1>13. LetThrough(k, S) <= 2 * Limit(k)
  <2>1. a + b <= 2 * Limit(k)
    BY <1>1, <1>9, <1>10, <1>11, <1>12
  <2> QED
    BY <1>8, <1>12, <2>1
<1> QED
  BY <1>13 DEF S

\* Before the first attempt, and after a restart.
Untouched == attempts = Fresh /\ passed = NoPasses /\ clock \in Ticks

UntouchedIsFine == Untouched => LimiterInv

LEMMA UntouchedFine == UntouchedIsFine
<1> SUFFICES ASSUME Untouched PROVE LimiterInv
  BY DEF UntouchedIsFine
<1>1. ASSUME NEW k \in LimitKeys
      PROVE  /\ attempts[k].count = 0 /\ attempts[k].reset = 0
             /\ \A u \in Ticks : passed[k][u] = 0
             /\ Limit(k) \in Nat /\ clock \in Nat /\ RateWindow \in Nat
  BY LimitTyped, AuthLimits, TicksFinite DEF Untouched, Fresh, NoPasses
<1>2. ASSUME NEW k \in LimitKeys, NEW S \in SUBSET Ticks PROVE LetThrough(k, S) = 0
  <2>1. NatOn(passed[k], S) /\ (\A u \in S : passed[k][u] <= 0) /\ IsFiniteSet(S)
    <3>1. \A u \in S : passed[k][u] = 0
      BY <1>1
    <3> QED
      BY <3>1, TicksFinite DEF NatOn
  <2>2. LetThrough(k, S) <= Cardinality(S) * 0 /\ LetThrough(k, S) \in Nat /\ Cardinality(S) \in Nat
    BY <2>1, SumBound, SumType, FS_CardinalityType DEF LetThrough
  <2> QED
    BY <2>2
<1>3. /\ \A k \in LimitKeys : InWindow(k) \in SUBSET Ticks /\ InWindowBefore(k) \in SUBSET Ticks
      /\ \A t \in Ticks : Stretch(t) \in SUBSET Ticks
  BY DEF InWindow, InWindowBefore, Stretch
<1>4. \A k \in LimitKeys : Windowed(k)
  BY <1>1, <1>2, <1>3 DEF Windowed
<1>5. Stretches
  <2> SUFFICES ASSUME NEW k \in LimitKeys, NEW t \in Ticks
               PROVE  LetThrough(k, Stretch(t)) <= 2 * Limit(k)
    BY DEF Stretches
  <2> QED
    BY <1>1, <1>2, <1>3
<1> QED
  BY <1>4, <1>5 DEF LimiterInv

\* An attempt that is let through.
LEMMA PassKept ==
  ASSUME AuthTypeOK, AuthTypeOK', LimiterInv, NEW k \in LimitKeys, Pass(k), clock' = clock
  PROVE  LimiterInv'
<1>1. \A j \in LimitKeys : j # k => attempts'[j] = attempts[j] /\ passed'[j] = passed[j]
  BY DEF Pass, AuthTypeOK
<1>2. ASSUME NEW j \in LimitKeys PROVE Windowed(j)'
  <2>1. CASE j = k
    BY <2>1, ContinuedWindow, OpenedWindow DEF LimiterInv
  <2>2. CASE j # k
    BY <1>1, <2>2 DEF LimiterInv, Windowed, LetThrough, InWindow, InWindowBefore
  <2> QED
    BY <2>1, <2>2
<1>3. ASSUME NEW j \in LimitKeys, NEW t \in Ticks
      PROVE  LetThrough(j, Stretch(t))' <= 2 * Limit(j)
  <2>1. CASE j # k
    BY <1>1, <2>1 DEF LimiterInv, Stretches, LetThrough
  <2>2. CASE j = k /\ clock \in Stretch(t)
    <3>1. StretchFits'
      BY StretchesFit, PTL
    <3>2. LetThrough(k, Stretch(t))' <= 2 * Limit(k)
      BY <1>2, <2>2, <3>1 DEF StretchFits, Stretch
    <3> QED
      BY <2>2, <3>2
  <2>3. CASE j = k /\ clock \notin Stretch(t)
    <3>1. Stretch(t) \in SUBSET Ticks
      BY DEF Stretch
    <3>2. LetThrough(k, Stretch(t))' = LetThrough(k, Stretch(t))
      BY <2>3, <3>1, PassCounts DEF LetThrough
    <3> QED
      BY <2>3, <3>2 DEF LimiterInv, Stretches
  <2> QED
    BY <2>1, <2>2, <2>3
<1> QED
  BY <1>2, <1>3 DEF LimiterInv, Stretches

\* Time passes: no sum changes, and no window is closer.
LEMMA TickKept ==
  ASSUME AuthTypeOK, LimiterInv, Tick
  PROVE  LimiterInv'
<1>1. UNCHANGED <<attempts, passed>> /\ clock' = clock + 1
  BY DEF Tick
<1>2. \A k \in LimitKeys : attempts[k].reset <= clock' + RateWindow
  <2>1. clock \in Nat /\ RateWindow \in Nat /\ \A k \in LimitKeys : attempts[k].reset \in Nat
    BY AuthLimits DEF AuthTypeOK, Ticks
  <2> QED
    BY <1>1, <2>1 DEF LimiterInv, Windowed
<1> QED
  BY <1>1, <1>2 DEF LimiterInv, Windowed, Stretches, LetThrough, InWindow, InWindowBefore, Stretch

LEMMA StepLimiter == AuthTypeOK /\ AuthTypeOK' /\ LimiterInv /\ [AuthNext]_authVars => LimiterInv'
<1> SUFFICES ASSUME AuthTypeOK, AuthTypeOK', LimiterInv, [AuthNext]_authVars PROVE LimiterInv'
  OBVIOUS
<1>1. ASSUME NEW k \in LimitKeys, Pass(k), clock' = clock PROVE LimiterInv'
  BY <1>1, PassKept
<1>2. ASSUME UNCHANGED <<clock, attempts, passed>> PROVE LimiterInv'
  BY <1>2 DEF LimiterInv, Windowed, Stretches, LetThrough, InWindow, InWindowBefore, Stretch
<1>3. CASE Tick
  BY <1>3, TickKept
<1>4. CASE ServerRestart
  <2>1. Untouched'
    BY <1>4 DEF ServerRestart, Untouched, AuthTypeOK, Fresh, NoPasses
  <2>2. UntouchedIsFine'
    BY UntouchedFine, PTL
  <2> QED
    BY <2>1, <2>2 DEF UntouchedIsFine
<1>5. CASE \E w \in Wallets : IssueChallenge(w)
  BY <1>1, <1>5 DEF IssueChallenge, LimitKeys
<1>6. CASE \E q \in Requests, w \in Wallets, c \in Challenges, signed \in BOOLEAN : Present(q, w, c, signed)
  BY <1>1, <1>6 DEF Present, LimitKeys
<1>7. CASE \E q \in Requests : Lookup(q) \/ CheckSignature(q) \/ Consume(q) \/ VerifyFails(q)
  BY <1>2, <1>7 DEF Lookup, CheckSignature, Consume, VerifyFails
<1>8. CASE \E s \in sessions : SignOut(s)
  BY <1>2, <1>8 DEF SignOut
<1>9. CASE UNCHANGED authVars
  BY <1>2, <1>9 DEF authVars
<1> QED
  BY <1>3, <1>4, <1>5, <1>6, <1>7, <1>8, <1>9 DEF AuthNext

\* In every stretch as long as a window the limiter of one process lets at most
\* twice the limit of a key through, for any limits and any length of a window.
THEOREM LimiterIsBounded == AuthSpec => []PassesBounded
<1>1. AuthInit => LimiterInv
  <2>1. AuthInit => Untouched
    BY AuthLimits DEF AuthInit, Untouched, Ticks
  <2> QED
    BY <2>1, UntouchedFine DEF UntouchedIsFine
<1>2. AuthInv => AuthTypeOK
  BY DEF AuthInv
<1>3. LimiterInv => PassesBounded
  BY StretchesArePasses DEF LimiterInv
<1> QED
  BY <1>1, <1>2, <1>3, AuthInvariant, StepLimiter, PTL DEF AuthSpec

-----------------------------------------------------------------------------
(***************************************************************************)
(* Browser.                                                                *)
(***************************************************************************)

Tabs    == [page : Pages, prop : Sessions \cup {SignedOut}, override : Sessions \cup {SignedOut, Unset}]
SignIns == [step : {"idle", "verify", "answer", "position"}, account : Accounts \cup {SignedOut},
            session : Sessions \cup {SignedOut}]

\* The shell names the cookie; a sign-in has the account it signs for, then the
\* session it was given.
BrowserInv ==
  /\ BrowserTypeOK /\ ShellNamesCookie
  /\ tab \in Tabs /\ signIn \in SignIns
  /\ signIn.step = "verify" => signIn.account \in Accounts
  /\ signIn.step = "answer" => signIn.session \in Sessions

LEMMA NobodysSession == SignedOut \notin Sessions /\ Unset \notin Sessions /\ SignedOut # Unset
BY NoSuchSession, MaxSessionsIsNat DEF Sessions

LEMMA InitBrowser == BrowserInit => BrowserInv
<1> SUFFICES ASSUME BrowserInit PROVE BrowserInv
  OBVIOUS
<1>1. tab \in Tabs /\ tab.page \in Pages /\ tab.override = Unset /\ tab.prop = SignedOut
  BY DEF BrowserInit, Tabs, Pages
<1>2. signIn \in SignIns /\ signIn.step = "idle"
  BY DEF BrowserInit, SignIns, NoSignIn
<1>3. owner \in [Sessions -> Accounts \cup {SignedOut}]
  BY DEF BrowserInit
<1> QED
  BY <1>1, <1>2, <1>3, NobodysSession DEF BrowserInit, BrowserInv, BrowserTypeOK, ShellNamesCookie,
     Active, ActiveIn

LEMMA RenderTyped ==
  ASSUME BrowserTypeOK, NEW t \in Tabs, Render(t)
  PROVE  /\ tab' = t /\ tab'.page \in Pages /\ tab'.prop \in Sessions \cup {SignedOut}
         /\ tab'.override \in Sessions \cup {SignedOut, Unset}
         /\ reconciles' \subseteq Sessions \cup {Asked}
         /\ poll' \in {"none", "sent", "ok", "401"}
BY DEF BrowserTypeOK, Render, Tabs

LEMMA StepBrowser == BrowserInv /\ [BrowserNext]_browserVars => BrowserInv'
<1> SUFFICES ASSUME BrowserInv, [BrowserNext]_browserVars PROVE BrowserInv'
  OBVIOUS
<1> USE NobodysSession DEF BrowserInv, BrowserTypeOK, ShellNamesCookie, Active, ActiveIn, Tabs, SignIns
<1>1. CASE UNCHANGED browserVars
  BY <1>1 DEF browserVars
<1>2. CASE \E p \in Pages : Navigate(p)
  <2>1. PICK p \in Pages : Navigate(p)
    BY <1>2
  <2>2. [tab EXCEPT !.page = p] \in Tabs
    OBVIOUS
  <2>3. tab' = [tab EXCEPT !.page = p] /\ UNCHANGED <<owner, live, cookie, signIn, untold>> /\ detected' = FALSE
    BY <2>1 DEF Navigate, Render
  <2>4. /\ tab'.page \in Pages /\ reconciles' \subseteq Sessions \cup {Asked}
        /\ poll' \in {"none", "sent", "ok", "401"}
    BY <2>1, <2>2, RenderTyped DEF Navigate
  <2> QED
    BY <2>2, <2>3, <2>4
<1>3. CASE Reload
  BY <1>3 DEF Reload, Rendered, NoSignIn
<1>4. CASE \E s \in Sessions : ReconcileArrives(s)
  BY <1>4 DEF ReconcileArrives
<1>5. CASE AskAgain \/ ServeReconcile \/ PollMonitor \/ ServePoll \/ PollFails
  BY <1>5 DEF AskAgain, ServeReconcile, PollMonitor, ServePoll, PollFails
<1>6. CASE PollArrives
  BY <1>6 DEF PollArrives, AfterPoll
<1>7. CASE BeginSignIn \/ SignInFails \/ ServeVerify \/ ReadPosition
  <2>1. CASE BeginSignIn \/ SignInFails \/ ReadPosition
    <3>1. UNCHANGED <<owner, live, cookie, tab, reconciles, poll, untold>> /\ detected' \in BOOLEAN
      BY <2>1 DEF BeginSignIn, SignInFails, ReadPosition, UnchangedByWallet
    <3>2. signIn' \in SignIns /\ (signIn'.step = "verify" => signIn'.account \in Accounts)
                            /\ signIn'.step # "answer"
      <4>1. CASE signIn' = NoSignIn
        BY <4>1 DEF NoSignIn
      <4>2. CASE \E a \in Accounts : signIn' = [NoSignIn EXCEPT !.step = "verify", !.account = a]
        BY <4>2 DEF NoSignIn
      <4> QED
        BY <2>1, <4>1, <4>2 DEF BeginSignIn, SignInFails, ReadPosition
    <3> QED
      BY <3>1, <3>2
  <2>2. CASE ServeVerify
    <3>1. PICK s \in Sessions : /\ owner' = [owner EXCEPT ![s] = signIn.account]
                                /\ live' = live \cup {s}
                                /\ signIn' = [NoSignIn EXCEPT !.step = "answer", !.session = s]
      BY <2>2 DEF ServeVerify
    <3>2. /\ signIn.account \in Accounts
          /\ UNCHANGED <<cookie, tab, detected, reconciles, poll, untold>>
      BY <2>2 DEF ServeVerify
    <3>3. /\ owner' \in [Sessions -> Accounts \cup {SignedOut}]
          /\ \A r \in live' : owner'[r] \in Accounts
      BY <3>1, <3>2
    <3>4. signIn' \in SignIns /\ signIn'.step = "answer" /\ signIn'.session = s
      BY <3>1 DEF NoSignIn
    <3> QED
      BY <3>1, <3>2, <3>3, <3>4
  <2> QED
    BY <1>7, <2>1, <2>2
<1>8. CASE VerifyArrives
  BY <1>8 DEF VerifyArrives, Adopted, Render, NoSignIn
<1>9. CASE LeavingReturns
  <2> DEFINE t == [page |-> "onboarding", prop |-> SignedOut, override |-> SignedOut]
  <2>1. t \in Tabs
    BY DEF Pages
  <2>2. cookie' = SignedOut /\ UNCHANGED <<owner, live, signIn>>
    BY <1>9 DEF LeavingReturns
  <2>3. CASE AnotherWallet
    BY <2>2, <2>3 DEF AnotherWallet
  <2>4. CASE Render(t) /\ detected' = FALSE /\ untold' = FALSE
    <3>1. /\ tab' = t /\ tab'.page \in Pages /\ tab'.prop \in Sessions \cup {SignedOut}
          /\ tab'.override \in Sessions \cup {SignedOut, Unset}
          /\ reconciles' \subseteq Sessions \cup {Asked} /\ poll' \in {"none", "sent", "ok", "401"}
      BY <2>1, <2>4, RenderTyped
    <3> QED
      BY <2>1, <2>2, <2>4, <3>1
  <2> QED
    BY <1>9, <2>3, <2>4 DEF LeavingReturns
<1>10. CASE LeavingFails
  <2> DEFINE t == [page |-> "onboarding", prop |-> Rendered, override |-> SignedOut]
  <2>1. t \in Tabs
    BY DEF Pages, Rendered
  <2>2. UNCHANGED <<owner, live, cookie, signIn>>
    BY <1>10 DEF LeavingFails
  <2>3. CASE AnotherWallet \/ UNCHANGED <<tab, reconciles, poll, detected, untold>>
    <3>1. UNCHANGED <<tab, reconciles, poll, untold>> /\ detected' \in BOOLEAN
      BY <2>3 DEF AnotherWallet
    <3> QED
      BY <2>2, <3>1
  <2>4. CASE Disconnected
    <3>1. /\ tab' = t /\ tab'.page \in Pages /\ tab'.prop \in Sessions \cup {SignedOut}
          /\ tab'.override \in Sessions \cup {SignedOut, Unset}
          /\ reconciles' \subseteq Sessions \cup {Asked} /\ poll' \in {"none", "sent", "ok", "401"}
      BY <2>1, <2>4, RenderTyped DEF Disconnected
    <3>2. detected' = FALSE /\ tab'.override = SignedOut /\ tab' \in Tabs
      BY <2>1, <2>4, <3>1 DEF Disconnected
    <3> QED
      BY <2>2, <3>1, <3>2
  <2> QED
    BY <1>10, <2>3, <2>4 DEF LeavingFails
<1>11. CASE \/ ServeLeaving \/ \E by \in {"another", "disconnect"} : StartLeaving(by)
            \/ \E s \in Sessions : Expire(s)
  BY <1>11 DEF ServeLeaving, StartLeaving, Expire
<1> QED
  BY <1>1, <1>2, <1>3, <1>4, <1>5, <1>6, <1>7, <1>8, <1>9, <1>10, <1>11 DEF BrowserNext

\* A shell that names an account and a cookie of another meet only after a
\* sign-in whose answer was cut off or overtaken, for any number of sessions.
THEOREM ShellNamesItsCookie == BrowserSpec => []ShellNamesCookie
<1>1. BrowserInv => ShellNamesCookie
  BY DEF BrowserInv
<1> QED
  BY InitBrowser, StepBrowser, <1>1, PTL DEF BrowserSpec

-----------------------------------------------------------------------------
(***************************************************************************)
(* PolicyForm.                                                             *)
(***************************************************************************)

FormAgreed == form.confirmed => form.policy.mode = Autonomous /\ agreed.form

PutsAgreed == \A p \in puts : p.policy.mode = Autonomous /\ p.confirmed => p.agreed

FormInv == FormTypeOK /\ FormAgreed /\ PutsAgreed /\ AutonomyConsented

-----------------------------------------------------------------------------

\* A form that takes a policy over is well typed, and confirmed iff that policy
\* is AUTONOMOUS.
LEMMA SyncedForm ==
  ASSUME NEW p \in Policies
  PROVE  /\ Synced(p) \in [policy : Policies, confirmed : BOOLEAN, dirty : BOOLEAN, busy : BOOLEAN]
         /\ Synced(p).policy = p
         /\ Synced(p).confirmed = (p.mode = Autonomous)
BY DEF Synced, Policies

LEMMA DefaultsTyped == Defaults \in Policies /\ Defaults.mode # Autonomous
BY ModesOfThePolicy DEF Defaults, Policies

LEMMA InitAgreed == FormInit => FormInv
<1> SUFFICES ASSUME FormInit PROVE FormInv
    OBVIOUS
<1>1. FormTypeOK
  <2>1. form \in [policy : Policies, confirmed : BOOLEAN, dirty : BOOLEAN, busy : BOOLEAN]
    BY SyncedForm, DefaultsTyped DEF FormInit
  <2>2. answer \in [kind : {"none", "saved", "error"}, policy : Policies]
    BY DefaultsTyped DEF FormInit, NoAnswer
  <2> QED
    BY <2>1, <2>2 DEF FormInit, FormTypeOK
<1>2. FormAgreed
  BY SyncedForm, DefaultsTyped DEF FormInit, FormAgreed
<1> QED
  BY <1>1, <1>2 DEF FormInit, FormInv, PutsAgreed, AutonomyConsented

-----------------------------------------------------------------------------
(***************************************************************************)
(* The steps, by what they touch: the form, the row, or neither.           *)
(***************************************************************************)

\* Editing the form: the box goes with the choice it was ticked for.
LEMMA EditingAgreed ==
  ASSUME FormInv, \/ \E mode \in Modes : ChooseMode(mode)
                  \/ Confirm \/ ToggleEnabled \/ SaveFailed
  PROVE  FormInv'
<1> USE DEF FormInv, FormTypeOK, FormAgreed, PutsAgreed, AutonomyConsented, Policies
<1>1. CASE \E mode \in Modes : ChooseMode(mode)
  <2>1. PICK mode \in Modes : ChooseMode(mode)
    BY <1>1
  <2>2. form.policy \in [mode : Modes, enabled : BOOLEAN] /\ agreed' = [agreed EXCEPT !.form = FALSE]
    BY <2>1 DEF ChooseMode
  <2>3. form.confirmed \in BOOLEAN /\ form.policy.mode # mode
    BY <2>1 DEF ChooseMode
  <2>4. ConfirmedAfter(mode) = FALSE
    BY <2>3 DEF ConfirmedAfter
  <2>5. form' = [form EXCEPT !.policy = [form.policy EXCEPT !.mode = mode],
                             !.dirty = TRUE, !.confirmed = FALSE]
    BY <2>1, <2>4 DEF ChooseMode
  <2>6. form' \in [policy : [mode : Modes, enabled : BOOLEAN], confirmed : BOOLEAN,
                   dirty : BOOLEAN, busy : BOOLEAN] /\ form'.confirmed = FALSE
    BY <2>2, <2>5
  <2> QED
    BY <2>1, <2>2, <2>6 DEF ChooseMode
<1>2. CASE Confirm
  BY <1>2 DEF Confirm
<1>3. CASE ToggleEnabled
  BY <1>3 DEF ToggleEnabled
<1>4. CASE SaveFailed
  BY <1>4, DefaultsTyped DEF SaveFailed, NoAnswer
<1> QED
  BY <1>1, <1>2, <1>3, <1>4

\* The form takes a policy over: the answer's, or the one of a page.
LEMMA SyncingAgreed ==
  ASSUME FormInv, SaveAnswered \/ Refresh \/ OpenForm
  PROVE  FormInv'
<1> USE DEF FormInv, FormTypeOK, FormAgreed, PutsAgreed, AutonomyConsented
<1>1. CASE SaveAnswered
  <2>1. answer.policy \in Policies
    OBVIOUS
  <2> QED
    BY <1>1, <2>1, SyncedForm, DefaultsTyped DEF SaveAnswered, NoAnswer
<1>2. CASE Refresh
  <2>1. cached \in Policies
    BY <1>2 DEF Refresh
  <2>2. /\ form' \in [policy : Policies, confirmed : BOOLEAN, dirty : BOOLEAN, busy : BOOLEAN]
        /\ form'.policy = cached /\ form'.confirmed = (cached.mode = Autonomous)
    BY <1>2, <2>1, SyncedForm DEF Refresh
  <2> QED
    BY <1>2, <2>1, <2>2 DEF Refresh
<1>3. CASE OpenForm
  <2>1. cached \in Policies
    BY <1>3 DEF OpenForm
  <2>2. /\ puts' \subseteq Puts
        /\ \A p \in puts' : p.policy.mode = Autonomous /\ p.confirmed => p.agreed
    <3>1. puts' = {[p EXCEPT !.heard = FALSE] : p \in puts}
      BY <1>3 DEF OpenForm
    <3>2. ASSUME NEW p \in puts
          PROVE  LET q == [p EXCEPT !.heard = FALSE]
                 IN  q \in Puts /\ (q.policy.mode = Autonomous /\ q.confirmed => q.agreed)
      <4>1. p \in Puts /\ (p.policy.mode = Autonomous /\ p.confirmed => p.agreed)
        OBVIOUS
      <4> QED
        BY <4>1 DEF Puts
    <3>3. ASSUME NEW q \in puts'
          PROVE  q \in Puts /\ (q.policy.mode = Autonomous /\ q.confirmed => q.agreed)
      <4>1. PICK p \in puts : q = [p EXCEPT !.heard = FALSE]
        BY <3>1, Zenon
      <4> QED
        BY <4>1, <3>2
    <3> HIDE DEF PutsAgreed, FormTypeOK, FormInv, FormAgreed, AutonomyConsented
    <3> QED
      BY <3>3, Zenon
  <2> QED
    BY <1>3, <2>1, <2>2, SyncedForm, DefaultsTyped DEF OpenForm, NoAnswer
<1> QED
  BY <1>1, <1>2, <1>3

\* A request is sent: what it asks for was agreed to.
LEMMA SavingAgreed ==
  ASSUME FormInv, Save
  PROVE  FormInv'
<1> USE DEF FormInv, FormTypeOK, FormAgreed, PutsAgreed, AutonomyConsented
<1> DEFINE put == [policy |-> form.policy, confirmed |-> form.confirmed,
                   heard |-> TRUE, agreed |-> agreed.form]
<1>1. put \in Puts /\ (put.policy.mode = Autonomous /\ put.confirmed => put.agreed)
  BY DEF Puts
<1>2. puts' = puts \cup {put}
  BY DEF Save
<1>3. puts' \subseteq Puts /\ PutsAgreed'
  BY <1>1, <1>2
<1> QED
  BY <1>3 DEF Save

\* A request is served: the row has its agreement.
LEMMA ServingAgreed ==
  ASSUME FormInv, NEW put \in puts,
         \/ PutCommits(put) \/ PutCommitsUntold(put) \/ PutRefused(put) \/ ConnectionLost(put)
  PROVE  FormInv'
<1> USE DEF FormInv, FormTypeOK, FormAgreed, PutsAgreed, AutonomyConsented
<1>1. put \in Puts /\ put.policy \in Policies /\ put.agreed \in BOOLEAN
  BY DEF Puts
<1>2. ASSUME NEW kind \in {"saved", "error"}, Answered(put, kind)
      PROVE  answer' \in [kind : {"none", "saved", "error"}, policy : Policies]
  BY <1>1, <1>2 DEF Answered
<1>3. CASE PutCommits(put)
  BY <1>1, <1>2, <1>3 DEF PutCommits, Admitted
<1>4. CASE PutCommitsUntold(put)
  BY <1>1, <1>2, <1>4 DEF PutCommitsUntold, Admitted
<1>5. CASE PutRefused(put)
  BY <1>1, <1>2, <1>5 DEF PutRefused
<1>6. CASE ConnectionLost(put)
  <2>1. /\ [put EXCEPT !.heard = FALSE] \in Puts
        /\ LET p == [put EXCEPT !.heard = FALSE]
           IN  p.policy.mode = Autonomous /\ p.confirmed => p.agreed
    BY <1>1 DEF Puts
  <2>2. puts' \subseteq Puts /\ PutsAgreed'
    BY <1>6, <2>1 DEF ConnectionLost
  <2> QED
    BY <1>1, <1>6, <2>2 DEF ConnectionLost
<1> QED
  BY <1>3, <1>4, <1>5, <1>6

\* PATCH: an update that sets AUTONOMOUS was confirmed.
LEMMA PatchingAgreed ==
  ASSUME FormInv, NEW mode \in Modes, NEW confirmed \in BOOLEAN, PatchMode(mode, confirmed)
  PROVE  FormInv'
<1> USE DEF FormInv, FormTypeOK, FormAgreed, PutsAgreed, AutonomyConsented
<1>1. stored' \in Policies /\ stored'.mode = mode
  BY DEF PatchMode, Policies
<1>2. cached' \in Policies \cup {Absent}
  BY DEF PatchMode
<1> QED
  BY <1>1, <1>2 DEF PatchMode

\* The cache of pages only ever holds policies.
LEMMA CachingAgreed ==
  ASSUME FormInv, BeginFill \/ EndFill \/ CacheExpires
  PROVE  FormInv'
<1> USE DEF FormInv, FormTypeOK, FormAgreed, PutsAgreed, AutonomyConsented
<1>1. ReadPolicy \subseteq Policies
  BY DefaultsTyped DEF ReadPolicy
<1> QED
  BY <1>1 DEF BeginFill, EndFill, CacheExpires

LEMMA FormStep == FormInv /\ [FormNext]_formVars => FormInv'
<1> SUFFICES ASSUME FormInv, [FormNext]_formVars PROVE FormInv'
    OBVIOUS
<1>1. CASE UNCHANGED formVars
  BY <1>1 DEF formVars, FormInv, FormTypeOK, FormAgreed, PutsAgreed, AutonomyConsented
<1>2. CASE FormNext
  BY <1>2, EditingAgreed, SyncingAgreed, SavingAgreed, ServingAgreed, PatchingAgreed,
     CachingAgreed DEF FormNext
<1> QED
  BY <1>1, <1>2

-----------------------------------------------------------------------------

\* Every reachable state of the form, its requests and the caches is well typed
\* and every agreement is where it should be.
THEOREM FormInvariant == FormSpec => []FormInv
BY InitAgreed, FormStep, PTL DEF FormSpec

\* Whatever the owner edits, however many requests are on their way and in what
\* order they are served, a row is AUTONOMOUS only with its writer's agreement.
THEOREM AutonomyIsConsented == FormSpec => []AutonomyConsented
<1>1. FormInv => AutonomyConsented
  BY DEF FormInv
<1> QED
  BY FormInvariant, <1>1, PTL
=============================================================================

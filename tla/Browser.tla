------------------------------ MODULE Browser -------------------------------
(***************************************************************************)
(* One tab of the application: wallet-onboarding.tsx, which signs in, and  *)
(* app-shell.tsx, which stays mounted across pages and has its own idea of *)
(* who is signed in.  The truth is the cookie and the session row behind   *)
(* it.  The shell takes its idea from the first render, from the event of  *)
(* a sign-in, from GET /api/auth/session, and loses it by a poll that      *)
(* meets a 401.  Every request is served at one moment and its answer      *)
(* arrives at another, when the cookie may be a different one.             *)
(*                                                                         *)
(* Abstractions.  What the server does with a challenge is WalletAuth.tla. *)
(* The wallet names the account it likes; that it names no wallet, another *)
(* chain than before, or refuses to sign, ends the sign-in.  One sign-in   *)
(* and one DELETE run at a time.  Other tabs, which share the cookie, are  *)
(* left out.                                                               *)
(***************************************************************************)
EXTENDS Naturals

CONSTANTS
  Accounts,     \* the accounts of the wallet extension
  MaxSessions,  \* bound: sign-ins that succeed
  SignedOut,    \* the session of nobody
  Unset,        \* sessionOverride === null
  Asked         \* a question about the session that is not served yet

ASSUME MaxSessionsIsNat == MaxSessions \in Nat
ASSUME NoSuchSession    == /\ {SignedOut, Unset, Asked} \cap Nat = {}
                           /\ SignedOut # Unset /\ SignedOut # Asked

Sessions == 1 .. MaxSessions
Pages    == {"onboarding", "app"}    \* the shell is rendered on all but one

VARIABLES
  owner,        \* [Sessions -> Accounts \cup {SignedOut}]: the rows
  live,         \* the sessions the server accepts
  cookie,       \* the session of the cookie jar
  tab,          \* the page, the session of the last render, sessionOverride
  signIn,       \* begin(): step, account, session
  detected,     \* a position is on display in onboarding
  reconciles,   \* GET /api/auth/session in flight: what they will answer
  poll,         \* GET /api/monitor/status in flight
  leaving,      \* a DELETE: step, and which button it was
  untold        \* the shell missed the last sign-in, or was told late; a
                \* history variable

browserVars == <<owner, live, cookie, tab, signIn, detected, reconciles, poll, leaving, untold>>

NoSignIn  == [step |-> "idle", account |-> SignedOut, session |-> SignedOut]
NoLeaving == [step |-> "none", by |-> "disconnect"]

Live(s)    == s \in live
Rendered   == IF Live(cookie) THEN cookie ELSE SignedOut
ActiveIn(t) == IF t.override = Unset THEN t.prop ELSE t.override
Active     == ActiveIn(tab)
OwnerOf(s) == IF s \in Sessions THEN owner[s] ELSE SignedOut

BrowserInit ==
  /\ owner = [s \in Sessions |-> SignedOut] /\ live = {} /\ cookie = SignedOut
  /\ tab = [page |-> "onboarding", prop |-> SignedOut, override |-> Unset]
  /\ signIn = NoSignIn /\ detected = FALSE
  /\ reconciles = {} /\ poll = "none" /\ leaving = NoLeaving /\ untold = FALSE

-----------------------------------------------------------------------------
(***************************************************************************)
(* The shell.                                                              *)
(***************************************************************************)

\* A new tab state, and the effects that depend on it: a shell that is nobody's
\* asks who is signed in each time that, or the page, changes; the poll of
\* another account is aborted.
Render(t) ==
  /\ tab' = t
  /\ reconciles' = IF ActiveIn(t) = SignedOut /\ t.page = "app"
                      /\ (Active # SignedOut \/ t.page # tab.page)
                   THEN reconciles \cup {Asked} ELSE reconciles
  /\ poll' = IF OwnerOf(ActiveIn(t)) # OwnerOf(Active) THEN "none" ELSE poll

Override(s) == Render([tab EXCEPT !.override = s])

\* A link.  From one page of the application to another only a shell that is
\* nobody's does anything.
Navigate(p) ==
  /\ p # tab.page
  /\ Render([tab EXCEPT !.page = p])
  /\ detected' = FALSE
  /\ UNCHANGED <<owner, live, cookie, signIn, leaving, untold>>

AskAgain ==
  /\ tab.page = "app" /\ Active = SignedOut
  /\ reconciles' = reconciles \cup {Asked}
  /\ UNCHANGED <<owner, live, cookie, tab, signIn, detected, poll, leaving, untold>>

\* A full load.  A database that does not answer makes the render nobody's.
Reload ==
  /\ \E s \in {Rendered, SignedOut} :
       /\ tab' = [tab EXCEPT !.prop = s, !.override = Unset]
       /\ reconciles' = IF s = SignedOut /\ tab.page = "app" THEN {Asked} ELSE {}
  /\ signIn' = NoSignIn /\ detected' = FALSE /\ poll' = "none" /\ leaving' = NoLeaving
  /\ untold' = FALSE
  /\ UNCHANGED <<owner, live, cookie>>

\* A 401 changes nothing.
ServeReconcile ==
  /\ Asked \in reconciles
  /\ reconciles' = (reconciles \ {Asked}) \cup (live \cap {cookie})
  /\ UNCHANGED <<owner, live, cookie, tab, signIn, detected, poll, leaving, untold>>

\* The answer is adopted whatever has happened since it was asked for.
ReconcileArrives(s) ==
  /\ s \in reconciles
  /\ tab' = [tab EXCEPT !.override = s]
  /\ reconciles' = reconciles \ {s}
  /\ poll' = IF OwnerOf(s) # OwnerOf(Active) THEN "none" ELSE poll
  /\ untold' = (s # cookie)
  /\ UNCHANGED <<owner, live, cookie, signIn, detected, leaving>>

\* refreshMonitoring: when the effect runs, every fifteen seconds, and when the
\* tab is seen again; one at a time.
PollMonitor ==
  /\ Active # SignedOut /\ poll = "none"
  /\ poll' = "sent"
  /\ UNCHANGED <<owner, live, cookie, tab, signIn, detected, reconciles, leaving, untold>>

ServePoll ==
  /\ poll = "sent"
  /\ poll' = IF Live(cookie) THEN "ok" ELSE "401"
  /\ UNCHANGED <<owner, live, cookie, tab, signIn, detected, reconciles, leaving, untold>>

PollFails ==
  /\ poll = "sent"
  /\ poll' = "none"
  /\ UNCHANGED <<owner, live, cookie, tab, signIn, detected, reconciles, leaving, untold>>

\* Mutant: a 401 is taken for one more failure.
AfterPollUnmoved == tab

\* The session of a 401 is given up.
AfterPoll == IF poll = "401" THEN [tab EXCEPT !.override = SignedOut] ELSE tab

PollArrives ==
  /\ poll \in {"ok", "401"}
  /\ tab' = AfterPoll
  /\ reconciles' = IF Active # SignedOut /\ ActiveIn(AfterPoll) = SignedOut /\ tab.page = "app"
                   THEN reconciles \cup {Asked} ELSE reconciles
  /\ poll' = "none"
  /\ untold' = (untold /\ poll = "ok")
  /\ UNCHANGED <<owner, live, cookie, signIn, detected, leaving>>

-----------------------------------------------------------------------------
(***************************************************************************)
(* begin() and the two buttons that end a session.                         *)
(***************************************************************************)

UnchangedByWallet == UNCHANGED <<owner, live, cookie, tab, detected, reconciles, poll, leaving, untold>>

\* From discoverMetaMask to the signature nothing of the application changes.
BeginSignIn ==
  /\ tab.page = "onboarding" /\ signIn = NoSignIn /\ ~detected
  /\ \E a \in Accounts : signIn' = [NoSignIn EXCEPT !.step = "verify", !.account = a]
  /\ UnchangedByWallet

\* No wallet, a refusal of the owner or of the server, an answer that is lost.
SignInFails ==
  /\ signIn # NoSignIn
  /\ signIn' = NoSignIn
  /\ UnchangedByWallet

\* The challenge is signed and verified: a session, on the server.
ServeVerify ==
  /\ signIn.step = "verify"
  /\ \E s \in Sessions :
       /\ owner[s] = SignedOut /\ \A t \in Sessions : t < s => owner[t] # SignedOut
       /\ owner' = [owner EXCEPT ![s] = signIn.account]
       /\ live' = live \cup {s}
       /\ signIn' = [NoSignIn EXCEPT !.step = "answer", !.session = s]
  /\ UNCHANGED <<cookie, tab, detected, reconciles, poll, leaving, untold>>

\* Mutant: the session of the event is taken for that of the server's render.
AdoptedAsRendered(s) == [tab EXCEPT !.prop = s]

\* positionguard:session-authenticated.
Adopted(s) == [tab EXCEPT !.override = s]

\* The cookie comes with the headers; the event with the body.
VerifyArrives ==
  /\ signIn.step = "answer"
  /\ cookie' = signIn.session
  /\ \/ signIn' = [NoSignIn EXCEPT !.step = "position"] /\ Render(Adopted(signIn.session)) /\ untold' = FALSE
     \/ signIn' = NoSignIn /\ untold' = TRUE /\ UNCHANGED <<tab, reconciles, poll>>
  /\ UNCHANGED <<owner, live, detected, leaving>>

\* POST /api/onboarding/position, under the cookie of that moment.
ReadPosition ==
  /\ signIn.step = "position" /\ Live(cookie)
  /\ signIn' = NoSignIn
  /\ detected' = (tab.page = "onboarding")
  /\ UNCHANGED <<owner, live, cookie, tab, reconciles, poll, leaving, untold>>

\* "Connect another wallet", on display with a position, and Disconnect.
StartLeaving(by) ==
  /\ leaving = NoLeaving
  /\ IF by = "another" THEN detected ELSE tab.page = "app" /\ Active # SignedOut
  /\ leaving' = [step |-> "sent", by |-> by]
  /\ UNCHANGED <<owner, live, cookie, tab, signIn, detected, reconciles, poll, untold>>

\* DELETE /api/auth/session: the row of the cookie is revoked.
ServeLeaving ==
  /\ leaving.step = "sent"
  /\ live' = live \ {cookie}
  /\ leaving' = [leaving EXCEPT !.step = "done"]
  /\ UNCHANGED <<owner, cookie, tab, signIn, detected, reconciles, poll, untold>>

\* Back at the start of onboarding; the shell is not told.
AnotherWallet ==
  /\ detected' = FALSE
  /\ UNCHANGED <<tab, reconciles, poll, untold>>

\* The finally of disconnect, whether the DELETE was answered or not.
Disconnected ==
  /\ Render([page |-> "onboarding", prop |-> Rendered, override |-> SignedOut])
  /\ detected' = FALSE /\ untold' = FALSE

LeavingReturns ==
  /\ leaving.step = "done"
  /\ cookie' = SignedOut
  /\ IF leaving.by = "another" THEN AnotherWallet
     ELSE /\ Render([page |-> "onboarding", prop |-> SignedOut, override |-> SignedOut])
          /\ detected' = FALSE /\ untold' = FALSE
  /\ leaving' = NoLeaving
  /\ UNCHANGED <<owner, live, signIn>>

\* The request or its answer is lost, or the answer is an error, which nobody
\* looks at: the cookie stays.
LeavingFails ==
  /\ leaving.step \in {"sent", "done"}
  /\ \/ leaving.by = "another" /\ AnotherWallet
     \/ leaving.by = "another" /\ UNCHANGED <<tab, reconciles, poll, detected, untold>>
     \/ leaving.by = "disconnect" /\ Disconnected
  /\ leaving' = NoLeaving
  /\ UNCHANGED <<owner, live, cookie, signIn>>

\* expiresAt.
Expire(s) ==
  /\ Live(s)
  /\ live' = live \ {s}
  /\ UNCHANGED <<owner, cookie, tab, signIn, detected, reconciles, poll, leaving, untold>>

BrowserNext ==
  \/ \E p \in Pages : Navigate(p)
  \/ AskAgain \/ Reload
  \/ ServeReconcile \/ \E s \in Sessions : ReconcileArrives(s)
  \/ PollMonitor \/ ServePoll \/ PollFails \/ PollArrives
  \/ BeginSignIn \/ SignInFails
  \/ ServeVerify \/ VerifyArrives \/ ReadPosition
  \/ \E by \in {"another", "disconnect"} : StartLeaving(by)
  \/ ServeLeaving \/ LeavingReturns \/ LeavingFails
  \/ \E s \in Sessions : Expire(s)

\* The interval fires, answers that came are handled, and a poll that is sent
\* again and again is served in the end.
BrowserFairness ==
  /\ WF_browserVars(PollMonitor) /\ SF_browserVars(ServePoll) /\ WF_browserVars(PollArrives)
  /\ WF_browserVars(ServeReconcile)
  /\ WF_browserVars(\E s \in Sessions : ReconcileArrives(s))

BrowserSpec == BrowserInit /\ [][BrowserNext]_browserVars /\ BrowserFairness

-----------------------------------------------------------------------------
(***************************************************************************)
(* Properties.                                                             *)
(***************************************************************************)

BrowserTypeOK ==
  /\ owner \in [Sessions -> Accounts \cup {SignedOut}]
  /\ live \subseteq Sessions
  /\ \A s \in live : owner[s] \in Accounts
  /\ cookie \in Sessions \cup {SignedOut}
  /\ tab.page \in Pages /\ tab.prop \in Sessions \cup {SignedOut}
  /\ tab.override \in Sessions \cup {SignedOut, Unset}
  /\ signIn.step \in {"idle", "verify", "answer", "position"}
  /\ detected \in BOOLEAN
  /\ reconciles \subseteq Sessions \cup {Asked}
  /\ poll \in {"none", "sent", "ok", "401"}

\* What the shell says of an account is said under its name: a shell that names
\* one, and a cookie of another, meet only after a sign-in whose answer was cut
\* off, or when an answer about the session comes after a later sign-in.
ShellNamesCookie ==
  Active \in Sessions /\ cookie \in Sessions /\ ~untold => Active = cookie

\* A session that ended, by expiry, revocation or a button whose answer was
\* lost, is gone from the shell in the end.
EndedSessionIsSeen == (Active # SignedOut /\ ~Live(cookie)) ~> (Active = SignedOut \/ Live(cookie))
=============================================================================

--------------------------------- MODULE Access ---------------------------------
(***************************************************************************)
(* The account of one user and the browsers he uses it from: signing in    *)
(* with a second factor, the sessions, and the pages of SiteMap as long as *)
(* he is signed in.  Meanwhile others change his role or suspend him.      *)
(*                                                                         *)
(* A request is served on the account as it is then.  A browser keeps what *)
(* was on its page until the user asks for something: a session that was   *)
(* ended elsewhere is found out by the next request, which the cookie of a *)
(* remembered sign-in may let through.                                     *)
(***************************************************************************)
EXTENDS SiteMap

CONSTANTS
    Browsers,     \* the browsers of the user
    People,       \* users, each in behaviours of its own
    Uses,         \* the browsers that each of them uses
    MayHold,      \* the roles he may be given
    LooksAt,      \* the pages he goes to
    Attempts,     \* wrong codes after which a challenge is over (5 in the code)
    MaxSecrets,   \* bound: authenticator secrets made
    MaxEvents     \* bound: what others do to the account

ASSUME AccessAssumption ==
    /\ Uses \in [People -> SUBSET Browsers] /\ MayHold \in [People -> SUBSET Roles]
    /\ DOMAIN LooksAt = People
    /\ Attempts \in Nat \ {0} /\ MaxSecrets \in Nat /\ MaxEvents \in Nat

VARIABLES
    user,     \* the user that the behaviour is about
    account,  \* the row of the user, with his recovery codes
    browser,  \* what each browser holds and shows
    made,     \* secrets made so far
    events    \* what others did to the account

vars == <<user, account, browser, made, events>>

Privileged(role) == role \in {"SUPER_ADMIN", "ADMIN", "ACCOUNTANT"}

NoChallenge == [open |-> FALSE, setup |-> FALSE, secret |-> 0, wrong |-> 0, remember |-> FALSE]

\* Nobody is signed in and nothing is remembered.  cookie: it holds a cookie that is still
\* good.  Two fields are history: since, the password was given here since it was replaced or
\* all sessions ended; outlived, it was given before, and the challenge stayed open then.
Out == [at |-> "login", as |-> "", enabled |-> FALSE, listed |-> {}, session |-> FALSE,
        recalled |-> FALSE, since |-> FALSE, outlived |-> FALSE, cookie |-> FALSE,
        challenge |-> NoChallenge, pending |-> 0, setup |-> FALSE]

Init ==
    /\ user \in People
    /\ \E role \in MayHold[user] :
          account = [role |-> role, active |-> TRUE, secret |-> 0, codes |-> 0, reset |-> FALSE]
    /\ browser = [b \in Browsers |-> Out]
    /\ made = 0 /\ events = 0

--------------------------------------------------------------------------------
\* Signing in

hasMfaEnabled == account.secret # 0

\* Mutant of requiresMfa: an accountant or admin signs in with his password.
requiresMfaOfSupers == account.role = "SUPER_ADMIN"

requiresMfa == Privileged(account.role)

\* What a browser shows of a page that comes to the user now.
Showing(record, page) ==
    [record EXCEPT !.at = page, !.as = account.role, !.enabled = hasMfaEnabled, !.setup = FALSE,
                   !.listed = IF page = "sessions" THEN {c \in Browsers : browser[c].session} ELSE {}]

\* A session begins; a remembered one leaves a cookie.
SignedIn(record, remember) ==
    Showing([record EXCEPT !.session = TRUE, !.recalled = FALSE, !.challenge = NoChallenge,
                           !.pending = 0, !.cookie = remember],
            Landing("dashboard", account.role))

\* A sign-in form is only for whoever has no session, nor a cookie that gives him one.
Guest(b) == ~browser[b].session /\ ~browser[b].cookie

PasswordGiven(record) == [record EXCEPT !.since = TRUE, !.outlived = FALSE]

\* The password was right.  Whoever has a second factor or must have one is challenged for
\* it, anew if he was already; who has none yet is shown a new secret.
Login(b, remember) ==
    /\ Guest(b) /\ browser[b].at \in {"login", "challenge"} /\ account.active
    /\ IF hasMfaEnabled \/ requiresMfa
       THEN /\ hasMfaEnabled \/ made < MaxSecrets
            /\ made' = made + (IF hasMfaEnabled THEN 0 ELSE 1)
            /\ browser' = [browser EXCEPT ![b] =
                  [PasswordGiven(@) EXCEPT !.at = "challenge",
                     !.challenge = [open |-> TRUE, setup |-> ~hasMfaEnabled, wrong |-> 0,
                                    remember |-> remember,
                                    secret |-> IF hasMfaEnabled THEN 0 ELSE made + 1]]]
       ELSE /\ browser' = [browser EXCEPT ![b] = SignedIn(PasswordGiven(@), remember)]
            /\ UNCHANGED made
    /\ UNCHANGED <<account, events>>

\* A challenge that is over sends the user back to the sign-in form.
Wrong(record) ==
    IF record.challenge.wrong + 1 >= Attempts THEN Out
    ELSE [record EXCEPT !.challenge.wrong = @ + 1]

Challenged(b) == Guest(b) /\ browser[b].challenge.open

\* The code of an authenticator that holds this secret (0: a code of none).
EnterCode(b, secret) ==
    LET challenge == browser[b].challenge
        valid == secret # 0 /\ secret = (IF challenge.setup THEN challenge.secret ELSE account.secret)
    IN
    /\ Challenged(b)
    /\ browser' = [browser EXCEPT ![b] = IF ~account.active THEN Out
                                         ELSE IF ~valid THEN Wrong(@)
                                         ELSE SignedIn(@, challenge.remember)]
    /\ account' = IF account.active /\ valid /\ challenge.setup
                  THEN [account EXCEPT !.secret = secret, !.codes = secret] ELSE account
    /\ UNCHANGED <<made, events>>

\* A recovery code, which works once and not for setting up.  codes names the secret the
\* recovery codes were made for, 0 when there are none left.
EnterRecoveryCode(b, codes) ==
    LET challenge == browser[b].challenge
        valid == ~challenge.setup /\ codes # 0 /\ codes = account.codes
    IN
    /\ Challenged(b)
    /\ browser' = [browser EXCEPT ![b] = IF ~account.active THEN Out
                                         ELSE IF ~valid THEN Wrong(@)
                                         ELSE SignedIn(@, challenge.remember)]
    /\ account' \in IF account.active /\ valid
                    THEN {account, [account EXCEPT !.codes = 0]} ELSE {account}
    /\ UNCHANGED <<made, events>>

\* The five minutes of the challenge have passed.
Expire(b) ==
    /\ Challenged(b)
    /\ browser' = [browser EXCEPT ![b] = Out]
    /\ UNCHANGED <<account, made, events>>

--------------------------------------------------------------------------------
\* Requests of whoever is signed in

\* The browser after the middleware has let a request through: with its session, or with
\* one that its cookie gave it.
Through(b) ==
    IF browser[b].session THEN browser[b]
    ELSE [browser[b] EXCEPT !.session = TRUE, !.recalled = TRUE, !.pending = 0]

LetThrough(b) == ~Guest(b) /\ account.active

Asks(b) == browser[b].at \notin {"login", "challenge"}

\* Signing out cycles the token that every cookie is checked against.
Cycled(all) == [c \in Browsers |-> [all[c] EXCEPT !.cookie = FALSE]]

SignOut(b) == browser' = Cycled([browser EXCEPT ![b] = Out])

\* He is turned away to the sign-in form; who is not active is signed out as well.
TurnAway(b) ==
    /\ Asks(b) /\ ~LetThrough(b)
    /\ IF Guest(b) THEN browser' = [browser EXCEPT ![b] = Out] ELSE SignOut(b)
    /\ UNCHANGED <<account, made, events>>

logout(b) ==
    /\ Asks(b) /\ LetThrough(b)
    /\ SignOut(b)
    /\ UNCHANGED <<account, made, events>>

\* A link of the page; the dashboard is another page for each role.
Follow(b) ==
    /\ Asks(b) /\ LetThrough(b)
    /\ \E link \in Links(browser[b].at, browser[b].as) \cap LooksAt[user] :
          browser' = [browser EXCEPT ![b] =
             Showing(Through(b), IF Opens(link, account.role) THEN Landing(link, account.role) ELSE "denied")]
    /\ UNCHANGED <<account, made, events>>

\* Every other session of the user ends.
OnlySession(b, record) ==
    [c \in Browsers |-> IF c = b THEN record ELSE [browser[c] EXCEPT !.session = FALSE]]

AtMfa(b) == Asks(b) /\ LetThrough(b) /\ browser[b].at = "mfa"

\* On the page of the second factor, the password having been given again.
enable(b) ==
    /\ AtMfa(b) /\ ~browser[b].enabled /\ made < MaxSecrets
    /\ made' = made + 1
    /\ browser' = [browser EXCEPT ![b] =
                     [Showing(Through(b), "mfa") EXCEPT !.pending = made + 1, !.setup = TRUE]]
    /\ UNCHANGED <<account, events>>

\* The form to confirm it is gone after a wrong code, as what it shows came once.
confirm(b, right) ==
    LET pending == Through(b).pending IN
    /\ AtMfa(b) /\ browser[b].setup /\ ~browser[b].enabled
    /\ IF right /\ pending # 0
       THEN /\ account' = [account EXCEPT !.secret = pending, !.codes = pending]
            /\ browser' = OnlySession(b, [Showing(Through(b), "mfa") EXCEPT !.pending = 0, !.enabled = TRUE])
       ELSE /\ browser' = [browser EXCEPT ![b] = Showing(Through(b), "mfa")]
            /\ UNCHANGED account
    /\ UNCHANGED <<made, events>>

disable(b) ==
    /\ AtMfa(b) /\ browser[b].enabled /\ ~Privileged(browser[b].as)
    /\ IF Privileged(account.role)
       THEN /\ browser' = [browser EXCEPT ![b] = Showing(Through(b), "denied")]
            /\ UNCHANGED account
       ELSE /\ account' = [account EXCEPT !.secret = 0, !.codes = 0]
            /\ browser' = OnlySession(b, [Showing(Through(b), "mfa") EXCEPT !.enabled = FALSE])
    /\ UNCHANGED <<made, events>>

regenerateRecoveryCodes(b) ==
    /\ AtMfa(b) /\ browser[b].enabled /\ hasMfaEnabled
    /\ account' = [account EXCEPT !.codes = account.secret]
    /\ browser' = OnlySession(b, Showing(Through(b), "mfa"))
    /\ UNCHANGED <<made, events>>

AtSessions(b) == Asks(b) /\ LetThrough(b) /\ browser[b].at = "sessions"

\* On the page of the sessions: one of the others that it lists is ended, or all of them.
revokeSession(b, other) ==
    /\ AtSessions(b) /\ other \in browser[b].listed \ {b}
    /\ browser' = IF browser[other].session
                  THEN [browser EXCEPT ![b] = Showing(Through(b), "sessions"), ![other].session = FALSE]
                  ELSE [browser EXCEPT ![b] = Showing(Through(b), "denied")]
    /\ UNCHANGED <<account, made, events>>

revokeOthers(b) ==
    /\ AtSessions(b)
    /\ browser' = OnlySession(b, Showing(Through(b), "sessions"))
    /\ UNCHANGED <<account, made, events>>

\* Every session ends that is the user's, and every cookie.  That of a challenge is nobody's
\* yet: the challenge stays open, and is not asked for the password again.
Revoked(record) ==
    [record EXCEPT !.session = FALSE, !.cookie = FALSE, !.since = FALSE,
                   !.outlived = record.challenge.open]

\* Mutant of AllOver: the cookies of remembered sign-ins stay good.
AllOverButCookies(b) ==
    browser' = [c \in Browsers |->
                  IF c = b /\ ~browser[b].challenge.open THEN Out
                  ELSE [Revoked(browser[c]) EXCEPT !.cookie = browser[c].cookie]]

\* In this browser as in the others.
AllOver(b) ==
    browser' = [c \in Browsers |->
                  IF c = b /\ ~browser[b].challenge.open THEN Out ELSE Revoked(browser[c])]

\* All of them and his own: he is signed out.
revokeAll(b) ==
    /\ AtSessions(b)
    /\ AllOver(b)
    /\ UNCHANGED <<account, made, events>>

\* The form for a password that was forgotten, and the link it sends.
ForgotPassword(b) ==
    /\ Guest(b) /\ browser[b].at \in {"login", "challenge"} /\ account.active /\ ~account.reset
    /\ account' = [account EXCEPT !.reset = TRUE]
    /\ UNCHANGED <<browser, made, events>>

ResetPassword(b) ==
    /\ Guest(b) /\ account.reset
    /\ account' = [account EXCEPT !.reset = FALSE]
    /\ AllOver(b)
    /\ UNCHANGED <<made, events>>

--------------------------------------------------------------------------------
\* What others do to the account

Event == events < MaxEvents /\ events' = events + 1 /\ UNCHANGED made

\* Mutant of EndSessions: a session goes on with the role the account has now.
EndNoSession == UNCHANGED browser

EndSessions == browser' = [b \in Browsers |-> [browser[b] EXCEPT !.session = FALSE]]

assignRole(role) ==
    /\ Event /\ role # account.role
    /\ account' = [account EXCEPT !.role = role]
    /\ EndSessions

\* A salesman is suspended, or let in again.
changeStatus ==
    /\ Event /\ account.role = "SALESMAN"
    /\ account' = [account EXCEPT !.active = ~@]
    /\ IF account.active THEN EndSessions ELSE UNCHANGED browser

--------------------------------------------------------------------------------
\* The specification

Secrets == 0..MaxSecrets

SigningIn(b) ==
    \/ \E remember \in BOOLEAN : Login(b, remember)
    \/ \E secret \in Secrets : EnterCode(b, secret) \/ EnterRecoveryCode(b, secret)
    \/ Expire(b) \/ ForgotPassword(b) \/ ResetPassword(b)

InSession(b) ==
    \/ TurnAway(b) \/ enable(b) \/ disable(b) \/ regenerateRecoveryCodes(b)
    \/ \E right \in BOOLEAN : confirm(b, right)
    \/ \E other \in Browsers : revokeSession(b, other)
    \/ revokeOthers(b) \/ revokeAll(b) \/ logout(b) \/ Follow(b)

Next ==
    /\ \/ \E b \in Uses[user] : SigningIn(b) \/ InSession(b)
       \/ \E role \in MayHold[user] : assignRole(role)
       \/ changeStatus
    /\ UNCHANGED user

Spec == Init /\ [][Next]_vars

--------------------------------------------------------------------------------
\* Properties

\* What a browser shows and what it is challenged for belong together.
AccessTypeOK ==
    /\ account.role \in MayHold[user] /\ account.secret \in 0..made
    /\ account.codes \in {0, account.secret}
    /\ \A b \in Browsers :
          /\ browser[b].challenge.open = (browser[b].at = "challenge")
          /\ browser[b].outlived => ~browser[b].since
          /\ ~Guest(b) => browser[b].at \notin {"login", "challenge"}
          /\ browser[b].setup => browser[b].at = "mfa"

\* Nobody is signed in to a privileged role without a second factor: through enrolments in
\* two browsers, changes of his role and back, and switching the factor off in between.  A
\* sign-in that a cookie remembered is not challenged.
PrivilegedHasMfa ==
    \A b \in Browsers :
        browser[b].session /\ ~browser[b].recalled /\ Privileged(account.role) => hasMfaEnabled

\* When the password was replaced or all sessions were ended, no browser is or can be signed
\* in, by its session or by its cookie, that was not given the password since.  The exception
\* is one that had given the old password and was being challenged just then: the challenge
\* outlives the end, and whoever answers it is signed in.
OldSignInsAreOver ==
    \A b \in Browsers : ~Guest(b) => browser[b].since \/ browser[b].outlived

\* The links that a page shows to somebody whom they turn away.
DeadEnds(page, role) ==
    (IF role \notin FieldRoles \/ role = "SALESMAN" THEN NoRoute ELSE {})
    \cup CASE page = "dashboard" /\ role = "ACCOUNTANT" -> {"inventory", "deliveries"}
           [] page = "returns" /\ role \in {"ACCOUNTANT", "WAREHOUSE_MANAGER"} -> {"returns.create"}
           [] page = "orders" /\ role = "WAREHOUSE_MANAGER" -> {"orders.show"}
           [] page \in {"salesman.orders", "salesman.orders.show"} /\ role # "SALESMAN" ->
                  {"salesman.orders.create", "drafts", "customers"}
           [] page = "returns.create" /\ role = "SALESMAN" -> {"returns"}
           [] page = "returns.show" /\ role = "WAREHOUSE_MANAGER" -> {"orders.show"}
           [] page = "reports.sales" /\ role = "WAREHOUSE_MANAGER" -> {"customers.show", "orders.show"}
           [] page = "reports.delivery" /\ role = "WAREHOUSE_MANAGER" -> {"orders.show"}
           [] OTHER -> {}

\* Every link of a page that is open in a session opens, however long the page has been open
\* and whatever became of the role of the user, but for the dead ends: a change of the role
\* ends the sessions in which pages show the links of the old one.
LinksOpen ==
    \A b \in Browsers :
        browser[b].session /\ account.active =>
            \A link \in LooksAt[user] :
                \/ Opens(link, account.role)
                \/ link \in DeadEnds(browser[b].at, browser[b].as)
                \/ link \notin Links(browser[b].at, browser[b].as)
================================================================================

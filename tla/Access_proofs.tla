----------------------------- MODULE Access_proofs -----------------------------
(***************************************************************************)
(* Proofs about Access: for any browsers, roles, pages and bounds.         *)
(***************************************************************************)
EXTENDS Access, TLAPS

--------------------------------------------------------------------------------
\* The inductive invariant

\* A record with the fields of a browser, and of the account.  What a page shows is of no
\* consequence.
BrowserFields == {"at", "as", "enabled", "listed", "session", "recalled", "since", "outlived",
                  "cookie", "challenge", "pending", "setup"}

BrowserRow(r) ==
    /\ r = [f \in BrowserFields |-> r[f]]
    /\ r.session \in BOOLEAN /\ r.recalled \in BOOLEAN /\ r.since \in BOOLEAN

AccountRow(r) ==
    r = [f \in {"role", "active", "secret", "codes", "reset"} |-> r[f]]

\* What lets a browser in, or will when the challenge is answered, was given to it after the
\* password was, or had been asked for when everything else ended.
Recent(r) == (r.session \/ r.cookie \/ r.challenge.open) => r.since \/ r.outlived

\* Recovery codes are left only to whoever has a secret, which a privileged user has who
\* is signed in by more than a cookie.
Strong(r, a) ==
    /\ a.codes # 0 => a.secret # 0
    /\ r.session /\ ~r.recalled /\ Privileged(a.role) => a.secret # 0

AInv ==
    /\ user \in People
    /\ AccountRow(account)
    /\ browser = [b \in Browsers |-> browser[b]]
    /\ \A b \in Browsers : BrowserRow(browser[b]) /\ Recent(browser[b]) /\ Strong(browser[b], account)

LEMMA InitHolds == Init => AInv
<1> SUFFICES ASSUME Init PROVE AInv
  OBVIOUS
<1>1. user \in People /\ browser = [b \in Browsers |-> Out]
  BY DEF Init
<1>2. AccountRow(account) /\ account.codes = 0
  BY DEF Init, AccountRow
<1>3. BrowserRow(Out) /\ ~Out.session /\ ~Out.cookie /\ ~Out.challenge.open
  BY DEF BrowserRow, BrowserFields, Out, NoChallenge
<1> QED
  BY <1>1, <1>2, <1>3 DEF AInv, Recent, Strong

\* The pages are whatever they are, and a page that is shown changes nothing else.
LEMMA ShowingKeeps ==
    ASSUME NEW r, NEW page, BrowserRow(r)
    PROVE  /\ BrowserRow(Showing(r, page))
           /\ Showing(r, page).session = r.session /\ Showing(r, page).cookie = r.cookie
           /\ Showing(r, page).since = r.since /\ Showing(r, page).recalled = r.recalled
           /\ Showing(r, page).outlived = r.outlived /\ Showing(r, page).challenge = r.challenge
BY DEF BrowserRow, BrowserFields, Showing

LEMMA ThroughKeeps ==
    ASSUME NEW b \in Browsers, BrowserRow(browser[b]), ~Guest(b), Recent(browser[b]), Strong(browser[b], account)
    PROVE  BrowserRow(Through(b)) /\ Recent(Through(b)) /\ Strong(Through(b), account)
BY DEF BrowserRow, BrowserFields, Through, Guest, Recent, Strong

LEMMA SignedInIs ==
    ASSUME NEW r, NEW remember, BrowserRow(r)
    PROVE  /\ BrowserRow(SignedIn(r, remember))
           /\ SignedIn(r, remember).since = r.since
           /\ SignedIn(r, remember).outlived = r.outlived
<1> DEFINE s == [r EXCEPT !.session = TRUE, !.recalled = FALSE, !.challenge = NoChallenge,
                           !.pending = 0, !.cookie = remember]
<1>1. BrowserRow(s) /\ s.since = r.since /\ s.outlived = r.outlived
  BY DEF BrowserRow, BrowserFields
<1> QED
  BY <1>1, ShowingKeeps DEF SignedIn

LEMMA PasswordGivenIs ==
    ASSUME NEW r, BrowserRow(r)
    PROVE  /\ BrowserRow(PasswordGiven(r)) /\ PasswordGiven(r).since
           /\ PasswordGiven(r).session = r.session /\ PasswordGiven(r).cookie = r.cookie
BY DEF BrowserRow, BrowserFields, PasswordGiven

LEMMA OutIs == BrowserRow(Out) /\ ~Out.session /\ ~Out.cookie /\ Recent(Out)
BY DEF BrowserRow, BrowserFields, Out, NoChallenge, Recent

\* A wrong code leaves a guest the guest he was.
LEMMA WrongIs ==
    ASSUME NEW r, BrowserRow(r), ~r.session, r.since \/ r.outlived
    PROVE  BrowserRow(Wrong(r)) /\ ~Wrong(r).session /\ Recent(Wrong(r))
<1>1. CASE r.challenge.wrong + 1 >= Attempts
  BY <1>1, OutIs DEF Wrong
<1>2. CASE ~(r.challenge.wrong + 1 >= Attempts)
  BY <1>2 DEF BrowserRow, BrowserFields, Wrong, Recent
<1> QED
  BY <1>1, <1>2

\* A browser whose session has ended, or whose cookie is no good.
SessionEnded(r) == [r EXCEPT !.session = FALSE]
Uncookied(r) == [r EXCEPT !.cookie = FALSE]

LEMMA EndedIs ==
    ASSUME NEW r, BrowserRow(r)
    PROVE  /\ BrowserRow(SessionEnded(r)) /\ ~SessionEnded(r).session /\ (Recent(r) => Recent(SessionEnded(r)))
           /\ BrowserRow(Uncookied(r)) /\ (Recent(r) => Recent(Uncookied(r)))
           /\ Uncookied(r).session = r.session /\ Uncookied(r).recalled = r.recalled
           /\ BrowserRow(Revoked(r)) /\ ~Revoked(r).session /\ Recent(Revoked(r))
BY DEF BrowserRow, BrowserFields, Recent, SessionEnded, Uncookied, Revoked

--------------------------------------------------------------------------------
\* One step

\* A step keeps the invariant when it leaves every browser as it should be.
Kept(a) == \A b \in Browsers : BrowserRow(browser'[b]) /\ Recent(browser'[b]) /\ Strong(browser'[b], a)

\* Only one browser changes, and the account gets or keeps its secret.
LEMMA OneBrowserChanges ==
    ASSUME AInv, NEW b \in Browsers, NEW r, browser' = [browser EXCEPT ![b] = r],
           BrowserRow(r), Recent(r), Strong(r, account'), AccountRow(account'),
           account'.role = account.role, account.secret # 0 => account'.secret # 0,
           UNCHANGED user
    PROVE  AInv'
<1>1. browser' = [c \in Browsers |-> browser'[c]]
  BY DEF AInv
<1>2. ASSUME NEW c \in Browsers
      PROVE  BrowserRow(browser'[c]) /\ Recent(browser'[c]) /\ Strong(browser'[c], account')
  BY <1>2 DEF AInv, Strong
<1> QED
  BY <1>1, <1>2 DEF AInv

\* Whoever gave the right code has a secret.
LEMMA SignInKeeps ==
    ASSUME AInv, NEW b \in Browsers, NEW remember, NEW r, BrowserRow(r), r.since \/ r.outlived,
           browser' = [browser EXCEPT ![b] = SignedIn(r, remember)],
           AccountRow(account'), account'.role = account.role,
           account'.secret # 0 \/ ~Privileged(account.role),
           account'.codes # 0 => account'.secret # 0,
           account.secret # 0 => account'.secret # 0, UNCHANGED user
    PROVE  AInv'
<1>1. /\ BrowserRow(SignedIn(r, remember))
      /\ SignedIn(r, remember).since \/ SignedIn(r, remember).outlived
  BY SignedInIs
<1>2. Recent(SignedIn(r, remember)) /\ Strong(SignedIn(r, remember), account')
  BY <1>1 DEF Recent, Strong
<1> QED
  BY <1>1, <1>2, OneBrowserChanges

\* Every session but perhaps that of one browser has ended.
LEMMA OthersEnd ==
    ASSUME AInv, NEW b \in Browsers, NEW r, browser' = OnlySession(b, r),
           BrowserRow(r), Recent(r), Strong(r, account'), AccountRow(account'),
           UNCHANGED user
    PROVE  AInv'
<1>1. browser' = [c \in Browsers |-> browser'[c]]
  BY DEF OnlySession
<1>2. ASSUME NEW c \in Browsers
      PROVE  BrowserRow(browser'[c]) /\ Recent(browser'[c]) /\ Strong(browser'[c], account')
  <2>1. CASE c = b
    BY <2>1 DEF OnlySession
  <2>2. CASE c # b
    <3>1. browser'[c] = SessionEnded(browser[c])
      BY <2>2 DEF OnlySession, SessionEnded
    <3> QED
      BY <3>1, EndedIs DEF AInv, Strong
  <2> QED
    BY <2>1, <2>2
<1> QED
  BY <1>1, <1>2 DEF AInv

\* No browser is left signed in.
LEMMA NobodyIn ==
    ASSUME AInv, AccountRow(account'), account'.codes # 0 => account'.secret # 0, UNCHANGED user,
           browser' = [b \in Browsers |-> browser'[b]],
           \A b \in Browsers : BrowserRow(browser'[b]) /\ Recent(browser'[b]) /\ ~browser'[b].session
    PROVE  AInv'
BY DEF AInv, Strong

\* Signing out takes the cookies away, and no session but one.
LEMMA SignOutKeeps ==
    ASSUME AInv, NEW b \in Browsers, SignOut(b), UNCHANGED <<account, user>>
    PROVE  AInv'
<1>1. browser' = [c \in Browsers |-> browser'[c]]
  BY DEF SignOut, Cycled
<1>2. ASSUME NEW c \in Browsers
      PROVE  BrowserRow(browser'[c]) /\ Recent(browser'[c]) /\ Strong(browser'[c], account')
  <2> DEFINE r == [browser EXCEPT ![b] = Out][c]
  <2>1. BrowserRow(r) /\ Recent(r) /\ Strong(r, account)
    BY OutIs DEF AInv, Strong
  <2>2. browser'[c] = Uncookied(r)
    BY DEF SignOut, Cycled, Uncookied
  <2> HIDE DEF r
  <2> QED
    BY <2>1, <2>2, EndedIs DEF Strong
<1> QED
  BY <1>1, <1>2 DEF AInv

LEMMA AllOverEnds ==
    ASSUME AInv, NEW b \in Browsers, AllOver(b)
    PROVE  /\ browser' = [c \in Browsers |-> browser'[c]]
           /\ \A c \in Browsers : BrowserRow(browser'[c]) /\ Recent(browser'[c]) /\ ~browser'[c].session
<1>1. browser' = [c \in Browsers |-> browser'[c]]
  BY DEF AllOver
<1>2. ASSUME NEW c \in Browsers
      PROVE  BrowserRow(browser'[c]) /\ Recent(browser'[c]) /\ ~browser'[c].session
  <2>1. browser'[c] \in {Out, Revoked(browser[c])}
    BY DEF AllOver
  <2> QED
    BY <2>1, OutIs, EndedIs DEF AInv
<1> QED
  BY <1>1, <1>2

LEMMA SigningInKeeps ==
    ASSUME AInv, NEW b \in Browsers, SigningIn(b), UNCHANGED user
    PROVE  AInv'
<1>0. /\ BrowserRow(browser[b]) /\ Recent(browser[b]) /\ Strong(browser[b], account)
      /\ browser = [c \in Browsers |-> browser[c]] /\ AccountRow(account)
  BY DEF AInv
<1>1. CASE \E remember \in BOOLEAN : Login(b, remember)
  <2> PICK remember \in BOOLEAN : Login(b, remember)
    BY <1>1
  <2>1. UNCHANGED account /\ ~browser[b].session
    BY DEF Login, Guest
  <2>2. CASE hasMfaEnabled \/ requiresMfa
    <3> DEFINE g == PasswordGiven(browser[b])
               c == [open |-> TRUE, setup |-> ~hasMfaEnabled, wrong |-> 0, remember |-> remember,
                     secret |-> IF hasMfaEnabled THEN 0 ELSE made + 1]
               r == [g EXCEPT !.at = "challenge", !.challenge = c]
    <3>1. browser' = [browser EXCEPT ![b] = r]
      BY <2>2, <1>0 DEF Login
    <3>2. BrowserRow(g) /\ g.since /\ g.session = browser[b].session
      BY <1>0, PasswordGivenIs
    <3> HIDE DEF g, c
    <3>3. BrowserRow(r) /\ r.session = g.session /\ r.since = g.since
      BY <3>2 DEF BrowserRow, BrowserFields
    <3> HIDE DEF r
    <3>4. Recent(r) /\ Strong(r, account')
      BY <1>0, <2>1, <3>2, <3>3 DEF Recent, Strong
    <3> QED
      BY <1>0, <2>1, <3>1, <3>3, <3>4, OneBrowserChanges
  <2>3. CASE ~(hasMfaEnabled \/ requiresMfa)
    <3>1. browser' = [browser EXCEPT ![b] = SignedIn(PasswordGiven(browser[b]), remember)]
      BY <1>0, <2>3 DEF Login
    <3>2. ~Privileged(account.role) /\ (account.codes # 0 => account.secret # 0)
      BY <1>0, <2>3 DEF requiresMfa, Strong
    <3>3. BrowserRow(PasswordGiven(browser[b])) /\ PasswordGiven(browser[b]).since
      BY <1>0, PasswordGivenIs
    <3> QED
      BY <1>0, <2>1, <3>1, <3>2, <3>3, SignInKeeps
  <2> QED
    BY <2>2, <2>3
<1>2. ASSUME Challenged(b), UNCHANGED account,
             NEW r \in {Out, Wrong(browser[b])}, browser' = [browser EXCEPT ![b] = r]
      PROVE  AInv'
  <2>1. ~browser[b].session /\ (browser[b].since \/ browser[b].outlived)
    BY <1>0, <1>2 DEF Challenged, Guest, Recent
  <2>2. BrowserRow(r) /\ Recent(r) /\ Strong(r, account)
    BY <1>0, <1>2, <2>1, OutIs, WrongIs DEF Strong
  <2> QED
    BY <1>0, <1>2, <2>2, OneBrowserChanges
<1>3. CASE \E secret \in Secrets : EnterCode(b, secret)
  <2> PICK secret \in Secrets : EnterCode(b, secret)
    BY <1>3
  <2> DEFINE valid == secret # 0 /\ secret = (IF browser[b].challenge.setup THEN browser[b].challenge.secret
                                              ELSE account.secret)
  <2>1. CASE account.active /\ valid
    <3>1. browser' = [browser EXCEPT ![b] = SignedIn(browser[b], browser[b].challenge.remember)]
      BY <1>0, <2>1 DEF EnterCode
    <3>2. /\ AccountRow(account') /\ account'.role = account.role /\ account'.secret # 0
          /\ account'.codes # 0 => account'.secret # 0
      BY <1>0, <2>1 DEF EnterCode, AccountRow, Strong
    <3>3. browser[b].since \/ browser[b].outlived
      BY <1>0 DEF EnterCode, Challenged, Recent
    <3> QED
      BY <1>0, <3>1, <3>2, <3>3, SignInKeeps
  <2>2. CASE ~(account.active /\ valid)
    <3>1. PICK r \in {Out, Wrong(browser[b])} : browser' = [browser EXCEPT ![b] = r]
      BY <1>0, <2>2 DEF EnterCode
    <3> QED
      BY <1>2, <2>2, <3>1 DEF EnterCode
  <2> QED
    BY <2>1, <2>2
<1>4. CASE \E codes \in Secrets : EnterRecoveryCode(b, codes)
  <2> PICK codes \in Secrets : EnterRecoveryCode(b, codes)
    BY <1>4
  <2> DEFINE valid == ~browser[b].challenge.setup /\ codes # 0 /\ codes = account.codes
  <2>1. CASE account.active /\ valid
    <3>1. browser' = [browser EXCEPT ![b] = SignedIn(browser[b], browser[b].challenge.remember)]
      BY <1>0, <2>1 DEF EnterRecoveryCode
    <3>2. /\ AccountRow(account') /\ account'.role = account.role /\ account'.secret # 0
          /\ account'.codes # 0 => account'.secret # 0
      BY <1>0, <2>1 DEF EnterRecoveryCode, AccountRow, Strong
    <3>3. browser[b].since \/ browser[b].outlived
      BY <1>0 DEF EnterRecoveryCode, Challenged, Recent
    <3> QED
      BY <1>0, <3>1, <3>2, <3>3, SignInKeeps
  <2>2. CASE ~(account.active /\ valid)
    <3>1. PICK r \in {Out, Wrong(browser[b])} : browser' = [browser EXCEPT ![b] = r]
      BY <1>0, <2>2 DEF EnterRecoveryCode
    <3> QED
      BY <1>2, <2>2, <3>1 DEF EnterRecoveryCode
  <2> QED
    BY <2>1, <2>2
<1>5. CASE Expire(b)
  BY <1>2, <1>5 DEF Expire
<1>6. CASE ForgotPassword(b)
  <2>1. AccountRow(account') /\ account'.role = account.role /\ account'.secret = account.secret
        /\ account'.codes = account.codes
    BY <1>0, <1>6 DEF ForgotPassword, AccountRow
  <2> QED
    BY <1>6, <2>1 DEF ForgotPassword, AInv, Strong
<1>7. CASE ResetPassword(b)
  <2>1. AccountRow(account') /\ account'.secret = account.secret /\ account'.codes = account.codes
    BY <1>0, <1>7 DEF ResetPassword, AccountRow
  <2> QED
    BY <1>0, <1>7, <2>1, AllOverEnds, NobodyIn DEF ResetPassword, Strong
<1> QED
  BY <1>1, <1>3, <1>4, <1>5, <1>6, <1>7 DEF SigningIn

\* A page that is shown in a session keeps what let the browser in.
LEMMA ShownThrough ==
    ASSUME AInv, NEW b \in Browsers, ~Guest(b), NEW page
    PROVE  LET r == Showing(Through(b), page)
           IN  BrowserRow(r) /\ Recent(r) /\ Strong(r, account)
<1>1. BrowserRow(Through(b)) /\ Recent(Through(b)) /\ Strong(Through(b), account)
  BY ThroughKeeps DEF AInv
<1> QED
  BY <1>1, ShowingKeeps DEF Recent, Strong

LEMMA InSessionKeeps ==
    ASSUME AInv, NEW b \in Browsers, InSession(b), UNCHANGED user
    PROVE  AInv'
<1>0. /\ BrowserRow(browser[b]) /\ Recent(browser[b]) /\ Strong(browser[b], account)
      /\ browser = [c \in Browsers |-> browser[c]] /\ AccountRow(account)
  BY DEF AInv
<1>1. ASSUME NEW page, ~Guest(b), UNCHANGED account,
             browser' = [browser EXCEPT ![b] = Showing(Through(b), page)]
      PROVE  AInv'
  <2> DEFINE r == Showing(Through(b), page)
  <2>1. BrowserRow(r) /\ Recent(r) /\ Strong(r, account)
    BY <1>1, ShownThrough
  <2> HIDE DEF r
  <2> QED
    BY <1>0, <1>1, <2>1, OneBrowserChanges DEF r
<1>2. CASE TurnAway(b)
  <2>1. CASE Guest(b)
    BY <1>0, <1>2, <2>1, OutIs, OneBrowserChanges DEF TurnAway, Strong
  <2>2. CASE ~Guest(b)
    BY <1>2, <2>2, SignOutKeeps DEF TurnAway
  <2> QED
    BY <2>1, <2>2
<1>3. CASE logout(b)
  BY <1>3, SignOutKeeps DEF logout
<1>4. CASE Follow(b)
  BY <1>1, <1>4 DEF Follow, LetThrough
<1>5. CASE enable(b)
  <2> DEFINE p == Showing(Through(b), "mfa")
             r == [p EXCEPT !.pending = made + 1, !.setup = TRUE]
  <2>1. BrowserRow(p) /\ Recent(p) /\ Strong(p, account)
    BY <1>5, ShownThrough DEF enable, AtMfa, LetThrough
  <2>2. BrowserRow(r) /\ Recent(r) /\ Strong(r, account)
    <3> HIDE DEF p
    <3> QED
      BY <2>1 DEF BrowserRow, BrowserFields, Recent, Strong
  <2>3. browser' = [browser EXCEPT ![b] = r] /\ UNCHANGED account
    BY <1>5 DEF enable
  <2> HIDE DEF r
  <2> QED
    BY <1>0, <2>2, <2>3, OneBrowserChanges
<1>6. CASE \E right \in BOOLEAN : confirm(b, right)
  <2> PICK right \in BOOLEAN : confirm(b, right)
    BY <1>6
  <2>0. ~Guest(b)
    BY DEF confirm, AtMfa, LetThrough
  <2>1. CASE right /\ Through(b).pending # 0
    <3> DEFINE p == Showing(Through(b), "mfa")
               r == [p EXCEPT !.pending = 0, !.enabled = TRUE]
    <3>1. BrowserRow(p) /\ Recent(p)
      BY <2>0, ShownThrough
    <3>2. BrowserRow(r) /\ Recent(r)
      <4> HIDE DEF p
      <4> QED
        BY <3>1 DEF BrowserRow, BrowserFields, Recent
    <3>3. browser' = OnlySession(b, r)
      BY <2>1 DEF confirm
    <3>4. AccountRow(account') /\ account'.secret # 0
      BY <1>0, <2>1 DEF confirm, AccountRow
    <3> HIDE DEF r
    <3>5. Strong(r, account')
      BY <3>4 DEF Strong
    <3> QED
      BY <3>2, <3>3, <3>4, <3>5, OthersEnd
  <2>2. CASE ~(right /\ Through(b).pending # 0)
    BY <1>1, <2>0, <2>2 DEF confirm
  <2> QED
    BY <2>1, <2>2
<1>7. CASE disable(b)
  <2>0. ~Guest(b)
    BY <1>7 DEF disable, AtMfa, LetThrough
  <2>1. CASE Privileged(account.role)
    BY <1>1, <1>7, <2>0, <2>1 DEF disable
  <2>2. CASE ~Privileged(account.role)
    <3> DEFINE p == Showing(Through(b), "mfa")
               r == [p EXCEPT !.enabled = FALSE]
    <3>1. BrowserRow(p) /\ Recent(p)
      BY <2>0, ShownThrough
    <3>2. BrowserRow(r) /\ Recent(r)
      <4> HIDE DEF p
      <4> QED
        BY <3>1 DEF BrowserRow, BrowserFields, Recent
    <3>3. browser' = OnlySession(b, r)
      BY <1>7, <2>2 DEF disable
    <3>4. AccountRow(account') /\ account'.codes = 0 /\ account'.role = account.role
      BY <1>0, <1>7, <2>2 DEF disable, AccountRow
    <3> HIDE DEF r
    <3>5. Strong(r, account')
      BY <2>2, <3>4 DEF Strong
    <3> QED
      BY <3>2, <3>3, <3>4, <3>5, OthersEnd
  <2> QED
    BY <2>1, <2>2
<1>8. CASE regenerateRecoveryCodes(b)
  <2> DEFINE r == Showing(Through(b), "mfa")
  <2>1. BrowserRow(r) /\ Recent(r)
    BY <1>8, ShownThrough DEF regenerateRecoveryCodes, AtMfa, LetThrough
  <2>2. AccountRow(account') /\ account'.secret # 0
    BY <1>0, <1>8 DEF regenerateRecoveryCodes, AccountRow, hasMfaEnabled
  <2>3. browser' = OnlySession(b, r)
    BY <1>8 DEF regenerateRecoveryCodes
  <2> HIDE DEF r
  <2>4. Strong(r, account')
    BY <2>2 DEF Strong
  <2> QED
    BY <2>1, <2>2, <2>3, <2>4, OthersEnd
<1>9. CASE \E other \in Browsers : revokeSession(b, other)
  <2> PICK other \in Browsers : revokeSession(b, other)
    BY <1>9
  <2>0. ~Guest(b) /\ other # b /\ UNCHANGED account
    BY DEF revokeSession, AtSessions, LetThrough
  <2>1. CASE ~browser[other].session
    BY <1>1, <2>0, <2>1 DEF revokeSession
  <2>2. CASE browser[other].session
    <3> DEFINE r == Showing(Through(b), "sessions")
    <3>1. BrowserRow(r) /\ Recent(r) /\ Strong(r, account)
      BY <2>0, ShownThrough
    <3>2. browser' = [browser EXCEPT ![b] = r, ![other].session = FALSE]
      BY <2>2 DEF revokeSession
    <3> HIDE DEF r
    <3>3. ASSUME NEW c \in Browsers
          PROVE  BrowserRow(browser'[c]) /\ Recent(browser'[c]) /\ Strong(browser'[c], account')
      <4>1. CASE c = other
        <5>1. browser'[c] = SessionEnded(browser[c])
          BY <1>0, <2>0, <3>2, <4>1 DEF SessionEnded
        <5> QED
          BY <2>0, <5>1, EndedIs DEF AInv, Strong
      <4>2. CASE c # other
        <5>1. browser'[c] = IF c = b THEN r ELSE browser[c]
          BY <1>0, <3>2, <4>2
        <5> QED
          BY <2>0, <3>1, <5>1 DEF AInv
      <4> QED
        BY <4>1, <4>2
    <3>4. browser' = [c \in Browsers |-> browser'[c]]
      BY <1>0, <3>2
    <3> QED
      BY <1>0, <2>0, <3>3, <3>4 DEF AInv
  <2> QED
    BY <2>1, <2>2
<1>10. CASE revokeOthers(b)
  <2> DEFINE r == Showing(Through(b), "sessions")
  <2>1. BrowserRow(r) /\ Recent(r) /\ Strong(r, account)
    BY <1>10, ShownThrough DEF revokeOthers, AtSessions, LetThrough
  <2>2. browser' = OnlySession(b, r) /\ UNCHANGED account
    BY <1>10 DEF revokeOthers
  <2> HIDE DEF r
  <2> QED
    BY <1>0, <2>1, <2>2, OthersEnd
<1>11. CASE revokeAll(b)
  BY <1>0, <1>11, AllOverEnds, NobodyIn DEF revokeAll, Strong
<1> QED
  BY <1>2, <1>3, <1>4, <1>5, <1>6, <1>7, <1>8, <1>9, <1>10, <1>11 DEF InSession

LEMMA OthersKeep ==
    ASSUME AInv, UNCHANGED user, (\E role \in MayHold[user] : assignRole(role)) \/ changeStatus
    PROVE  AInv'
<1>0. AccountRow(account) /\ browser = [c \in Browsers |-> browser[c]]
      /\ \A c \in Browsers : BrowserRow(browser[c]) /\ Recent(browser[c]) /\ Strong(browser[c], account)
  BY DEF AInv
<1>1. AccountRow(account') /\ account'.secret = account.secret /\ account'.codes = account.codes
  BY <1>0 DEF assignRole, changeStatus, AccountRow
<1>2. CASE EndSessions
  <2>1. \A c \in Browsers : browser'[c] = SessionEnded(browser[c])
    BY <1>2 DEF EndSessions, SessionEnded
  <2>2. \A c \in Browsers : BrowserRow(browser'[c]) /\ Recent(browser'[c]) /\ ~browser'[c].session
    BY <1>0, <2>1, EndedIs
  <2>3. browser' = [c \in Browsers |-> browser'[c]]
    BY <1>2 DEF EndSessions
  <2> QED
    BY <1>0, <1>1, <2>2, <2>3 DEF AInv, Strong
<1>3. CASE UNCHANGED browser /\ account'.role = account.role
  BY <1>0, <1>1, <1>3 DEF AInv, Strong
<1>4. EndSessions \/ (UNCHANGED browser /\ account'.role = account.role)
  BY <1>0 DEF assignRole, changeStatus, AccountRow
<1> QED
  BY <1>2, <1>3, <1>4

--------------------------------------------------------------------------------
\* Links
\*
\* What a page shows whom is a table.  A page may be open that was reached by the links of
\* another role, with a cookie that survived the change of the role; so every page counts
\* that opens for a role and that any page links to.  Per role: which of these pages show
\* links of their own, and that their links open or are dead ends.

AccountantPages ==
    {"dashboard", "orders", "orders.show", "orders.review", "adjustments", "adjustments.review",
     "returns", "returns.show", "customers", "customers.show", "invoices", "invoices.show",
     "invoices.print", "invoices.pdf", "payments", "credits", "credits.show", "refunds",
     "refunds.show", "receivables", "receivables.show", "statement", "payables",
     "payables.show", "accounting", "accounts", "journals", "journals.show", "general-ledger",
     "trial-balance", "profit-loss", "balance-sheet", "reconciliation", "reports.sales",
     "reports.customers", "reports.salesmen", "reports.financial", "salesman.orders",
     "salesman.orders.show", "salesman.invoices", "salesman.invoices.show"}

SalesmanPages ==
    {"salesman.dashboard", "salesman.orders", "salesman.orders.show", "salesman.orders.create",
     "drafts", "drafts.edit", "salesman.invoices", "salesman.invoices.show", "invoices.print",
     "invoices.pdf", "customers", "customers.show", "products", "products.show", "categories",
     "categories.show", "receivables", "receivables.show", "statement", "invoices",
     "invoices.show", "returns.create"}

WarehousePages ==
    {"inventory", "inventory.show", "exceptions", "returns", "returns.show", "products",
     "products.show", "categories", "categories.show", "reports.sales", "reports.salesmen",
     "reports.inventory", "reports.delivery", "orders", "orders.review", "deliveries",
     "delivery", "delivery.show", "salesman.orders", "salesman.orders.show"}

DriverPages == {"delivery", "delivery.show", "deliveries", "salesman.orders", "salesman.orders.show"}

\* No page links to the dashboard of salesmen, which they land on, to the catalogue of
\* reports, and to the salesmen's own list of returns, but for the pages of those returns.
OwnReturns == {"salesman.returns", "salesman.returns.show"}
Unlinked == OwnReturns \cup {"salesman.dashboard", "reports"}

\* A page that one of this role may be looking at.
At(page, role) ==
    \/ page = "denied" \/ page = Landing("dashboard", role)
    \/ Opens(page, role) /\ page \notin Unlinked \cup {"dashboard"}

Leads(page, role, link) == Opens(link, role) \/ link \in DeadEnds(page, role)

LEMMA LinksAreSited ==
    ASSUME NEW page, page \notin OwnReturns, NEW role, NEW link \in Links(page, role)
    PROVE  link \notin Unlinked
<1>1. link \notin OfficeLinks(page, role) \/ link \notin Unlinked
  BY DEF OwnReturns, Unlinked, OfficeLinks, DashboardCards, DashboardQueues,
     SalesmanDashboardCards, SalesmanDashboardFeed, AdminOrderQueueTable, AdminOrderQueueCard,
     OrderDetailHeader, OrderDetailCustomerCard, PendingAdjustmentBanner, OrderHistoryTable,
     OrderHistoryCard, OrderHistoryHeader, DraftsTable, DraftsCards, SalesmanOrderHeader,
     AdjustmentsTable, AdjustmentsCards, AdjustmentReviewHeader, InventoryTable, InventoryCards,
     InventoryBalanceHeader, ExceptionsHeader, DeliveriesTable, ReturnsTable, ReturnsCards,
     ReturnHeader, Link
<1>2. link \notin MoneyPageLinks(page) \/ link \notin Unlinked
  BY DEF OwnReturns, Unlinked, MoneyPageLinks, InvoicesTable, InvoicesCards, InvoiceHeader,
     getItemUrl, CreditsTable, CreditsCards, CreditLinkages, RefundsTable, RefundsCards,
     RefundHeader, ReceivablesTable, ReceivablesCards, CustomerLedgerHeader, StatementHeader,
     PayablesTable, AccountingCards, GeneralLedgerTable, GeneralLedgerCards, TrialBalanceTable,
     TrialBalanceCards, JournalsTable, JournalHeader, AccountsTable, ReportCatalog,
     SalesReportTabs, DeliveriesReportTab, CustomersReportTable, FinancialReportHeader
<1>3. link \notin MasterDataPageLinks(page, role) \/ link \notin Unlinked
  BY DEF OwnReturns, Unlinked, MasterDataPageLinks, CategoriesTable, TreeNode, CategoryHeader,
     SubcategoriesAndProducts, ProductsTable, ProductsCards, ProductHeader, CustomersTable,
     CustomersCards, CustomerHeader, SalesmenTable, SalesmanHeader, TaxProfilesTable,
     TimelineHeader, SecurityLogHeader, NotificationsHeader, RolesHeader, SessionsHeader,
     MfaHeader, ErrorPage, Link
<1>4. link \notin AppLayout(role) \/ link \notin Unlinked
  <2>1. link \notin SalesLinks(role) \/ link \notin Unlinked
    BY DEF OwnReturns, Unlinked, SalesLinks, Link
  <2>2. link \notin MasterDataLinks(role) \/ link \notin Unlinked
    BY DEF OwnReturns, Unlinked, MasterDataLinks, Link
  <2>3. link \notin MoneyLinks(role) \/ link \notin Unlinked
    BY DEF OwnReturns, Unlinked, MoneyLinks, Link
  <2>4. link \notin ReportLinks(role) \/ link \notin Unlinked
    BY DEF OwnReturns, Unlinked, ReportLinks, Link
  <2>5. link \notin GovernanceLinks(role) \/ link \notin Unlinked
    BY DEF OwnReturns, Unlinked, GovernanceLinks, Link
  <2>6. link \notin OwnLinks \cup {"dashboard"} \/ link \notin Unlinked
    BY DEF OwnReturns, Unlinked, OwnLinks
  <2> QED
    BY <2>1, <2>2, <2>3, <2>4, <2>5, <2>6 DEF AppLayout
<1>5. link \notin DeliveryLayout \cup MissionList \cup ErrorPage \/ link \notin Unlinked
  BY DEF OwnReturns, Unlinked, DeliveryLayout, MissionList, ErrorPage
<1> QED
  BY <1>1, <1>2, <1>3, <1>4, <1>5 DEF Links

LEMMA HeadsGoEverywhere ==
    ASSUME NEW role \in {"SUPER_ADMIN", "ADMIN"}, NEW page, NEW link
    PROVE  Leads(page, role, link)
<1>1. Needs(link) \in AdminPermissions \cup {""}
  BY DEF Needs, AdminPermissions
<1>2. role \notin TurnedAway(link)
  BY DEF TurnedAway, FieldRoles
<1>3. link \notin NoRoute => Opens(link, role)
  BY <1>1, <1>2 DEF Opens, PermissionsOf, Permissions
<1>4. link \in NoRoute => link \in DeadEnds(page, role)
  BY DEF DeadEnds, FieldRoles
<1> QED
  BY <1>3, <1>4 DEF Leads

LEMMA AccountantOpens == \A page \in AccountantPages \cup OwnLinks : Opens(page, "ACCOUNTANT")
<1> DEFINE pages == AccountantPages \cup OwnLinks
<1>1. \A page \in pages : Needs(page) \in AccountantPermissions \cup {""}
  BY DEF Needs, AccountantPages, OwnLinks, AccountantPermissions
<1>2. \A page \in pages : "ACCOUNTANT" \notin TurnedAway(page) /\ page \notin NoRoute
  BY DEF AccountantPages, OwnLinks, TurnedAway, NoRoute, FieldRoles
<1> QED
  BY <1>1, <1>2 DEF Opens, PermissionsOf

LEMMA SalesmanOpens == \A page \in SalesmanPages \cup OwnLinks \cup {"dashboard"} : Opens(page, "SALESMAN")
<1> DEFINE pages == SalesmanPages \cup OwnLinks \cup {"dashboard"}
<1>1. \A page \in pages : Needs(page) \in PermissionsOf("SALESMAN") \cup {""}
  BY DEF Needs, SalesmanPages, OwnLinks, PermissionsOf
<1>2. \A page \in pages : "SALESMAN" \notin TurnedAway(page) /\ page \notin NoRoute
  BY DEF SalesmanPages, OwnLinks, TurnedAway, NoRoute, FieldRoles
<1> QED
  BY <1>1, <1>2 DEF Opens

LEMMA WarehouseOpens ==
    \A page \in WarehousePages \cup OwnLinks \cup {"dashboard"} : Opens(page, "WAREHOUSE_MANAGER")
<1> DEFINE pages == WarehousePages \cup OwnLinks \cup {"dashboard"}
<1>1. \A page \in pages : Needs(page) \in PermissionsOf("WAREHOUSE_MANAGER") \cup {""}
  BY DEF Needs, WarehousePages, OwnLinks, PermissionsOf
<1>2. \A page \in pages : "WAREHOUSE_MANAGER" \notin TurnedAway(page) /\ page \notin NoRoute
  BY DEF WarehousePages, OwnLinks, TurnedAway, NoRoute, FieldRoles
<1> QED
  BY <1>1, <1>2 DEF Opens

LEMMA DriverOpens ==
    \A page \in DriverPages \cup OwnLinks \cup {"dashboard"} : Opens(page, "DELIVERY_PARTNER")
<1> DEFINE pages == DriverPages \cup OwnLinks \cup {"dashboard"}
<1>1. \A page \in pages : Needs(page) \in {"delivery.view", "order.view", ""}
  BY DEF Needs, DriverPages, OwnLinks
<1>2. \A page \in pages : TurnedAway(page) = {} /\ page \notin NoRoute
  BY DEF DriverPages, OwnLinks, TurnedAway, NoRoute
<1> QED
  BY <1>1, <1>2 DEF Opens, PermissionsOf

LEMMA AccountantLayout == AppLayout("ACCOUNTANT") \subseteq AccountantPages \cup OwnLinks
<1> DEFINE r == "ACCOUNTANT"
<1>1. SalesLinks(r) \subseteq {"orders", "adjustments", "returns", "invoices"}
  BY DEF SalesLinks, Link, May, PermissionsOf, AccountantPermissions
<1>2. MasterDataLinks(r) \subseteq {"customers"}
  BY DEF MasterDataLinks, Link, May, PermissionsOf, AccountantPermissions
<1>3. MoneyLinks(r) \subseteq AccountantPages
  BY DEF MoneyLinks, Link, AccountantPages
<1>4. ReportLinks(r) \subseteq {"reports.sales", "reports.customers", "reports.salesmen", "reports.financial"}
  BY DEF ReportLinks, Link, May, PermissionsOf, AccountantPermissions
<1>5. GovernanceLinks(r) = {}
  BY DEF GovernanceLinks, Link, May, PermissionsOf, AccountantPermissions
<1> QED
  BY <1>1, <1>2, <1>3, <1>4, <1>5 DEF AppLayout, AccountantPages

LEMMA SalesmanLayout == AppLayout("SALESMAN") \subseteq SalesmanPages \cup OwnLinks \cup {"dashboard"}
<1> DEFINE r == "SALESMAN"
<1>1. SalesLinks(r) \subseteq {"salesman.orders", "salesman.orders.create", "salesman.invoices"}
  BY DEF SalesLinks, Link, May, PermissionsOf, hasAdminOrderQueue
<1>2. MasterDataLinks(r) \subseteq {"customers", "products", "categories"}
  BY DEF MasterDataLinks, Link, May, PermissionsOf
<1>3. MoneyLinks(r) \subseteq {"receivables"}
  BY DEF MoneyLinks, Link, May, PermissionsOf
<1>4. ReportLinks(r) = {} /\ GovernanceLinks(r) = {}
  BY DEF ReportLinks, GovernanceLinks, Link, May, PermissionsOf, hasReportingAccess, FieldRoles
<1> QED
  BY <1>1, <1>2, <1>3, <1>4 DEF AppLayout, SalesmanPages

LEMMA WarehouseLayout ==
    AppLayout("WAREHOUSE_MANAGER") \subseteq WarehousePages \cup OwnLinks \cup {"dashboard"}
<1> DEFINE r == "WAREHOUSE_MANAGER"
<1>1. SalesLinks(r) \subseteq {"returns"}
  BY DEF SalesLinks, Link, May, PermissionsOf, hasAdminOrderQueue
<1>2. MasterDataLinks(r) \subseteq {"products", "categories", "inventory", "exceptions"}
  BY DEF MasterDataLinks, Link, May, PermissionsOf
<1>3. MoneyLinks(r) = {} /\ GovernanceLinks(r) = {}
  BY DEF MoneyLinks, GovernanceLinks, Link, May, PermissionsOf, hasCreditView
<1>4. ReportLinks(r) \subseteq {"reports.sales", "reports.salesmen", "reports.inventory", "reports.delivery"}
  BY DEF ReportLinks, Link, May, PermissionsOf
<1> QED
  BY <1>1, <1>2, <1>3, <1>4 DEF AppLayout, WarehousePages

LEMMA DriverLayout == AppLayout("DELIVERY_PARTNER") \subseteq OwnLinks \cup {"dashboard"}
<1> DEFINE r == "DELIVERY_PARTNER"
<1>1. SalesLinks(r) = {} /\ MasterDataLinks(r) = {} /\ MoneyLinks(r) = {}
  BY DEF SalesLinks, MasterDataLinks, MoneyLinks, Link, May, PermissionsOf, hasAdminOrderQueue, hasCreditView
<1>2. ReportLinks(r) = {} /\ GovernanceLinks(r) = {}
  BY DEF ReportLinks, GovernanceLinks, Link, May, PermissionsOf, hasReportingAccess, FieldRoles
<1> QED
  BY <1>1, <1>2 DEF AppLayout

\* The pages that show links of their own.
LinkingPages ==
    {"dashboard", "salesman.dashboard", "orders", "orders.show", "orders.review",
     "salesman.orders", "salesman.orders.show", "salesman.orders.create", "drafts",
     "adjustments", "adjustments.review", "inventory", "inventory.show", "exceptions",
     "deliveries", "delivery", "delivery.show", "returns", "returns.show", "returns.create",
     "salesman.returns", "salesman.returns.show", "invoices", "invoices.show",
     "salesman.invoices", "salesman.invoices.show", "credits", "credits.show", "refunds",
     "refunds.show", "receivables", "receivables.show", "statement", "payables",
     "payables.show", "accounting", "general-ledger", "trial-balance", "journals",
     "journals.show", "accounts", "reports", "reports.sales", "reports.delivery",
     "reports.customers", "reports.financial", "categories", "categories.show", "products",
     "products.show", "customers", "customers.show", "salesmen", "salesmen.show",
     "tax-profiles", "timeline", "security.log", "notifications", "security.roles",
     "sessions", "mfa", "denied"}

LEMMA OthersShowTheLayout ==
    ASSUME NEW page, page \notin LinkingPages, NEW role
    PROVE  Links(page, role) = AppLayout(role)
<1>1. OfficeLinks(page, role) = {}
  BY DEF LinkingPages, OfficeLinks
<1>2. MoneyPageLinks(page) = {}
  BY DEF LinkingPages, MoneyPageLinks
<1>3. MasterDataPageLinks(page, role) = {}
  BY DEF LinkingPages, MasterDataPageLinks
<1> QED
  BY <1>1, <1>2, <1>3 DEF LinkingPages, Links

LEMMA AccountantLooksAt ==
    ASSUME NEW page \in LinkingPages, At(page, "ACCOUNTANT")
    PROVE  page \in AccountantPages \cup OwnLinks \cup {"denied"}
<1> DEFINE forbidden == {"salesman.orders.create", "drafts", "inventory", "inventory.show",
                         "exceptions", "deliveries", "delivery", "delivery.show",
                         "returns.create", "reports.delivery", "categories", "categories.show",
                         "products", "products.show", "salesmen", "salesmen.show",
                         "tax-profiles", "timeline", "security.log", "security.roles"}
<1>1. \A p \in forbidden : ~Opens(p, "ACCOUNTANT")
  <2> DEFINE missing == {"order.create", "inventory.view", "delivery.view", "return.request",
                         "product.view", "user.view", "product.tax.update", "audit.view",
                         "audit.security.view", "role.manage"}
  <2>1. \A p \in forbidden : Needs(p) \in missing
    BY DEF Needs
  <2>2. "" \notin missing /\ missing \cap PermissionsOf("ACCOUNTANT") = {}
    BY DEF PermissionsOf, AccountantPermissions
  <2> HIDE DEF forbidden, missing
  <2> QED
    BY <2>1, <2>2 DEF Opens
<1>2. page \notin forbidden \/ page = Landing("dashboard", "ACCOUNTANT") \/ page = "denied"
  BY <1>1 DEF At
<1>3. Landing("dashboard", "ACCOUNTANT") \in AccountantPages
  BY DEF Landing, AccountantPages
<1>4. page \in forbidden \cup AccountantPages \cup OwnLinks \cup {"denied", "dashboard"} \cup Unlinked
  BY DEF LinkingPages, OwnLinks, OwnReturns, Unlinked, AccountantPages
<1> HIDE DEF forbidden
<1> QED
  BY <1>2, <1>3, <1>4 DEF At

LEMMA SalesmanLooksAt ==
    ASSUME NEW page \in LinkingPages, At(page, "SALESMAN")
    PROVE  page \in SalesmanPages \cup OwnLinks \cup {"denied"}
<1> DEFINE forbidden == {"adjustments", "adjustments.review", "inventory", "inventory.show",
                         "exceptions", "deliveries", "delivery", "delivery.show", "returns",
                         "returns.show", "credits", "credits.show", "refunds", "refunds.show",
                         "payables", "payables.show", "accounting", "general-ledger",
                         "trial-balance", "journals", "journals.show", "accounts",
                         "reports.delivery", "reports.financial", "salesmen", "salesmen.show",
                         "tax-profiles", "timeline", "security.log", "security.roles"}
           turnedAway == {"orders", "orders.show", "orders.review", "reports.sales",
                          "reports.customers"}
<1>1. \A p \in forbidden : ~Opens(p, "SALESMAN")
  <2> DEFINE missing == {"order.adjust.review", "inventory.view", "delivery.view",
                         "return.review", "credit.view", "refund.view", "payable.view",
                         "accounting.view", "user.view", "product.tax.update", "audit.view",
                         "audit.security.view", "role.manage"}
  <2>1. \A p \in forbidden : Needs(p) \in missing
    BY DEF Needs
  <2>2. "" \notin missing /\ missing \cap PermissionsOf("SALESMAN") = {}
    BY DEF PermissionsOf
  <2> HIDE DEF forbidden, missing
  <2> QED
    BY <2>1, <2>2 DEF Opens
<1>2. \A p \in turnedAway : ~Opens(p, "SALESMAN")
  BY DEF Opens, TurnedAway, FieldRoles
<1>3. page \notin (forbidden \cup turnedAway) \/ page = Landing("dashboard", "SALESMAN") \/ page = "denied"
  BY <1>1, <1>2 DEF At
<1>4. Landing("dashboard", "SALESMAN") \in SalesmanPages
  BY DEF Landing, SalesmanPages
<1>5. page \in forbidden \cup turnedAway \cup SalesmanPages \cup OwnLinks
            \cup {"denied", "dashboard"} \cup Unlinked
  BY DEF LinkingPages, OwnLinks, OwnReturns, Unlinked, SalesmanPages
<1> HIDE DEF forbidden, turnedAway
<1> QED
  BY <1>3, <1>4, <1>5 DEF At

LEMMA WarehouseLooksAt ==
    ASSUME NEW page \in LinkingPages, At(page, "WAREHOUSE_MANAGER")
    PROVE  page \in WarehousePages \cup OwnLinks \cup {"denied"}
<1> DEFINE forbidden == {"salesman.orders.create", "drafts", "adjustments",
                         "adjustments.review", "returns.create", "invoices", "invoices.show",
                         "salesman.invoices", "salesman.invoices.show", "credits",
                         "credits.show", "refunds", "refunds.show", "receivables",
                         "receivables.show", "statement", "payables", "payables.show",
                         "accounting", "general-ledger", "trial-balance", "journals",
                         "journals.show", "accounts", "reports.customers", "reports.financial",
                         "customers", "customers.show", "salesmen", "salesmen.show",
                         "tax-profiles", "timeline", "security.log", "security.roles"}
           turnedAway == {"orders.show"}
<1>1. \A p \in forbidden : ~Opens(p, "WAREHOUSE_MANAGER")
  <2> DEFINE missing == {"order.create", "order.adjust.review", "return.request",
                         "invoice.view", "credit.view", "refund.view", "receivable.view",
                         "payable.view", "accounting.view", "customer.view", "user.view",
                         "product.tax.update", "audit.view", "audit.security.view",
                         "role.manage"}
  <2>1. \A p \in forbidden : Needs(p) \in missing
    BY DEF Needs
  <2>2. "" \notin missing /\ missing \cap PermissionsOf("WAREHOUSE_MANAGER") = {}
    BY DEF PermissionsOf
  <2> HIDE DEF forbidden, missing
  <2> QED
    BY <2>1, <2>2 DEF Opens
<1>2. \A p \in turnedAway : ~Opens(p, "WAREHOUSE_MANAGER")
  BY DEF Opens, TurnedAway, FieldRoles
<1>3. page \notin (forbidden \cup turnedAway)
        \/ page = Landing("dashboard", "WAREHOUSE_MANAGER") \/ page = "denied"
  BY <1>1, <1>2 DEF At
<1>4. Landing("dashboard", "WAREHOUSE_MANAGER") \in WarehousePages
  BY DEF Landing, WarehousePages
<1>5. page \in forbidden \cup turnedAway \cup WarehousePages \cup OwnLinks
            \cup {"denied", "dashboard"} \cup Unlinked
  BY DEF LinkingPages, OwnLinks, OwnReturns, Unlinked, WarehousePages
<1> HIDE DEF forbidden, turnedAway
<1> QED
  BY <1>3, <1>4, <1>5 DEF At

LEMMA DriverLooksAt ==
    ASSUME NEW page \in LinkingPages, At(page, "DELIVERY_PARTNER")
    PROVE  page \in DriverPages \cup OwnLinks \cup {"denied"}
<1> DEFINE forbidden == {"salesman.orders.create", "drafts", "adjustments",
                         "adjustments.review", "inventory", "inventory.show", "exceptions",
                         "returns", "returns.show", "returns.create", "invoices",
                         "invoices.show", "salesman.invoices", "salesman.invoices.show",
                         "credits", "credits.show", "refunds", "refunds.show", "receivables",
                         "receivables.show", "statement", "payables", "payables.show",
                         "accounting", "general-ledger", "trial-balance", "journals",
                         "journals.show", "accounts", "reports.customers", "reports.financial",
                         "categories", "categories.show", "products", "products.show",
                         "customers", "customers.show", "salesmen", "salesmen.show",
                         "tax-profiles", "timeline", "security.log", "security.roles"}
           turnedAway == {"orders", "orders.show", "orders.review", "reports.sales",
                          "reports.delivery"}
<1>1. \A p \in forbidden : ~Opens(p, "DELIVERY_PARTNER")
  <2> DEFINE missing == {"order.create", "order.adjust.review", "inventory.view",
                         "return.review", "return.request", "invoice.view", "credit.view",
                         "refund.view", "receivable.view", "payable.view", "accounting.view",
                         "customer.view", "product.view", "user.view", "product.tax.update",
                         "audit.view", "audit.security.view", "role.manage"}
  <2>1. \A p \in forbidden : Needs(p) \in missing
    BY DEF Needs
  <2>2. "" \notin missing /\ missing \cap PermissionsOf("DELIVERY_PARTNER") = {}
    BY DEF PermissionsOf
  <2> HIDE DEF forbidden, missing
  <2> QED
    BY <2>1, <2>2 DEF Opens
<1>2. \A p \in turnedAway : ~Opens(p, "DELIVERY_PARTNER")
  BY DEF Opens, TurnedAway, FieldRoles
<1>3. page \notin (forbidden \cup turnedAway)
        \/ page = Landing("dashboard", "DELIVERY_PARTNER") \/ page = "denied"
  BY <1>1, <1>2 DEF At
<1>4. Landing("dashboard", "DELIVERY_PARTNER") \in DriverPages
  BY DEF Landing, DriverPages
<1>5. page \in forbidden \cup turnedAway \cup DriverPages \cup OwnLinks
            \cup {"denied", "dashboard"} \cup Unlinked
  BY DEF LinkingPages, OwnLinks, OwnReturns, Unlinked, DriverPages
<1> HIDE DEF forbidden, turnedAway
<1> QED
  BY <1>3, <1>4, <1>5 DEF At


LEMMA AccountantPageLinks ==
    ASSUME NEW page \in AccountantPages \cup OwnLinks \cup {"denied"}
    PROVE  /\ OfficeLinks(page, "ACCOUNTANT") \subseteq AccountantPages
                 \cup (IF page = "dashboard" THEN {"inventory", "deliveries"} ELSE {})
                 \cup (IF page = "returns" THEN {"returns.create"} ELSE {})
                 \cup (IF page \in {"salesman.orders", "salesman.orders.show"}
                       THEN {"salesman.orders.create", "drafts", "customers"} ELSE {})
           /\ MoneyPageLinks(page) \subseteq AccountantPages \cup NoRoute
           /\ MasterDataPageLinks(page, "ACCOUNTANT") \subseteq AccountantPages \cup OwnLinks
<1>1. page \in {"dashboard", "orders", "orders.show", "orders.review", "adjustments",
                "adjustments.review", "returns", "returns.show", "salesman.orders",
                "salesman.orders.show"}
      \/ OfficeLinks(page, "ACCOUNTANT") = {}
  BY DEF AccountantPages, OwnLinks, OfficeLinks
<1>2. page \in {"customers", "customers.show", "notifications", "sessions", "mfa", "denied"}
      \/ MasterDataPageLinks(page, "ACCOUNTANT") = {}
  BY DEF AccountantPages, OwnLinks, MasterDataPageLinks
<1>3. OfficeLinks(page, "ACCOUNTANT") \subseteq AccountantPages
         \cup (IF page = "dashboard" THEN {"inventory", "deliveries"} ELSE {})
         \cup (IF page = "returns" THEN {"returns.create"} ELSE {})
                 \cup (IF page \in {"salesman.orders", "salesman.orders.show"}
                       THEN {"salesman.orders.create", "drafts", "customers"} ELSE {})
  BY <1>1 DEF AccountantPages, OfficeLinks, DashboardCards, DashboardQueues,
     AdminOrderQueueTable, AdminOrderQueueCard, OrderDetailHeader, OrderDetailCustomerCard,
     PendingAdjustmentBanner, AdjustmentsTable, AdjustmentsCards, AdjustmentReviewHeader,
     ReturnsTable, ReturnsCards, ReturnHeader, OrderHistoryTable, OrderHistoryCard,
     OrderHistoryHeader, SalesmanOrderHeader, Link
<1>4. MasterDataPageLinks(page, "ACCOUNTANT") \subseteq AccountantPages \cup OwnLinks
  BY <1>2 DEF AccountantPages, OwnLinks, MasterDataPageLinks, CustomersTable, CustomersCards,
     CustomerHeader, NotificationsHeader, SessionsHeader, MfaHeader, ErrorPage, Link, May,
     PermissionsOf, AccountantPermissions
<1>5. MoneyPageLinks(page) \subseteq AccountantPages \cup NoRoute
  BY DEF AccountantPages, OwnLinks, NoRoute, MoneyPageLinks, InvoicesTable, InvoicesCards,
     InvoiceHeader, getItemUrl, CreditsTable, CreditsCards, CreditLinkages, RefundsTable,
     RefundsCards, RefundHeader, ReceivablesTable, ReceivablesCards, CustomerLedgerHeader,
     StatementHeader, PayablesTable, AccountingCards, GeneralLedgerTable, GeneralLedgerCards,
     TrialBalanceTable, TrialBalanceCards, JournalsTable, JournalHeader, AccountsTable,
     SalesReportTabs, CustomersReportTable, FinancialReportHeader
<1> QED
  BY <1>3, <1>4, <1>5

LEMMA SalesmanPageLinks ==
    ASSUME NEW page \in SalesmanPages \cup OwnLinks \cup {"denied"}
    PROVE  /\ OfficeLinks(page, "SALESMAN") \subseteq
                 SalesmanPages \cup (IF page = "returns.create" THEN {"returns"} ELSE {})
           /\ MoneyPageLinks(page) \subseteq SalesmanPages \cup NoRoute
           /\ MasterDataPageLinks(page, "SALESMAN") \subseteq SalesmanPages \cup OwnLinks \cup {"dashboard"}
<1>1. OfficeLinks(page, "SALESMAN") \subseteq
                 SalesmanPages \cup (IF page = "returns.create" THEN {"returns"} ELSE {})
  BY DEF SalesmanPages, OwnLinks, OfficeLinks, SalesmanDashboardCards, SalesmanDashboardFeed,
     OrderHistoryTable, OrderHistoryCard, OrderHistoryHeader, DraftsTable, DraftsCards,
     SalesmanOrderHeader, PendingAdjustmentBanner, Link, May, PermissionsOf
<1>2. MoneyPageLinks(page) \subseteq SalesmanPages \cup NoRoute
  BY DEF SalesmanPages, OwnLinks, NoRoute, MoneyPageLinks, InvoicesTable, InvoicesCards,
     InvoiceHeader, getItemUrl, ReceivablesTable, ReceivablesCards, CustomerLedgerHeader,
     StatementHeader
<1>3. MasterDataPageLinks(page, "SALESMAN") \subseteq SalesmanPages \cup OwnLinks \cup {"dashboard"}
  BY DEF SalesmanPages, OwnLinks, MasterDataPageLinks, CategoriesTable, TreeNode, CategoryHeader,
     SubcategoriesAndProducts, ProductsTable, ProductsCards, ProductHeader, CustomersTable,
     CustomersCards, CustomerHeader, NotificationsHeader, SessionsHeader, MfaHeader, ErrorPage,
     Link, May, PermissionsOf
<1> QED
  BY <1>1, <1>2, <1>3

LEMMA WarehousePageLinks ==
    ASSUME NEW page \in WarehousePages \cup OwnLinks \cup {"denied"}
    PROVE  /\ OfficeLinks(page, "WAREHOUSE_MANAGER") \subseteq WarehousePages
                 \cup (IF page = "returns" THEN {"returns.create"} ELSE {})
                 \cup (IF page \in {"returns.show", "orders"} THEN {"orders.show"} ELSE {})
                 \cup (IF page \in {"salesman.orders", "salesman.orders.show"}
                       THEN {"salesman.orders.create", "drafts", "customers"} ELSE {})
           /\ MoneyPageLinks(page) \subseteq
                 (IF page = "reports.sales" THEN {"customers.show", "orders.show"} ELSE {})
                 \cup (IF page = "reports.delivery" THEN {"orders.show"} ELSE {})
           /\ MasterDataPageLinks(page, "WAREHOUSE_MANAGER") \subseteq
                 WarehousePages \cup OwnLinks \cup {"dashboard"}
<1>1. OfficeLinks(page, "WAREHOUSE_MANAGER") \subseteq WarehousePages
         \cup (IF page = "returns" THEN {"returns.create"} ELSE {})
         \cup (IF page \in {"returns.show", "orders"} THEN {"orders.show"} ELSE {})
                 \cup (IF page \in {"salesman.orders", "salesman.orders.show"}
                       THEN {"salesman.orders.create", "drafts", "customers"} ELSE {})
  BY DEF WarehousePages, OwnLinks, OfficeLinks, InventoryTable, InventoryCards,
     InventoryBalanceHeader, ExceptionsHeader, ReturnsTable, ReturnsCards, ReturnHeader,
     AdminOrderQueueTable, AdminOrderQueueCard, OrderHistoryTable, OrderHistoryCard,
     OrderHistoryHeader, SalesmanOrderHeader, PendingAdjustmentBanner, DeliveriesTable, Link,
     May, PermissionsOf
<1>2. MoneyPageLinks(page) \subseteq
         (IF page = "reports.sales" THEN {"customers.show", "orders.show"} ELSE {})
         \cup (IF page = "reports.delivery" THEN {"orders.show"} ELSE {})
  BY DEF WarehousePages, OwnLinks, MoneyPageLinks, SalesReportTabs, DeliveriesReportTab
<1>3. MasterDataPageLinks(page, "WAREHOUSE_MANAGER") \subseteq WarehousePages \cup OwnLinks \cup {"dashboard"}
  BY DEF WarehousePages, OwnLinks, MasterDataPageLinks, CategoriesTable, TreeNode, CategoryHeader,
     SubcategoriesAndProducts, ProductsTable, ProductsCards, ProductHeader, NotificationsHeader,
     SessionsHeader, MfaHeader, ErrorPage, Link, May, PermissionsOf
<1> QED
  BY <1>1, <1>2, <1>3

LEMMA OwnPageLinks ==
    ASSUME NEW page \in OwnLinks, NEW role
    PROVE  /\ OfficeLinks(page, role) = {} /\ MoneyPageLinks(page) = {}
           /\ MasterDataPageLinks(page, role) \subseteq OwnLinks \cup {"dashboard"}
BY DEF OwnLinks, OfficeLinks, MoneyPageLinks, MasterDataPageLinks, NotificationsHeader,
   SessionsHeader, MfaHeader

LEMMA DriverPageLinks ==
    ASSUME NEW page \in DriverPages
    PROVE  /\ OfficeLinks(page, "DELIVERY_PARTNER") \subseteq DriverPages
                 \cup (IF page \in {"salesman.orders", "salesman.orders.show"}
                       THEN {"salesman.orders.create", "drafts", "customers"} ELSE {})
           /\ MoneyPageLinks(page) = {} /\ MasterDataPageLinks(page, "DELIVERY_PARTNER") = {}
BY DEF DriverPages, OfficeLinks, MoneyPageLinks, MasterDataPageLinks, OrderHistoryTable,
   OrderHistoryCard, OrderHistoryHeader, SalesmanOrderHeader, PendingAdjustmentBanner,
   DeliveriesTable, Link, May, PermissionsOf


LEMMA LinksLead ==
    ASSUME NEW role \in Roles, NEW page, At(page, role), NEW link \in Links(page, role)
    PROVE  Leads(page, role, link)
<1>1. CASE role \in {"SUPER_ADMIN", "ADMIN"}
  BY <1>1, HeadsGoEverywhere
<1>2. CASE role = "ACCOUNTANT"
  <2>1. page \notin LinkingPages \/ page \in AccountantPages \cup OwnLinks \cup {"denied"}
    BY <1>2, AccountantLooksAt
  <2>2. \/ link \in AccountantPages \cup OwnLinks
        \/ link \in NoRoute
        \/ page = "dashboard" /\ link \in {"inventory", "deliveries"}
        \/ page = "returns" /\ link = "returns.create"
        \/ page \in {"salesman.orders", "salesman.orders.show"}
             /\ link \in {"salesman.orders.create", "drafts", "customers"}
    <3>1. CASE page \notin LinkingPages
      BY <1>2, <3>1, OthersShowTheLayout, AccountantLayout
    <3>2. CASE page = "denied"
      BY <3>2 DEF Links, ErrorPage, AccountantPages
    <3>3. CASE page \in AccountantPages \cup OwnLinks
      <4>1. page \notin {"delivery", "delivery.show", "denied"}
        BY <3>3 DEF AccountantPages, OwnLinks
      <4>2. link \in AppLayout(role) \cup OfficeLinks(page, role) \cup MoneyPageLinks(page)
                         \cup MasterDataPageLinks(page, role)
        BY <4>1 DEF Links
      <4> QED
        BY <1>2, <3>3, <4>2, AccountantLayout, AccountantPageLinks
    <3> QED
      BY <2>1, <3>1, <3>2, <3>3
  <2>3. CASE link \in AccountantPages \cup OwnLinks
    BY <1>2, <2>3, AccountantOpens DEF Leads
  <2>4. CASE \/ link \in NoRoute
             \/ page = "dashboard" /\ link \in {"inventory", "deliveries"}
             \/ page = "returns" /\ link = "returns.create"
             \/ page \in {"salesman.orders", "salesman.orders.show"}
                  /\ link \in {"salesman.orders.create", "drafts", "customers"}
    BY <1>2, <2>4 DEF Leads, DeadEnds, FieldRoles
  <2> QED
    BY <2>2, <2>3, <2>4
<1>3. CASE role = "SALESMAN"
  <2>1. page \notin LinkingPages \/ page \in SalesmanPages \cup OwnLinks \cup {"denied"}
    BY <1>3, SalesmanLooksAt
  <2>2. \/ link \in SalesmanPages \cup OwnLinks \cup {"dashboard"}
        \/ link \in NoRoute
        \/ page = "returns.create" /\ link = "returns"
    <3>1. CASE page \notin LinkingPages
      BY <1>3, <3>1, OthersShowTheLayout, SalesmanLayout
    <3>2. CASE page = "denied"
      BY <3>2 DEF Links, ErrorPage
    <3>3. CASE page \in SalesmanPages \cup OwnLinks
      <4>1. page \notin {"delivery", "delivery.show", "denied"}
        BY <3>3 DEF SalesmanPages, OwnLinks
      <4>2. link \in AppLayout(role) \cup OfficeLinks(page, role) \cup MoneyPageLinks(page)
                         \cup MasterDataPageLinks(page, role)
        BY <4>1 DEF Links
      <4> QED
        BY <1>3, <3>3, <4>2, SalesmanLayout, SalesmanPageLinks
    <3> QED
      BY <2>1, <3>1, <3>2, <3>3
  <2>3. CASE link \in SalesmanPages \cup OwnLinks \cup {"dashboard"}
    BY <1>3, <2>3, SalesmanOpens DEF Leads
  <2>4. CASE \/ link \in NoRoute
             \/ page = "returns.create" /\ link = "returns"
    BY <1>3, <2>4 DEF Leads, DeadEnds, FieldRoles
  <2> QED
    BY <2>2, <2>3, <2>4
<1>4. CASE role = "WAREHOUSE_MANAGER"
  <2>1. page \notin LinkingPages \/ page \in WarehousePages \cup OwnLinks \cup {"denied"}
    BY <1>4, WarehouseLooksAt
  <2>2. \/ link \in WarehousePages \cup OwnLinks \cup {"dashboard"}
        \/ page = "returns" /\ link = "returns.create"
        \/ page \in {"orders", "returns.show", "reports.delivery"} /\ link = "orders.show"
        \/ page = "reports.sales" /\ link \in {"customers.show", "orders.show"}
        \/ page \in {"salesman.orders", "salesman.orders.show"}
             /\ link \in {"salesman.orders.create", "drafts", "customers"}
    <3>1. CASE page \notin LinkingPages
      BY <1>4, <3>1, OthersShowTheLayout, WarehouseLayout
    <3>2. CASE page = "denied"
      BY <3>2 DEF Links, ErrorPage
    <3>3. CASE page \in {"delivery", "delivery.show"}
      BY <3>3 DEF Links, DeliveryLayout, MissionList, WarehousePages, OwnLinks
    <3>4. CASE page \in (WarehousePages \cup OwnLinks) \ {"delivery", "delivery.show"}
      <4>1. link \in AppLayout(role) \cup OfficeLinks(page, role) \cup MoneyPageLinks(page)
                         \cup MasterDataPageLinks(page, role)
        BY <3>4 DEF Links, WarehousePages, OwnLinks
      <4> QED
        BY <1>4, <3>4, <4>1, WarehouseLayout, WarehousePageLinks
    <3> QED
      BY <2>1, <3>1, <3>2, <3>3, <3>4
  <2>3. CASE link \in WarehousePages \cup OwnLinks \cup {"dashboard"}
    BY <1>4, <2>3, WarehouseOpens DEF Leads
  <2>4. CASE \/ page = "returns" /\ link = "returns.create"
             \/ page \in {"orders", "returns.show", "reports.delivery"} /\ link = "orders.show"
             \/ page = "reports.sales" /\ link \in {"customers.show", "orders.show"}
             \/ page \in {"salesman.orders", "salesman.orders.show"}
                  /\ link \in {"salesman.orders.create", "drafts", "customers"}
    BY <1>4, <2>4 DEF Leads, DeadEnds, FieldRoles
  <2> QED
    BY <2>2, <2>3, <2>4
<1>5. CASE role = "DELIVERY_PARTNER"
  <2>1. page \notin LinkingPages \/ page \in DriverPages \cup OwnLinks \cup {"denied"}
    BY <1>5, DriverLooksAt
  <2>2. \/ link \in DriverPages \cup OwnLinks \cup {"dashboard"}
        \/ page \in {"salesman.orders", "salesman.orders.show"}
             /\ link \in {"salesman.orders.create", "drafts", "customers"}
    <3>1. CASE page \notin LinkingPages
      BY <1>5, <3>1, OthersShowTheLayout, DriverLayout
    <3>2. CASE page = "denied"
      BY <3>2 DEF Links, ErrorPage
    <3>3. CASE page \in {"delivery", "delivery.show"}
      BY <3>3 DEF Links, DeliveryLayout, MissionList, DriverPages, OwnLinks
    <3>4. CASE page \in (DriverPages \cup OwnLinks) \ {"delivery", "delivery.show"}
      <4>1. link \in AppLayout(role) \cup OfficeLinks(page, role) \cup MoneyPageLinks(page)
                         \cup MasterDataPageLinks(page, role)
        BY <3>4 DEF Links, DriverPages, OwnLinks
      <4> QED
        BY <1>5, <3>4, <4>1, DriverLayout, DriverPageLinks, OwnPageLinks
    <3> QED
      BY <2>1, <3>1, <3>2, <3>3, <3>4
  <2>3. CASE link \in DriverPages \cup OwnLinks \cup {"dashboard"}
    BY <1>5, <2>3, DriverOpens DEF Leads
  <2>4. CASE \/ page \in {"salesman.orders", "salesman.orders.show"}
                  /\ link \in {"salesman.orders.create", "drafts", "customers"}
    BY <1>5, <2>4 DEF Leads, DeadEnds, FieldRoles
  <2> QED
    BY <2>2, <2>3, <2>4
<1> QED
  BY <1>1, <1>2, <1>3, <1>4, <1>5 DEF Roles

\* A link that opens leads to a page that one of this role may look at.
LEMMA OpenedIsAt ==
    ASSUME NEW link, link \notin Unlinked, NEW role \in Roles, Opens(link, role)
    PROVE  At(Landing(link, role), role)
BY DEF At, Landing

--------------------------------------------------------------------------------
\* Pages that are open in a session

\* Whoever is signed in looks at a page for the role that the user has; one that was left
\* open for another role, with a cookie, is at least one that a page links to.
Right(r, role) == r.at \notin OwnReturns /\ (r.session => r.as = role /\ At(r.at, role))

PageInv == account.role \in Roles /\ \A b \in Browsers : Right(browser[b], account.role)

LEMMA OwnPagesAreRight ==
    ASSUME NEW role \in Roles
    PROVE  /\ At(Landing("dashboard", role), role) /\ At("denied", role)
           /\ At("mfa", role) /\ At("sessions", role)
BY DEF Roles, At, Landing, Opens, Needs, TurnedAway, NoRoute, Unlinked, OwnReturns

LEMMA NotOwnReturns ==
    ASSUME NEW role, NEW page, At(page, role)
    PROVE  page \notin OwnReturns
BY DEF At, Landing, OwnReturns, Unlinked

LEMMA ShownIsRight ==
    ASSUME NEW r, BrowserRow(r), NEW page, At(page, account.role)
    PROVE  Right(Showing(r, page), account.role)
BY NotOwnReturns DEF BrowserRow, BrowserFields, Showing, Right

LEMMA SignedInIsRight ==
    ASSUME account.role \in Roles, NEW r, BrowserRow(r), NEW remember
    PROVE  Right(SignedIn(r, remember), account.role)
<1> DEFINE s == [r EXCEPT !.session = TRUE, !.recalled = FALSE, !.challenge = NoChallenge,
                           !.pending = 0, !.cookie = remember]
<1>1. BrowserRow(s)
  BY DEF BrowserRow, BrowserFields
<1> HIDE DEF s
<1>2. Right(Showing(s, Landing("dashboard", account.role)), account.role)
  BY <1>1, OwnPagesAreRight, ShownIsRight
<1> QED
  BY <1>2 DEF SignedIn, s

\* A session ends, or a cookie.
LEMMA EndedIsRight ==
    ASSUME NEW r, BrowserRow(r), NEW role, NEW new
    PROVE  /\ Right(Out, role)
           /\ Right(r, role) => Right(SessionEnded(r), new) /\ Right(Revoked(r), new) /\ Right(Uncookied(r), role)
<1>1. Right(Out, role)
  BY DEF Right, Out, OwnReturns
<1>2. /\ ~SessionEnded(r).session /\ SessionEnded(r).at = r.at
      /\ ~Revoked(r).session /\ Revoked(r).at = r.at
      /\ Uncookied(r).session = r.session /\ Uncookied(r).at = r.at /\ Uncookied(r).as = r.as
  BY DEF BrowserRow, BrowserFields, SessionEnded, Revoked, Uncookied
<1> QED
  BY <1>1, <1>2 DEF Right

\* One browser shows another page; sessions and cookies of others may end.
LEMMA PagesStayRight ==
    ASSUME AInv, PageInv, NEW b \in Browsers, Right(browser'[b], account.role),
           account'.role = account.role,
           \A c \in Browsers \ {b} :
               browser'[c] \in {browser[c], SessionEnded(browser[c]), Uncookied(browser[c]), Revoked(browser[c])}
    PROVE  PageInv'
<1> SUFFICES ASSUME NEW c \in Browsers PROVE Right(browser'[c], account.role)
  BY DEF PageInv
<1>1. Right(browser[c], account.role) /\ BrowserRow(browser[c])
  BY DEF PageInv, AInv
<1> QED
  BY <1>1, EndedIsRight


LEMMA SignOutIsRight ==
    ASSUME AInv, PageInv, NEW b \in Browsers, SignOut(b), account'.role = account.role
    PROVE  PageInv'
<1>1. \A c \in Browsers : browser'[c] = Uncookied([browser EXCEPT ![b] = Out][c])
  BY DEF SignOut, Cycled, Uncookied
<1>2. browser'[b] = Uncookied(Out) /\ \A c \in Browsers \ {b} : browser'[c] = Uncookied(browser[c])
  BY <1>1 DEF AInv
<1>3. Right(browser'[b], account.role)
  BY <1>2, OutIs, EndedIsRight
<1> QED
  BY <1>2, <1>3, PagesStayRight

LEMMA AllOverIsRight ==
    ASSUME AInv, PageInv, NEW b \in Browsers, AllOver(b), account'.role = account.role
    PROVE  PageInv'
<1>1. browser'[b] \in {Out, Revoked(browser[b])} /\ \A c \in Browsers \ {b} : browser'[c] = Revoked(browser[c])
  BY DEF AllOver
<1>2. Right(browser'[b], account.role)
  BY <1>1, EndedIsRight DEF AInv, PageInv
<1> QED
  BY <1>1, <1>2, PagesStayRight

\* A row with other fields that no page shows.
LEMMA StaysRight ==
    ASSUME NEW r, NEW s, NEW role, Right(r, role), s.session = r.session, s.at = r.at, s.as = r.as
    PROVE  Right(s, role)
BY DEF Right

LEMMA PageOfWrong ==
    ASSUME NEW r, BrowserRow(r)
    PROVE  Wrong(r).at \in {r.at, "login"}
BY DEF BrowserRow, BrowserFields, Wrong, Out

LEMMA SigningInIsRight ==
    ASSUME AInv, PageInv, NEW b \in Browsers, SigningIn(b)
    PROVE  PageInv'
<1>0. /\ BrowserRow(browser[b]) /\ browser = [c \in Browsers |-> browser[c]] /\ AccountRow(account)
      /\ account.role \in Roles /\ Right(browser[b], account.role)
  BY DEF AInv, PageInv
<1>1. ASSUME NEW r, browser' = [browser EXCEPT ![b] = r], Right(r, account.role), account'.role = account.role
      PROVE  PageInv'
  BY <1>0, <1>1, PagesStayRight
<1>2. ASSUME NEW remember, NEW r, BrowserRow(r),
             browser' = [browser EXCEPT ![b] = SignedIn(r, remember)], account'.role = account.role
      PROVE  PageInv'
  BY <1>0, <1>1, <1>2, SignedInIsRight
<1>3. ASSUME Challenged(b), NEW r \in {Out, Wrong(browser[b])},
             browser' = [browser EXCEPT ![b] = r], UNCHANGED account
      PROVE  PageInv'
  <2>1. ~browser[b].session /\ (browser[b].since \/ browser[b].outlived)
    BY <1>0, <1>3 DEF Challenged, Guest, Recent, AInv
  <2>2. ~r.session /\ r.at \in {browser[b].at, "login"}
    <3>1. ~Out.session /\ Out.at = "login"
      BY DEF Out
    <3>2. ~Wrong(browser[b]).session /\ Wrong(browser[b]).at \in {browser[b].at, "login"}
      BY <1>0, <2>1, WrongIs, PageOfWrong
    <3> QED
      BY <1>3, <3>1, <3>2
  <2> QED
    BY <1>0, <1>1, <1>3, <2>2 DEF Right, OwnReturns
<1>4. CASE \E remember \in BOOLEAN : Login(b, remember)
  <2> PICK remember \in BOOLEAN : Login(b, remember)
    BY <1>4
  <2>1. UNCHANGED account /\ ~browser[b].session
    BY DEF Login, Guest
  <2>2. CASE hasMfaEnabled \/ requiresMfa
    <3> DEFINE g == PasswordGiven(browser[b])
               c == [open |-> TRUE, setup |-> ~hasMfaEnabled, wrong |-> 0, remember |-> remember,
                     secret |-> IF hasMfaEnabled THEN 0 ELSE made + 1]
               r == [g EXCEPT !.at = "challenge", !.challenge = c]
    <3>1. browser' = [browser EXCEPT ![b] = r]
      BY <2>2, <1>0 DEF Login
    <3>2. BrowserRow(g) /\ g.session = browser[b].session
      BY <1>0, PasswordGivenIs
    <3> HIDE DEF g, c
    <3>3. r.session = g.session /\ r.at = "challenge"
      BY <3>2 DEF BrowserRow, BrowserFields
    <3> HIDE DEF r
    <3> QED
      BY <1>1, <2>1, <3>1, <3>2, <3>3 DEF Right, OwnReturns
  <2>3. CASE ~(hasMfaEnabled \/ requiresMfa)
    <3>1. browser' = [browser EXCEPT ![b] = SignedIn(PasswordGiven(browser[b]), remember)]
      BY <1>0, <2>3 DEF Login
    <3> QED
      BY <1>0, <1>2, <2>1, <3>1, PasswordGivenIs
  <2> QED
    BY <2>2, <2>3
<1>5. CASE \E secret \in Secrets : EnterCode(b, secret)
  <2> PICK secret \in Secrets : EnterCode(b, secret)
    BY <1>5
  <2>0. Challenged(b)
    BY DEF EnterCode
  <2> DEFINE valid == secret # 0 /\ secret = (IF browser[b].challenge.setup THEN browser[b].challenge.secret
                                              ELSE account.secret)
  <2>1. CASE account.active /\ valid
    <3>1. browser' = [browser EXCEPT ![b] = SignedIn(browser[b], browser[b].challenge.remember)]
      BY <1>0, <2>1 DEF EnterCode
    <3>2. account'.role = account.role
      BY <1>0, <2>1 DEF EnterCode, AccountRow
    <3> QED
      BY <1>0, <1>2, <3>1, <3>2
  <2>2. CASE ~(account.active /\ valid)
    <3>1. PICK r \in {Out, Wrong(browser[b])} : browser' = [browser EXCEPT ![b] = r]
      BY <1>0, <2>2 DEF EnterCode
    <3>2. UNCHANGED account
      BY <2>2 DEF EnterCode
    <3> QED
      BY <1>3, <2>0, <3>1, <3>2
  <2> QED
    BY <2>1, <2>2
<1>6. CASE \E codes \in Secrets : EnterRecoveryCode(b, codes)
  <2> PICK codes \in Secrets : EnterRecoveryCode(b, codes)
    BY <1>6
  <2>0. Challenged(b)
    BY DEF EnterRecoveryCode
  <2> DEFINE valid == ~browser[b].challenge.setup /\ codes # 0 /\ codes = account.codes
  <2>1. CASE account.active /\ valid
    <3>1. browser' = [browser EXCEPT ![b] = SignedIn(browser[b], browser[b].challenge.remember)]
      BY <1>0, <2>1 DEF EnterRecoveryCode
    <3>2. account'.role = account.role
      BY <1>0, <2>1 DEF EnterRecoveryCode, AccountRow
    <3> QED
      BY <1>0, <1>2, <3>1, <3>2
  <2>2. CASE ~(account.active /\ valid)
    <3>1. PICK r \in {Out, Wrong(browser[b])} : browser' = [browser EXCEPT ![b] = r]
      BY <1>0, <2>2 DEF EnterRecoveryCode
    <3>2. UNCHANGED account
      BY <2>2 DEF EnterRecoveryCode
    <3> QED
      BY <1>3, <2>0, <3>1, <3>2
  <2> QED
    BY <2>1, <2>2
<1>7. CASE Expire(b)
  BY <1>3, <1>7 DEF Expire
<1>8. CASE ForgotPassword(b)
  <2>1. account'.role = account.role
    BY <1>0, <1>8 DEF ForgotPassword, AccountRow
  <2> QED
    BY <1>8, <2>1 DEF ForgotPassword, PageInv
<1>9. CASE ResetPassword(b)
  <2>1. account'.role = account.role
    BY <1>0, <1>9 DEF ResetPassword, AccountRow
  <2> QED
    BY <1>9, <2>1, AllOverIsRight DEF ResetPassword
<1> QED
  BY <1>4, <1>5, <1>6, <1>7, <1>8, <1>9 DEF SigningIn

LEMMA InSessionIsRight ==
    ASSUME AInv, PageInv, NEW b \in Browsers, InSession(b)
    PROVE  PageInv'
<1>0. /\ BrowserRow(browser[b]) /\ browser = [c \in Browsers |-> browser[c]] /\ AccountRow(account)
      /\ account.role \in Roles /\ Right(browser[b], account.role)
  BY DEF AInv, PageInv
<1>1. ASSUME NEW r, Right(r, account.role), account'.role = account.role,
             browser' = [browser EXCEPT ![b] = r] \/ browser' = OnlySession(b, r)
      PROVE  PageInv'
  <2>1. browser'[b] = r /\ \A c \in Browsers \ {b} : browser'[c] \in {browser[c], SessionEnded(browser[c])}
    BY <1>0, <1>1 DEF OnlySession, SessionEnded
  <2> QED
    BY <1>1, <2>1, PagesStayRight
<1>2. ASSUME ~Guest(b), NEW page, At(page, account.role)
      PROVE  LET p == Showing(Through(b), page) IN BrowserRow(p) /\ Right(p, account.role)
  <2>1. BrowserRow(Through(b))
    BY <1>2, ThroughKeeps DEF AInv
  <2> QED
    BY <1>2, <2>1, ShowingKeeps, ShownIsRight
<1>3. At("mfa", account.role) /\ At("sessions", account.role) /\ At("denied", account.role)
  BY <1>0, OwnPagesAreRight
<1>4. CASE TurnAway(b)
  <2>1. CASE Guest(b)
    BY <1>0, <1>1, <1>4, <2>1, OutIs, EndedIsRight DEF TurnAway
  <2>2. CASE ~Guest(b)
    BY <1>4, <2>2, SignOutIsRight DEF TurnAway
  <2> QED
    BY <2>1, <2>2
<1>5. CASE logout(b)
  BY <1>5, SignOutIsRight DEF logout
<1>6. CASE Follow(b)
  <2>1. ~Guest(b) /\ UNCHANGED account
    BY <1>6 DEF Follow, LetThrough
  <2>2. PICK link \in Links(browser[b].at, browser[b].as) :
           browser' = [browser EXCEPT ![b] =
              Showing(Through(b), IF Opens(link, account.role) THEN Landing(link, account.role) ELSE "denied")]
    BY <1>6 DEF Follow
  <2> DEFINE page == IF Opens(link, account.role) THEN Landing(link, account.role) ELSE "denied"
             p == Showing(Through(b), page)
  <2>3. At(page, account.role)
    BY <1>0, <1>3, <2>2, LinksAreSited, OpenedIsAt DEF Right
  <2>4. Right(p, account.role)
    BY <1>2, <2>1, <2>3
  <2> HIDE DEF p
  <2> QED
    BY <1>1, <2>1, <2>2, <2>4 DEF p
<1>7. CASE enable(b)
  <2> DEFINE p == Showing(Through(b), "mfa")
             r == [p EXCEPT !.pending = made + 1, !.setup = TRUE]
  <2>1. BrowserRow(p) /\ Right(p, account.role)
    BY <1>2, <1>3, <1>7 DEF enable, AtMfa, LetThrough
  <2>2. Right(r, account.role)
    <3> HIDE DEF p
    <3>1. r.session = p.session /\ r.at = p.at /\ r.as = p.as
      BY <2>1 DEF BrowserRow, BrowserFields
    <3> HIDE DEF r
    <3> QED
      BY <2>1, <3>1, StaysRight
  <2>3. browser' = [browser EXCEPT ![b] = r] /\ UNCHANGED account
    BY <1>7 DEF enable
  <2> HIDE DEF r
  <2> QED
    BY <1>1, <2>2, <2>3
<1>8. CASE \E right \in BOOLEAN : confirm(b, right)
  <2> PICK right \in BOOLEAN : confirm(b, right)
    BY <1>8
  <2> DEFINE p == Showing(Through(b), "mfa")
             r == [p EXCEPT !.pending = 0, !.enabled = TRUE]
  <2>1. BrowserRow(p) /\ Right(p, account.role)
    BY <1>2, <1>3 DEF confirm, AtMfa, LetThrough
  <2>2. Right(r, account.role)
    <3> HIDE DEF p
    <3>1. r.session = p.session /\ r.at = p.at /\ r.as = p.as
      BY <2>1 DEF BrowserRow, BrowserFields
    <3> HIDE DEF r
    <3> QED
      BY <2>1, <3>1, StaysRight
  <2>3. CASE right /\ Through(b).pending # 0
    <3>1. browser' = OnlySession(b, r)
      BY <2>3 DEF confirm
    <3>2. account'.role = account.role
      BY <1>0, <2>3 DEF confirm, AccountRow
    <3> HIDE DEF r
    <3> QED
      BY <1>1, <2>2, <3>1, <3>2
  <2>4. CASE ~(right /\ Through(b).pending # 0)
    <3>1. browser' = [browser EXCEPT ![b] = p] /\ UNCHANGED account
      BY <2>4 DEF confirm
    <3> HIDE DEF p
    <3> QED
      BY <1>1, <2>1, <3>1
  <2> QED
    BY <2>3, <2>4
<1>9. CASE disable(b)
  <2>0. ~Guest(b)
    BY <1>9 DEF disable, AtMfa, LetThrough
  <2>1. CASE Privileged(account.role)
    <3> DEFINE p == Showing(Through(b), "denied")
    <3>1. Right(p, account.role)
      BY <1>2, <1>3, <2>0
    <3>2. browser' = [browser EXCEPT ![b] = p] /\ UNCHANGED account
      BY <1>9, <2>1 DEF disable
    <3> HIDE DEF p
    <3> QED
      BY <1>1, <3>1, <3>2
  <2>2. CASE ~Privileged(account.role)
    <3> DEFINE p == Showing(Through(b), "mfa")
               r == [p EXCEPT !.enabled = FALSE]
    <3>1. BrowserRow(p) /\ Right(p, account.role)
      BY <1>2, <1>3, <2>0
    <3>2. Right(r, account.role)
      <4> HIDE DEF p
      <4>1. r.session = p.session /\ r.at = p.at /\ r.as = p.as
        BY <3>1 DEF BrowserRow, BrowserFields
      <4> HIDE DEF r
      <4> QED
        BY <3>1, <4>1, StaysRight
    <3>3. browser' = OnlySession(b, r)
      BY <1>9, <2>2 DEF disable
    <3>4. account'.role = account.role
      BY <1>0, <1>9, <2>2 DEF disable, AccountRow
    <3> HIDE DEF r
    <3> QED
      BY <1>1, <3>2, <3>3, <3>4
  <2> QED
    BY <2>1, <2>2
<1>10. CASE regenerateRecoveryCodes(b)
  <2> DEFINE p == Showing(Through(b), "mfa")
  <2>1. Right(p, account.role)
    BY <1>2, <1>3, <1>10 DEF regenerateRecoveryCodes, AtMfa, LetThrough
  <2>2. browser' = OnlySession(b, p)
    BY <1>10 DEF regenerateRecoveryCodes
  <2>3. account'.role = account.role
    BY <1>0, <1>10 DEF regenerateRecoveryCodes, AccountRow
  <2> HIDE DEF p
  <2> QED
    BY <1>1, <2>1, <2>2, <2>3
<1>11. CASE \E other \in Browsers : revokeSession(b, other)
  <2> PICK other \in Browsers : revokeSession(b, other)
    BY <1>11
  <2>0. ~Guest(b) /\ other # b /\ UNCHANGED account
    BY DEF revokeSession, AtSessions, LetThrough
  <2>1. CASE ~browser[other].session
    <3> DEFINE p == Showing(Through(b), "denied")
    <3>1. Right(p, account.role)
      BY <1>2, <1>3, <2>0
    <3>2. browser' = [browser EXCEPT ![b] = p]
      BY <2>1 DEF revokeSession
    <3> HIDE DEF p
    <3> QED
      BY <1>1, <2>0, <3>1, <3>2
  <2>2. CASE browser[other].session
    <3> DEFINE p == Showing(Through(b), "sessions")
    <3>1. Right(p, account.role)
      BY <1>2, <1>3, <2>0
    <3>2. browser' = [browser EXCEPT ![b] = p, ![other].session = FALSE]
      BY <2>2 DEF revokeSession
    <3> HIDE DEF p
    <3>3. browser'[b] = p /\ \A c \in Browsers \ {b} : browser'[c] \in {browser[c], SessionEnded(browser[c])}
      BY <1>0, <2>0, <3>2 DEF SessionEnded
    <3> QED
      BY <2>0, <3>1, <3>3, PagesStayRight
  <2> QED
    BY <2>1, <2>2
<1>12. CASE revokeOthers(b)
  <2> DEFINE p == Showing(Through(b), "sessions")
  <2>1. Right(p, account.role)
    BY <1>2, <1>3, <1>12 DEF revokeOthers, AtSessions, LetThrough
  <2>2. browser' = OnlySession(b, p) /\ UNCHANGED account
    BY <1>12 DEF revokeOthers
  <2> HIDE DEF p
  <2> QED
    BY <1>1, <2>1, <2>2
<1>13. CASE revokeAll(b)
  BY <1>13, AllOverIsRight DEF revokeAll
<1> QED
  BY <1>4, <1>5, <1>6, <1>7, <1>8, <1>9, <1>10, <1>11, <1>12, <1>13 DEF InSession

\* A new role ends the sessions whose pages show the links of the old one.
LEMMA OthersLeaveRight ==
    ASSUME AInv, PageInv, (\E role \in MayHold[user] : assignRole(role)) \/ changeStatus
    PROVE  PageInv'
<1>0. AccountRow(account) /\ \A c \in Browsers : BrowserRow(browser[c])
  BY DEF AInv
<1>1. CASE \E role \in MayHold[user] : assignRole(role)
  <2> PICK role \in MayHold[user] : assignRole(role)
    BY <1>1
  <2>1. account'.role \in Roles
    BY <1>0, AccessAssumption DEF assignRole, AccountRow, AInv
  <2>2. \A c \in Browsers : browser'[c] = SessionEnded(browser[c])
    BY DEF assignRole, EndSessions, SessionEnded
  <2> QED
    BY <1>0, <2>1, <2>2, EndedIsRight DEF PageInv
<1>2. CASE changeStatus
  <2>1. account'.role = account.role
    BY <1>0, <1>2 DEF changeStatus, AccountRow
  <2>2. CASE EndSessions
    <3>1. \A c \in Browsers : browser'[c] = SessionEnded(browser[c])
      BY <2>2 DEF EndSessions, SessionEnded
    <3> QED
      BY <1>0, <2>1, <3>1, EndedIsRight DEF PageInv
  <2>3. CASE UNCHANGED browser
    BY <2>1, <2>3 DEF PageInv
  <2> QED
    BY <1>2, <2>2, <2>3 DEF changeStatus
<1> QED
  BY <1>1, <1>2

--------------------------------------------------------------------------------
\* The theorems

\* Whoever has a session or a cookie gave the password since it was last replaced or all
\* sessions ended, or was being challenged then; and a privileged session has a second factor
\* or was remembered (the sign-in, MFA and session controllers together).
THEOREM AccessIsSound == Spec => []AInv
<1>1. AInv /\ [Next]_vars => AInv'
  <2> SUFFICES ASSUME AInv, [Next]_vars PROVE AInv'
    OBVIOUS
  <2>1. CASE UNCHANGED vars
    BY <2>1 DEF vars, AInv, AccountRow, BrowserRow, Recent, Strong
  <2>2. CASE \E b \in Uses[user] : SigningIn(b) \/ InSession(b)
    <3>1. Uses[user] \subseteq Browsers
      BY AccessAssumption DEF AInv
    <3>2. UNCHANGED user
      BY <2>2 DEF Next, vars
    <3> QED
      BY <2>2, <3>1, <3>2, SigningInKeeps, InSessionKeeps
  <2> QED
    BY <2>1, <2>2, OthersKeep DEF Next
<1> QED
  BY <1>1, InitHolds, PTL DEF Spec

\* Whatever is done in which browsers, no session survives the replacement of the password
\* or the end of all sessions, nor comes back by a cookie.  Only where the old password had
\* been given and the second factor was still asked for does it let anybody in
\* (NewPasswordController::store, SessionManagementController::destroyAll,
\* MfaChallengeController::store).
THEOREM OldSignInsEnd == Spec => []OldSignInsAreOver
<1>1. AInv => OldSignInsAreOver
  BY DEF AInv, Recent, OldSignInsAreOver, Guest
<1> QED
  BY <1>1, AccessIsSound, PTL

\* No sequence of enrolments, changes of the role and of switching the second factor off lets
\* a privileged user be signed in by his password alone (MfaPolicy,
\* TwoFactorAuthenticationController, RoleAssignmentService).
THEOREM PrivilegedSignInsAreStrong == Spec => []PrivilegedHasMfa
<1>1. AInv => PrivilegedHasMfa
  BY DEF AInv, Strong, PrivilegedHasMfa, hasMfaEnabled
<1> QED
  BY <1>1, AccessIsSound, PTL

\* Whoever is signed in looks at a page made for the role that he has now, which opens for that
\* role and which some page links to: a page made for another role is gone with the session,
\* and made anew when a cookie brings the session back (RoleAssignmentService).
THEOREM PagesAreForTheirRole == Spec => []PageInv
<1>1. Init => PageInv
  <2>1. Out.at \notin OwnReturns /\ ~Out.session
    BY DEF Out, OwnReturns
  <2> QED
    BY <2>1, AccessAssumption DEF Init, PageInv, Right
<1>2. AInv /\ PageInv /\ [Next]_vars => PageInv'
  <2> SUFFICES ASSUME AInv, PageInv, [Next]_vars PROVE PageInv'
    OBVIOUS
  <2>1. CASE UNCHANGED vars
    BY <2>1 DEF vars, PageInv
  <2>2. CASE \E b \in Uses[user] : SigningIn(b) \/ InSession(b)
    <3>1. Uses[user] \subseteq Browsers
      BY AccessAssumption DEF AInv
    <3> QED
      BY <2>2, <3>1, SigningInIsRight, InSessionIsRight
  <2> QED
    BY <2>1, <2>2, OthersLeaveRight DEF Next
<1> QED
  BY <1>1, <1>2, AccessIsSound, PTL DEF Spec

\* No link that a page shows in a session is refused, however long the page has been open, but
\* for the dead ends (the routes' permissions, the controllers' roles, the pages' conditions).
THEOREM NoOtherDeadEnds == Spec => []LinksOpen
<1>1. PageInv => LinksOpen
  BY LinksLead DEF PageInv, Right, Leads, LinksOpen
<1> QED
  BY <1>1, PagesAreForTheirRole, PTL
================================================================================

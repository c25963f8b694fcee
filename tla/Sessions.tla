------------------------------ MODULE Sessions ------------------------------
(***************************************************************************)
(* The sign-in of one user (auth.controller.ts and the services of         *)
(* auth/): registration, mailed links, passwords, two-factor codes, Google *)
(* sign-in, and the refresh and access tokens they issue.                  *)
(*                                                                         *)
(* A request is a process; it takes one action per call of the database or *)
(* of Redis that another request can come in front of. Tokens, links,      *)
(* recovery codes and OAuth states are numbered as they are issued. An     *)
(* expired token, link or code is one that nobody presents any more.       *)
(***************************************************************************)
EXTENDS Naturals, FiniteSets

CONSTANTS
  Requests,       \* requests in progress at the same time
  MaxRequests,    \* bound: requests in all
  Passwords,      \* what the user types; 0 is the random one of a Google account
  MaxSessions,    \* bound: token pairs issued
  MaxLinks,       \* bound: links mailed, of each kind
  MaxSecrets,     \* bound: TOTP secrets generated
  MaxCodes,       \* bound: recovery codes generated
  CodeCount,      \* RECOVERY_CODE_COUNT
  MaxStates,      \* bound: Google sign-ins begun
  MaxFailures     \* bound: requests cut short

ASSUME RequestsAssumption == IsFiniteSet(Requests)
ASSUME PasswordsAssumption == Passwords \subseteq Nat \ {0}
ASSUME SessionBoundsAssumption ==
  /\ MaxRequests \in Nat /\ MaxSessions \in Nat \ {0} /\ MaxLinks \in Nat \ {0}
  /\ MaxSecrets \in Nat \ {0} /\ MaxCodes \in Nat /\ MaxStates \in Nat
  /\ CodeCount \in Nat \ {0} /\ CodeCount <= MaxCodes /\ MaxFailures \in Nat
ASSUME FirstPasswordAssumption == 1 \in Passwords

VARIABLES
  account,      \* the User row
  session,      \* its token pairs: the RefreshToken rows
  denied,       \* access tokens in the denylist, by pair
  challenges,   \* login tokens handed out for the second factor
  link,         \* the mailed links and their nonces, per kind
  states,       \* oauth-state:<n> keys of Google sign-ins
  request,      \* the requests in progress
  drawn,        \* how many secrets, codes and states have been generated
  started,      \* bound: requests so far
  failures,     \* bound: requests cut short so far
  torn,         \* history: a revocation was due and its request was cut short
  used, twice,  \* history: what has been used once, and more than once
  excused       \* history: what overlapping or interrupted requests presented

history == <<torn, used, twice, excused>>
vars == <<account, session, denied, challenges, link, states, request, drawn,
          started, failures, torn, used, twice, excused>>

SessionIds == 1..MaxSessions
Links == 1..MaxLinks
Codes == 1..MaxCodes
LinkKinds == {"verify", "reset"}

Accounts == [exists : BOOLEAN, verified : BOOLEAN, password : Passwords \cup {0},
             enabled : BOOLEAN, secret : 0..MaxSecrets, sealed : BOOLEAN,
             codes : SUBSET Codes, google : BOOLEAN]
Nobody == [exists |-> FALSE, verified |-> FALSE, password |-> 0, enabled |-> FALSE,
           secret |-> 0, sealed |-> FALSE, codes |-> {}, google |-> FALSE]

(* History: what a session rests on, the password as it was and a second   *)
(* factor or none; late, when sessions were revoked while it was on its way. *)
Proofs == [password : Passwords \cup {0}, second : BOOLEAN, late : BOOLEAN]
NoProof == [password |-> 0, second |-> FALSE, late |-> FALSE]
Password(row) == [NoProof EXCEPT !.password = row.password]

SessionStates == {"none", "live", "revoked"}
Ops == {"register", "resend", "verify", "login", "two-factor", "recovery", "refresh",
        "logout", "setup", "enable", "disable", "forgot", "reset", "google"}
Steps == {"idle", "guard", "read", "create", "nonce", "mail", "denied", "compare", "write",
          "seal", "spend", "rotate", "issue", "deny", "revoke", "forget", "consume", "find", "link"}

(* arg: the token, link, code or state presented, or the password typed.   *)
(* choice: the second input, or what the request read and will write back. *)
RequestRecord == [op : Ops, step : Steps, arg : Nat, choice : Nat, proof : Proofs,
                  codes : SUBSET Codes]
Idle == [op |-> "login", step |-> "idle", arg |-> 0, choice |-> 0, proof |-> NoProof, codes |-> {}]

LinkRecord == [nonce : 0..MaxLinks, drawn : 0..MaxLinks, mailed : SUBSET Links, spent : SUBSET Links]
NoLinks == [nonce |-> 0, drawn |-> 0, mailed |-> {}, spent |-> {}]

(* What the code means to work once. *)
Things == {"verify", "reset", "recovery", "refresh", "google"} \X Nat

TypeOK ==
  /\ account \in Accounts
  /\ session \in [SessionIds -> [state : SessionStates, proof : Proofs]]
  /\ denied \subseteq SessionIds
  /\ challenges \subseteq Proofs
  /\ link \in [LinkKinds -> LinkRecord]
  /\ states \subseteq 1..MaxStates
  /\ request \in [Requests -> RequestRecord]
  /\ drawn \in [secret : 0..MaxSecrets, code : 0..MaxCodes, state : 0..MaxStates]
  /\ started \in 0..MaxRequests /\ failures \in 0..MaxFailures
  /\ torn \in BOOLEAN
  /\ used \subseteq Things /\ twice \subseteq Things /\ excused \subseteq Things
  /\ ~account.exists => \A k \in LinkKinds : link[k].mailed = {}

(* Nobody yet, or a user with one session, a reset link in the mailbox and *)
(* a TOTP secret, old (plain) or new (sealed), enabled or only set up.     *)
SomeUser(enabled, sealed) ==
  [exists |-> TRUE, verified |-> TRUE, password |-> 1, enabled |-> enabled, secret |-> 1,
   sealed |-> sealed, codes |-> IF enabled THEN 1..CodeCount ELSE {}, google |-> FALSE]

Init ==
  /\ \/ account = Nobody
     \/ \E enabled, sealed \in BOOLEAN : account = SomeUser(enabled, sealed)
  /\ session = [t \in SessionIds |->
       IF account.exists /\ t = 1
         THEN [state |-> "live", proof |-> [password |-> 1, second |-> account.enabled, late |-> FALSE]]
         ELSE [state |-> "none", proof |-> NoProof]]
  /\ link = [k \in LinkKinds |->
       IF account.exists /\ k = "reset"
         THEN [nonce |-> 1, drawn |-> 1, mailed |-> {1}, spent |-> {}] ELSE NoLinks]
  /\ drawn = [secret |-> account.secret, state |-> 0,
              code |-> IF account.enabled THEN CodeCount ELSE 0]
  /\ request = [q \in Requests |-> Idle]
  /\ challenges = IF account.enabled THEN {Password(account)} ELSE {}
  /\ denied = {} /\ states = {}
  /\ started = 0 /\ failures = 0
  /\ torn = FALSE /\ used = {} /\ twice = {} /\ excused = {}

-----------------------------------------------------------------------------
(* Requests                                                                *)

Idling(q) == request[q].step = "idle"
AtStep(q, op, step) == request[q].op = op /\ request[q].step = step

Goto(q, step) == request' = [request EXCEPT ![q].step = step]
Done(q) == request' = [request EXCEPT ![q] = Idle]

(* What the actions of each part leave alone. *)
NoFailure == UNCHANGED <<started, failures>>
NoUse == UNCHANGED <<used, twice, excused>>
RedisOnly == UNCHANGED <<account, session, challenges, drawn, torn>> /\ NoFailure
AccountOnly == UNCHANGED <<session, denied, challenges, link, states, torn>> /\ NoFailure
SessionOnly == UNCHANGED <<account, denied, challenges, link, states, drawn>> /\ NoFailure
RequestOnly == UNCHANGED <<account, session, denied, challenges, link, states, drawn, torn>>
               /\ NoFailure /\ NoUse

(* Protected routes take an access token (JwtAuthGuard), and begin there.  *)
Protected == {"logout", "setup", "enable", "disable"}
Issued == {t \in SessionIds : session[t].state # "none"}

FirstStep(op) ==
  IF op \in Protected THEN "guard"
  ELSE IF op \in {"verify", "reset"} THEN "denied"
  ELSE IF op = "google" THEN "consume" ELSE "read"

Begin(q, op, arg, choice, proof) ==
  /\ Idling(q) /\ started < MaxRequests
  /\ request' = [request EXCEPT ![q] = [op |-> op, step |-> FirstStep(op), arg |-> arg,
                                        choice |-> choice, proof |-> proof, codes |-> {}]]
  /\ started' = started + 1
  /\ UNCHANGED <<account, session, denied, challenges, link, states, drawn, failures>>
  /\ UNCHANGED history

(* The routes (auth.controller.ts). A caller presents a token, link, code  *)
(* or state it was given, a password, or a TOTP code: that of a secret, or *)
(* 0 for a wrong one.                                                      *)
Send(q, op, arg, choice) == Begin(q, op, arg, choice, NoProof)
TotpCodes == 0..drawn.secret

SendRegister(q) == \E p \in Passwords : Send(q, "register", p, 0)
SendVerify(q) == \E n \in link["verify"].mailed : Send(q, "verify", n, 0)
SendResend(q) == Send(q, "resend", 0, 0)
SendLogin(q) == \E p \in Passwords : Send(q, "login", p, 0)
SendTwoFactor(q) == \E p \in challenges, s \in TotpCodes : Begin(q, "two-factor", 0, s, p)
SendRecovery(q) == \E p \in challenges, c \in 1..drawn.code : Begin(q, "recovery", c, 0, p)
SendRefresh(q) == \E t \in Issued : Send(q, "refresh", t, 0)
SendLogout(q) == \E t \in Issued : Send(q, "logout", t, 0)
SendSetup(q) == \E t \in Issued : Send(q, "setup", t, 0)
SendEnable(q) == \E t \in Issued, s \in TotpCodes : Send(q, "enable", t, s)
SendDisable(q) == \E t \in Issued, s \in TotpCodes : Send(q, "disable", t, s)
SendForgot(q) == Send(q, "forgot", 0, 0)
SendReset(q) == \E n \in link["reset"].mailed, p \in Passwords : Send(q, "reset", n, p)
SendGoogle(q) == \E n \in 1..drawn.state, verified \in 0..1 : Send(q, "google", n, verified)

SendRequest(q) ==
  \/ SendRegister(q) \/ SendVerify(q) \/ SendResend(q) \/ SendLogin(q)
  \/ SendTwoFactor(q) \/ SendRecovery(q) \/ SendRefresh(q) \/ SendLogout(q)
  \/ SendSetup(q) \/ SendEnable(q) \/ SendDisable(q)
  \/ SendForgot(q) \/ SendReset(q) \/ SendGoogle(q)

(* canActivate: the access token of the pair is not in the denylist. *)
Authenticate(q) ==
  /\ request[q].step = "guard"
  /\ \/ request[q].arg \in denied /\ Done(q)
     \/ request[q].arg \notin denied
        /\ Goto(q, IF request[q].op = "logout" THEN "deny" ELSE "read")
  /\ RequestOnly

(* Requests that are using what q presents: a second copy of it, or, for   *)
(* the recovery codes, any of them, as the whole list is written back.     *)
InUse(r) == \/ request[r].step \in {"compare", "write", "spend", "rotate", "revoke", "forget", "deny"}
            \/ request[r].op \in {"verify", "reset"} /\ request[r].step = "read"
Rivals(q) ==
  {r \in Requests \ {q} : /\ request[r].op = request[q].op /\ InUse(r)
                          /\ request[r].op = "recovery" \/ request[r].arg = request[q].arg}
Presented(r) == <<request[r].op, request[r].arg>>

(* History: q has found what it presents to be good. *)
Found(q) ==
  /\ excused' = IF Rivals(q) = {} THEN excused
                ELSE excused \cup {Presented(r) : r \in Rivals(q) \cup {q}}
  /\ UNCHANGED <<used, twice>>

(* History: q uses up what it presents. *)
Use(q) ==
  /\ used' = used \cup {Presented(q)}
  /\ twice' = twice \cup (used \cap {Presented(q)})
  /\ UNCHANGED excused

-----------------------------------------------------------------------------
(* Registration and mailed links (auth.service.ts, password.service.ts)    *)

ReadUnregistered(q) ==
  /\ AtStep(q, "register", "read")
  /\ IF account.exists THEN Done(q) ELSE Goto(q, "create")
  /\ RequestOnly

(* The email is unique: the slower of two registrations is refused. *)
CreateUser(q) ==
  /\ AtStep(q, "register", "create")
  /\ IF account.exists THEN Done(q) /\ UNCHANGED account
     ELSE /\ account' = [Nobody EXCEPT !.exists = TRUE, !.password = request[q].arg]
          /\ Goto(q, "nonce")
  /\ UNCHANGED drawn /\ AccountOnly /\ NoUse

(* A link is mailed to a user, for verification to one not yet verified. *)
ReadAddressee_Anyone(q) ==
  /\ request[q].op \in {"resend", "forgot"} /\ request[q].step = "read"
  /\ Goto(q, "nonce")
  /\ RequestOnly

ReadAddressee(q) ==
  /\ request[q].op \in {"resend", "forgot"} /\ request[q].step = "read"
  /\ IF account.exists /\ (request[q].op = "forgot" \/ ~account.verified)
       THEN Goto(q, "nonce") ELSE Done(q)
  /\ RequestOnly

Kind(q) == IF request[q].op \in {"forgot", "reset"} THEN "reset" ELSE "verify"

(* The stored nonce replaces that of any earlier link. *)
StoreNonce(q) ==
  /\ request[q].step = "nonce"
  /\ link[Kind(q)].drawn < MaxLinks
  /\ LET n == link[Kind(q)].drawn + 1 IN
     /\ link' = [link EXCEPT ![Kind(q)].drawn = n, ![Kind(q)].nonce = n]
     /\ request' = [request EXCEPT ![q].step = "mail", ![q].arg = n]
  /\ UNCHANGED <<denied, states>> /\ RedisOnly /\ NoUse

(* The mail server takes the link, or its error is only logged. *)
SendMail(q) ==
  /\ request[q].step = "mail"
  /\ link' = [link EXCEPT ![Kind(q)].mailed = @ \cup {request[q].arg}]
  /\ Done(q)
  /\ UNCHANGED <<denied, states>> /\ RedisOnly /\ NoUse
MailLost(q) == request[q].step = "mail" /\ Done(q) /\ RequestOnly

(* resolveEmailVerificationToken, resolvePasswordResetToken: the link is   *)
(* not in the denylist, and its nonce is the one stored.                   *)
CheckSpent(q) ==
  /\ request[q].step = "denied"
  /\ IF request[q].arg \in link[Kind(q)].spent THEN Done(q) ELSE Goto(q, "compare")
  /\ RequestOnly

CompareNonce(q) ==
  /\ request[q].step = "compare"
  /\ IF link[Kind(q)].nonce # request[q].arg THEN Done(q) /\ NoUse
     ELSE Goto(q, "read") /\ Found(q)
  /\ UNCHANGED <<denied, link, states>> /\ RedisOnly

(* A verified email is not verified again; a new password must differ.     *)
ReadLinkOwner(q) ==
  /\ request[q].op \in {"verify", "reset"} /\ request[q].step = "read"
  /\ \/ request[q].op = "verify" /\ account.verified /\ Done(q)
     \/ request[q].op = "reset" /\ request[q].choice = account.password /\ Done(q)
     \/ request[q].op = "verify" /\ ~account.verified /\ Goto(q, "write")
     \/ request[q].op = "reset" /\ request[q].choice # account.password /\ Goto(q, "write")
  /\ RequestOnly

WriteVerified(q) ==
  /\ AtStep(q, "verify", "write")
  /\ account' = [account EXCEPT !.verified = TRUE]
  /\ Goto(q, "deny") /\ Use(q)
  /\ UNCHANGED drawn /\ AccountOnly

WritePassword_KeepSessions(q) ==
  /\ AtStep(q, "reset", "write")
  /\ account' = [account EXCEPT !.password = request[q].choice]
  /\ Goto(q, "forget") /\ Use(q)
  /\ UNCHANGED drawn /\ AccountOnly

WritePassword(q) ==
  /\ AtStep(q, "reset", "write")
  /\ account' = [account EXCEPT !.password = request[q].choice]
  /\ Goto(q, "revoke") /\ Use(q)
  /\ UNCHANGED drawn /\ AccountOnly

(* redis.del removes whichever nonce is stored, be it that of a newer link. *)
ForgetNonce(q) ==
  /\ request[q].step = "forget"
  /\ link' = [link EXCEPT ![Kind(q)].nonce = 0]
  /\ IF request[q].op = "reset" THEN Goto(q, "deny") ELSE Done(q)
  /\ UNCHANGED <<denied, states>> /\ RedisOnly /\ NoUse

(* revokeToken: the link, or the access token of a logout, is denied.      *)
DenyLink(q) ==
  /\ request[q].op \in {"verify", "reset"} /\ request[q].step = "deny"
  /\ link' = [link EXCEPT ![Kind(q)].spent = @ \cup {request[q].arg}]
  /\ IF request[q].op = "verify" THEN Goto(q, "forget") ELSE Done(q)
  /\ UNCHANGED <<denied, states>> /\ RedisOnly /\ NoUse

-----------------------------------------------------------------------------
(* Sign-in (auth.service.ts, token.service.ts)                             *)

(* A user with a second factor gets a login token, any other a session.    *)
Admit(q, row, proof) ==
  IF row.enabled THEN challenges' = challenges \cup {proof} /\ Done(q)
  ELSE /\ request' = [request EXCEPT ![q].step = "issue", ![q].proof = proof]
       /\ UNCHANGED challenges

Login(q) ==
  /\ AtStep(q, "login", "read")
  /\ IF account.exists /\ account.password = request[q].arg /\ account.verified
       THEN Admit(q, account, Password(account))
       ELSE Done(q) /\ UNCHANGED challenges
  /\ UNCHANGED <<account, session, denied, link, states, drawn, torn>> /\ NoFailure /\ NoUse

(* issueTokens: the new pair is stored, whatever has changed meanwhile. *)
IssueTokens(q) ==
  /\ request[q].step = "issue"
  /\ \E t \in SessionIds \ Issued :
       /\ \A u \in SessionIds \ Issued : t <= u
       /\ session' = [session EXCEPT ![t] = [state |-> "live", proof |-> request[q].proof]]
  /\ Done(q)
  /\ UNCHANGED torn /\ SessionOnly /\ NoUse

(* refresh: a revoked token revokes them all; a live one is rotated.       *)
ReadSession_AnyRow(q) ==
  /\ AtStep(q, "refresh", "read")
  /\ request' = [request EXCEPT ![q].step = "rotate", ![q].proof = session[request[q].arg].proof]
  /\ Found(q)
  /\ UNCHANGED torn /\ UNCHANGED session /\ SessionOnly

ReadSession(q) ==
  /\ AtStep(q, "refresh", "read")
  /\ IF session[request[q].arg].state = "revoked" THEN Goto(q, "revoke") /\ NoUse
     ELSE /\ request' = [request EXCEPT ![q].step = "rotate",
                                        ![q].proof = session[request[q].arg].proof]
          /\ Found(q)
  /\ UNCHANGED <<session, torn>> /\ SessionOnly

Rotate(q) ==
  /\ AtStep(q, "refresh", "rotate")
  /\ session' = [session EXCEPT ![request[q].arg].state = "revoked"]
  /\ Goto(q, "issue") /\ Use(q)
  /\ UNCHANGED torn /\ SessionOnly

DenyAccess(q) ==
  /\ AtStep(q, "logout", "deny")
  /\ denied' = denied \cup {request[q].arg}
  /\ Goto(q, "revoke")
  /\ UNCHANGED <<link, states>> /\ RedisOnly /\ NoUse

(* revokeAllRefreshTokens: every live row. What is on its way is late.     *)
Late(proof) == [proof EXCEPT !.late = TRUE]
RevokeAll(q) ==
  /\ request[q].step = "revoke"
  /\ session' = [t \in SessionIds |->
       IF session[t].state = "live" THEN [session[t] EXCEPT !.state = "revoked"] ELSE session[t]]
  /\ challenges' = {Late(p) : p \in challenges}
  /\ request' = [r \in Requests |->
       IF r = q THEN IF request[q].op = "reset" THEN [request[q] EXCEPT !.step = "forget"] ELSE Idle
       ELSE IF Idling(r) THEN request[r]
       ELSE [request[r] EXCEPT !.proof = Late(@)]]
  /\ torn' = FALSE
  /\ UNCHANGED <<account, denied, link, states, drawn>> /\ NoFailure /\ NoUse

-----------------------------------------------------------------------------
(* Two-factor codes (two-factor.service.ts)                                *)

Second(proof) == [proof EXCEPT !.second = TRUE]

(* verifyTwoFactor; a secret stored in plain is first sealed.              *)
VerifyTwoFactor(q) ==
  /\ AtStep(q, "two-factor", "read")
  /\ IF account.enabled /\ account.secret # 0 /\ request[q].choice = account.secret
       THEN request' = [request EXCEPT ![q].step = IF account.sealed THEN "issue" ELSE "seal",
                                       ![q].proof = Second(@)]
       ELSE Done(q)
  /\ RequestOnly

SealSecret(q) ==
  /\ AtStep(q, "two-factor", "seal")
  /\ account' = [account EXCEPT !.secret = request[q].choice, !.sealed = TRUE]
  /\ Goto(q, "issue")
  /\ UNCHANGED drawn /\ AccountOnly /\ NoUse

(* verifyRecoveryCode: the list is read, and written back without the code. *)
ReadCodes(q) ==
  /\ AtStep(q, "recovery", "read")
  /\ IF account.enabled /\ request[q].arg \in account.codes
       THEN /\ request' = [request EXCEPT ![q].step = "spend", ![q].proof = Second(@),
                                          ![q].codes = account.codes \ {request[q].arg}]
            /\ Found(q)
       ELSE Done(q) /\ NoUse
  /\ UNCHANGED <<session, torn>> /\ SessionOnly

SpendCode(q) ==
  /\ AtStep(q, "recovery", "spend")
  /\ account' = [account EXCEPT !.codes = request[q].codes]
  /\ Goto(q, "issue") /\ Use(q)
  /\ UNCHANGED drawn /\ AccountOnly

(* setup, enable and disable read the user first. *)
ReadSetup(q) ==
  /\ AtStep(q, "setup", "read")
  /\ IF account.enabled THEN Done(q) ELSE Goto(q, "write")
  /\ RequestOnly

WriteSecret(q) ==
  /\ AtStep(q, "setup", "write")
  /\ drawn.secret < MaxSecrets
  /\ drawn' = [drawn EXCEPT !.secret = @ + 1]
  /\ account' = [account EXCEPT !.secret = drawn.secret + 1, !.sealed = TRUE]
  /\ Done(q)
  /\ AccountOnly /\ NoUse

ReadTwoFactor(q) ==
  /\ request[q].op \in {"enable", "disable"} /\ request[q].step = "read"
  /\ IF /\ account.enabled <=> request[q].op = "disable"
        /\ account.secret # 0 /\ request[q].choice = account.secret
       THEN Goto(q, IF account.sealed \/ request[q].op = "disable" THEN "write" ELSE "seal")
       ELSE Done(q)
  /\ RequestOnly

(* Fresh codes replace the old; a secret read in plain is sealed.          *)
WriteEnabled(q) ==
  /\ request[q].op = "enable" /\ request[q].step \in {"write", "seal"}
  /\ drawn.code + CodeCount <= MaxCodes
  /\ drawn' = [drawn EXCEPT !.code = @ + CodeCount]
  /\ LET enabled == [account EXCEPT !.enabled = TRUE,
                                     !.codes = drawn.code + 1 .. drawn.code + CodeCount] IN
     account' = IF request[q].step = "write" THEN enabled
                ELSE [enabled EXCEPT !.secret = request[q].choice, !.sealed = TRUE]
  /\ Goto(q, "revoke")
  /\ AccountOnly /\ NoUse

WriteDisabled(q) ==
  /\ AtStep(q, "disable", "write")
  /\ account' = [account EXCEPT !.enabled = FALSE, !.secret = 0, !.sealed = FALSE, !.codes = {}]
  /\ Goto(q, "revoke")
  /\ UNCHANGED drawn /\ AccountOnly /\ NoUse

-----------------------------------------------------------------------------
(* Google sign-in (oauth.service.ts)                                       *)

(* getGoogleOAuthUrl: the state of a consent page. *)
OpenConsent ==
  /\ drawn.state < MaxStates
  /\ drawn' = [drawn EXCEPT !.state = @ + 1]
  /\ states' = states \cup {drawn.state + 1}
  /\ UNCHANGED <<account, session, denied, challenges, link, request>>
  /\ UNCHANGED history /\ NoFailure

(* consumeOAuthState reads the state and deletes it by two calls. *)
GetState(q) ==
  /\ AtStep(q, "google", "consume")
  /\ request[q].arg \in states
  /\ Goto(q, "spend") /\ Found(q)
  /\ UNCHANGED <<session, torn>> /\ SessionOnly
StateUnknown(q) ==
  /\ AtStep(q, "google", "consume") /\ request[q].arg \notin states
  /\ Done(q) /\ RequestOnly

DeleteState(q) ==
  /\ AtStep(q, "google", "spend")
  /\ states' = states \ {request[q].arg}
  /\ Goto(q, "find") /\ Use(q)
  /\ UNCHANGED <<denied, link>> /\ RedisOnly

(* Google refuses the code, or has no profile for it. *)
GoogleRefuses(q) == AtStep(q, "google", "find") /\ Done(q) /\ RequestOnly

(* findOrCreateOAuthUser: by the Google id, then by email. The profile     *)
(* says whether its email is verified (choice), or the row did.            *)
FindGoogleUser(q) ==
  /\ AtStep(q, "google", "find")
  /\ IF account.google THEN Admit(q, account, Password(account))
     ELSE /\ request' = [request EXCEPT ![q].step = IF account.exists THEN "link" ELSE "create",
                                        ![q].choice = IF account.verified THEN 1 ELSE @]
          /\ UNCHANGED challenges
  /\ UNCHANGED <<account, session, denied, link, states, drawn, torn>> /\ NoFailure /\ NoUse

Linked(q, row) == [row EXCEPT !.google = TRUE, !.verified = request[q].choice = 1]
LinkGoogle(q) ==
  /\ AtStep(q, "google", "link")
  /\ account' = Linked(q, account)
  /\ Admit(q, account, Password(account))
  /\ UNCHANGED <<session, denied, link, states, drawn, torn>> /\ NoFailure /\ NoUse

(* Nobody types the random password of a user Google brings. *)
CreateGoogleUser(q) ==
  /\ AtStep(q, "google", "create")
  /\ IF account.exists THEN Done(q) /\ UNCHANGED account
     ELSE /\ account' = Linked(q, [Nobody EXCEPT !.exists = TRUE])
          /\ request' = [request EXCEPT ![q].step = "issue", ![q].proof = NoProof]
  /\ UNCHANGED drawn /\ AccountOnly /\ NoUse

-----------------------------------------------------------------------------
(* A request that has used its link and not yet made it useless. *)
Spending(r) == \/ r.op = "verify" /\ r.step \in {"deny", "forget"}
               \/ r.op = "reset" /\ r.step \in {"revoke", "forget"}

(* A call fails or the process stops: the request ends where it was. What  *)
(* it had not revoked or spent stays as it is.                             *)
Abort(q) ==
  /\ ~Idling(q) /\ failures < MaxFailures
  /\ failures' = failures + 1
  /\ torn' = (torn \/ (request[q].op \in {"reset", "enable"} /\ request[q].step = "revoke"))
  /\ excused' = IF Spending(request[q]) THEN excused \cup {Presented(q)} ELSE excused
  /\ Done(q)
  /\ UNCHANGED <<account, session, denied, challenges, link, states, drawn, started, used, twice>>

LinkStep(q) ==
  \/ ReadUnregistered(q) \/ CreateUser(q) \/ ReadAddressee(q) \/ StoreNonce(q)
  \/ SendMail(q) \/ MailLost(q) \/ CheckSpent(q) \/ CompareNonce(q) \/ ReadLinkOwner(q)
  \/ WriteVerified(q) \/ WritePassword(q) \/ ForgetNonce(q) \/ DenyLink(q)
SignInStep(q) ==
  \/ Login(q) \/ IssueTokens(q) \/ ReadSession(q) \/ Rotate(q) \/ DenyAccess(q) \/ RevokeAll(q)
TwoFactorStep(q) ==
  \/ VerifyTwoFactor(q) \/ SealSecret(q) \/ ReadCodes(q) \/ SpendCode(q) \/ ReadSetup(q)
  \/ WriteSecret(q) \/ ReadTwoFactor(q) \/ WriteEnabled(q) \/ WriteDisabled(q)
GoogleStep(q) ==
  \/ GetState(q) \/ StateUnknown(q) \/ DeleteState(q) \/ GoogleRefuses(q)
  \/ FindGoogleUser(q) \/ LinkGoogle(q) \/ CreateGoogleUser(q)

Next ==
  \/ OpenConsent
  \/ \E q \in Requests :
       \/ SendRequest(q) \/ Authenticate(q) \/ Abort(q)
       \/ LinkStep(q) \/ SignInStep(q) \/ TwoFactorStep(q) \/ GoogleStep(q)

Spec == Init /\ [][Next]_vars

-----------------------------------------------------------------------------
(* Properties                                                              *)

(* The current password, and the second factor when one is enabled.        *)
UpToDate(proof) ==
  proof.password = account.password /\ (account.enabled => proof.second)

RevocationDue ==
  torn \/ \E q \in Requests : request[q].op \in {"reset", "enable"} /\ request[q].step = "revoke"

(* A changed password and an enabled second factor end the sessions that   *)
(* were there before (password.service.ts, two-factor.service.ts): a live  *)
(* refresh token rests on the account as it is, unless a revocation is on  *)
(* its way or was cut short, or the sign-in was itself under way when the  *)
(* sessions were revoked.                                                  *)
SessionsAreEntitled ==
  \A t \in SessionIds : session[t].state = "live" =>
    session[t].proof.late \/ UpToDate(session[t].proof) \/ RevocationDue

(* A refresh token, a recovery code, a mailed link and an OAuth state work *)
(* once, unless two requests presented it at the same time or a request    *)
(* was cut short between the use of its link and its end.                  *)
WorksOnce == twice \subseteq excused

=============================================================================

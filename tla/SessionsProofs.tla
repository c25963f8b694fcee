--------------------------- MODULE SessionsProofs ---------------------------
(***************************************************************************)
(* Theorems about Sessions, for any number of requests, sessions, links,   *)
(* secrets, codes and failures.                                            *)
(***************************************************************************)
EXTENDS Sessions, TLAPS

-----------------------------------------------------------------------------
(* Types, and what they need to be inductive                               *)

(* What a request writes, or looks up, came in the form of its route. *)
InputOK(r) ==
  /\ r.op = "register" /\ r.step \in {"read", "create"} => r.arg \in Passwords
  /\ r.op \in {"verify", "reset"} => r.arg \in Links
  /\ r.op = "reset" => r.choice \in Passwords
  /\ r.op \in {"refresh", "logout"} => r.arg \in SessionIds
  /\ r.op \in {"two-factor", "enable"} => r.choice \in 0..MaxSecrets
  /\ r.step = "guard" => r.op \in Protected
  /\ r.step \in {"denied", "compare"} => r.op \in {"verify", "reset"}
  /\ r.step = "nonce" => r.op \in {"register", "resend", "forgot"}
  /\ r.step = "mail" => r.arg \in Links
Inputs == \A q \in Requests : InputOK(request[q])

(* Before there is a user, nobody has anything to present but a password. *)
Unregistered(r) ==
  /\ r.op \in {"register", "resend", "login", "google", "forgot"}
  /\ r.step \in {"idle", "read", "create", "consume", "spend", "find"}
NobodyYet ==
  ~account.exists =>
    /\ account = Nobody /\ challenges = {} /\ \A t \in SessionIds : session[t].state = "none"
    /\ \A q \in Requests : Unregistered(request[q])

BaseInv == TypeOK /\ Inputs /\ NobodyYet

(* The idle request is well typed. *)
LEMMA IdleType ==
  /\ NoProof \in Proofs /\ Idle \in RequestRecord /\ InputOK(Idle) /\ Unregistered(Idle)
  /\ Nobody \in Accounts
<1>1. NoProof \in Proofs
  BY DEF NoProof, Proofs
<1>2. Idle \in RequestRecord
  BY <1>1 DEF Idle, RequestRecord, Ops, Steps
<1>3. InputOK(Idle) /\ Unregistered(Idle)
  BY DEF Idle, InputOK, Unregistered
<1>4. Nobody \in Accounts
  BY SessionBoundsAssumption DEF Nobody, Accounts
<1> QED BY <1>1, <1>2, <1>3, <1>4

(* The fields of well-typed requests, sessions and accounts. *)
LEMMA Fields ==
  ASSUME TypeOK
  PROVE  /\ \A q \in Requests :
              /\ request[q] \in RequestRecord
              /\ request[q].op \in Ops /\ request[q].step \in Steps /\ request[q].arg \in Nat
              /\ request[q].choice \in Nat /\ request[q].proof \in Proofs
              /\ request[q].codes \subseteq Codes
         /\ \A t \in SessionIds : session[t].state \in SessionStates /\ session[t].proof \in Proofs
         /\ account.exists \in BOOLEAN /\ account.verified \in BOOLEAN
         /\ account.password \in Passwords \cup {0} /\ account.enabled \in BOOLEAN
         /\ account.secret \in 0..MaxSecrets /\ account.sealed \in BOOLEAN
         /\ account.codes \subseteq Codes /\ account.google \in BOOLEAN
BY DEF TypeOK, RequestRecord, Accounts

(* A request that changes to a well-typed record leaves the others alone. *)
LEMMA ChangeOK ==
  ASSUME TypeOK, Inputs, NEW q \in Requests, NEW new \in RequestRecord, InputOK(new),
         request' = [request EXCEPT ![q] = new]
  PROVE  /\ request' \in [Requests -> RequestRecord] /\ Inputs'
         /\ request'[q] = new /\ \A r \in Requests \ {q} : request'[r] = request[r]
<1>1. /\ request' \in [Requests -> RequestRecord] /\ request'[q] = new
      /\ \A r \in Requests \ {q} : request'[r] = request[r]
  BY DEF TypeOK
<1>2. InputOK(request[q]) /\ \A r \in Requests \ {q} : InputOK(request[r])
  BY DEF Inputs
<1>3. ASSUME NEW r \in Requests
      PROVE  InputOK(request[r])'
  <2>1. CASE r = q
    BY <1>1, <2>1 DEF InputOK
  <2>2. CASE r # q
    BY <1>1, <1>2, <2>2 DEF InputOK
  <2> QED BY <2>1, <2>2
<1> QED BY <1>1, <1>3 DEF Inputs

(* A request that moves on keeps its inputs. *)
LEMMA GotoOK ==
  ASSUME TypeOK, Inputs, NEW q \in Requests, NEW step \in Steps \ {"mail", "guard"}, Goto(q, step),
         request[q].op = "register" /\ step \in {"read", "create"} =>
           request[q].step \in {"read", "create"},
         step \in {"denied", "compare"} => request[q].step = "denied",
         step = "nonce" => request[q].op \in {"register", "resend", "forgot"}
  PROVE  /\ request' \in [Requests -> RequestRecord] /\ Inputs'
         /\ request'[q] = [request[q] EXCEPT !.step = step]
         /\ \A r \in Requests \ {q} : request'[r] = request[r]
<1> DEFINE new == [request[q] EXCEPT !.step = step]
<1>1. new \in RequestRecord
  BY Fields DEF RequestRecord
<1>2. InputOK(request[q]) /\ request[q] \in RequestRecord
  BY Fields DEF Inputs
<1>3. /\ new.op = request[q].op /\ new.step = step /\ new.arg = request[q].arg
      /\ new.choice = request[q].choice
  BY <1>2 DEF RequestRecord
<1>4. InputOK(new)
  BY <1>2, <1>3 DEF InputOK
<1>5. request' = [request EXCEPT ![q] = new]
  BY DEF Goto, TypeOK
<1> HIDE DEF new
<1>6. /\ request' \in [Requests -> RequestRecord] /\ Inputs'
      /\ request'[q] = new /\ \A r \in Requests \ {q} : request'[r] = request[r]
  BY <1>1, <1>4, <1>5, ChangeOK
<1> QED BY <1>6 DEF new

(* So does one that ends. *)
LEMMA DoneOK ==
  ASSUME TypeOK, Inputs, NEW q \in Requests, Done(q)
  PROVE  /\ request' \in [Requests -> RequestRecord] /\ Inputs' /\ request'[q] = Idle
         /\ \A r \in Requests \ {q} : request'[r] = request[r]
BY IdleType, ChangeOK DEF Done

(* Sending a request. *)
LEMMA BeginType ==
  ASSUME TypeOK, Inputs, NEW q \in Requests, NEW op \in Ops, NEW arg \in Nat, NEW choice \in Nat,
         NEW proof \in Proofs, Begin(q, op, arg, choice, proof),
         op = "register" => arg \in Passwords,
         op \in {"verify", "reset"} => arg \in Links,
         op = "reset" => choice \in Passwords,
         op \in {"refresh", "logout"} => arg \in SessionIds,
         op \in {"two-factor", "enable"} => choice \in 0..MaxSecrets
  PROVE  TypeOK' /\ Inputs'
<1> DEFINE new == [op |-> op, step |-> FirstStep(op), arg |-> arg, choice |-> choice,
                   proof |-> proof, codes |-> {}]
<1>1. FirstStep(op) \in Steps /\ FirstStep(op) \notin {"nonce", "mail"}
  BY DEF FirstStep, Steps
<1>2. new \in RequestRecord
  BY <1>1 DEF RequestRecord
<1>3. InputOK(new)
  BY <1>1 DEF InputOK, FirstStep, Protected
<1>4. request' = [request EXCEPT ![q] = new]
  BY DEF Begin
<1> HIDE DEF new
<1>5. request' \in [Requests -> RequestRecord] /\ Inputs'
  BY <1>2, <1>3, <1>4, ChangeOK
<1>6. started' \in 0..MaxRequests
  <2>1. started' = started + 1 /\ started < MaxRequests
    BY DEF Begin
  <2>2. started \in 0..MaxRequests
    BY DEF TypeOK
  <2> QED BY <2>1, <2>2, SessionBoundsAssumption
<1> QED BY <1>5, <1>6 DEF Begin, history, TypeOK

LEMMA SendType ==
  ASSUME TypeOK, Inputs, NEW q \in Requests, SendRequest(q)
  PROVE  TypeOK' /\ Inputs'
<1>1. /\ SessionIds \subseteq Nat /\ Links \subseteq Nat /\ Passwords \subseteq Nat
      /\ drawn.secret \in 0..MaxSecrets /\ drawn.code \in 0..MaxCodes
      /\ drawn.state \in 0..MaxStates
      /\ 0 \in Nat /\ 1 \in Nat
  BY PasswordsAssumption DEF TypeOK, SessionIds, Links
<1>2. /\ TotpCodes \subseteq 0..MaxSecrets /\ TotpCodes \subseteq Nat
      /\ 1..drawn.code \subseteq Nat /\ 1..drawn.state \subseteq Nat
  BY <1>1, SessionBoundsAssumption DEF TotpCodes
<1>3. /\ \A k \in LinkKinds : link[k].mailed \subseteq Links
      /\ challenges \subseteq Proofs /\ Issued \subseteq SessionIds
  BY DEF TypeOK, LinkRecord, Issued
<1>4. /\ Ops = {"register", "resend", "verify", "login", "two-factor", "recovery", "refresh",
                "logout", "setup", "enable", "disable", "forgot", "reset", "google"}
      /\ NoProof \in Proofs /\ "verify" \in LinkKinds /\ "reset" \in LinkKinds
  BY IdleType DEF Ops, LinkKinds
<1>5. CASE SendRegister(q)
  BY <1>1, <1>4, <1>5, BeginType DEF SendRegister, Send
<1>6. CASE SendVerify(q)
  BY <1>1, <1>3, <1>4, <1>6, BeginType DEF SendVerify, Send
<1>7. CASE SendResend(q)
  BY <1>1, <1>4, <1>7, BeginType DEF SendResend, Send
<1>8. CASE SendLogin(q)
  BY <1>1, <1>4, <1>8, BeginType DEF SendLogin, Send
<1>9. CASE SendTwoFactor(q)
  BY <1>1, <1>2, <1>3, <1>4, <1>9, BeginType DEF SendTwoFactor
<1>10. CASE SendRecovery(q)
  BY <1>1, <1>2, <1>3, <1>4, <1>10, BeginType DEF SendRecovery
<1>11. CASE SendRefresh(q)
  BY <1>1, <1>3, <1>4, <1>11, BeginType DEF SendRefresh, Send
<1>12. CASE SendLogout(q)
  BY <1>1, <1>3, <1>4, <1>12, BeginType DEF SendLogout, Send
<1>13. CASE SendSetup(q)
  BY <1>1, <1>3, <1>4, <1>13, BeginType DEF SendSetup, Send
<1>14. CASE SendEnable(q)
  BY <1>1, <1>2, <1>3, <1>4, <1>14, BeginType DEF SendEnable, Send
<1>15. CASE SendDisable(q)
  BY <1>1, <1>2, <1>3, <1>4, <1>15, BeginType DEF SendDisable, Send
<1>16. CASE SendForgot(q)
  BY <1>1, <1>4, <1>16, BeginType DEF SendForgot, Send
<1>17. CASE SendReset(q)
  BY <1>1, <1>3, <1>4, <1>17, BeginType DEF SendReset, Send
<1>18. CASE SendGoogle(q)
  <2>1. 0..1 \subseteq Nat
    OBVIOUS
  <2> QED BY <1>1, <1>2, <1>4, <1>18, <2>1, BeginType DEF SendGoogle, Send
<1> QED BY <1>5, <1>6, <1>7, <1>8, <1>9, <1>10, <1>11, <1>12, <1>13, <1>14, <1>15, <1>16, <1>17,
           <1>18 DEF SendRequest

(* Steps that change nothing but their request. *)
LEMMA RequestOnlyType ==
  ASSUME TypeOK, RequestOnly, request' \in [Requests -> RequestRecord]
  PROVE  TypeOK'
BY DEF TypeOK, RequestOnly, NoFailure, NoUse

(* What is presented is a thing that can be used; so histories stay typed. *)
LEMMA UseType ==
  ASSUME TypeOK, NEW q \in Requests, Use(q) \/ Found(q) \/ NoUse,
         request[q].op \in {"verify", "reset", "recovery", "refresh", "google"}
  PROVE  used' \subseteq Things /\ twice' \subseteq Things /\ excused' \subseteq Things
<1>1. /\ used \subseteq Things /\ twice \subseteq Things /\ excused \subseteq Things
  BY DEF TypeOK
<1>2. \A r \in Rivals(q) \cup {q} : Presented(r) \in Things
  BY Fields DEF Rivals, Presented, Things
<1>3. CASE Use(q)
  BY <1>1, <1>2, <1>3 DEF Use
<1>4. CASE Found(q)
  <2>1. excused' \subseteq Things
    BY <1>1, <1>2, <1>4 DEF Found
  <2> QED BY <1>1, <1>4, <2>1 DEF Found
<1>5. CASE NoUse
  BY <1>1, <1>5 DEF NoUse
<1> QED BY <1>3, <1>4, <1>5

(* Registration, mailed links and passwords. *)
LEMMA LinkType ==
  ASSUME BaseInv, NEW q \in Requests, LinkStep(q)
  PROVE  TypeOK' /\ Inputs'
<1> USE DEF BaseInv
<1>1. InputOK(request[q]) /\ request[q] \in RequestRecord
  BY Fields DEF Inputs
<1>2. CASE ReadUnregistered(q)
  <2>1. request' \in [Requests -> RequestRecord] /\ Inputs'
    BY <1>2, DoneOK, GotoOK DEF ReadUnregistered, AtStep, Steps
  <2> QED BY <1>2, <2>1, RequestOnlyType DEF ReadUnregistered
<1>3. CASE CreateUser(q)
  <2>1. request' \in [Requests -> RequestRecord] /\ Inputs'
    BY <1>3, DoneOK, GotoOK DEF CreateUser, AtStep, Steps
  <2>2. request[q].arg \in Passwords
    BY <1>1, <1>3 DEF CreateUser, AtStep, InputOK
  <2>3. account' \in Accounts /\ (account.exists => account'.exists)
    BY <1>3, <2>2, IdleType DEF CreateUser, Accounts, TypeOK
  <2> QED BY <1>3, <2>1, <2>3 DEF CreateUser, AccountOnly, NoFailure, NoUse, TypeOK
<1>4. CASE ReadAddressee(q)
  <2>1. request' \in [Requests -> RequestRecord] /\ Inputs'
    BY <1>4, DoneOK, GotoOK DEF ReadAddressee, Steps
  <2> QED BY <1>4, <2>1, RequestOnlyType DEF ReadAddressee
<1>5. ASSUME link' \in [LinkKinds -> LinkRecord],
             ~account.exists => \A k \in LinkKinds : link'[k].mailed = {},
             UNCHANGED <<denied, states>> /\ RedisOnly /\ NoUse,
             request' \in [Requests -> RequestRecord]
      PROVE  TypeOK'
  BY <1>5 DEF RedisOnly, NoFailure, NoUse, TypeOK
<1>6. CASE StoreNonce(q)
  <2> DEFINE k == Kind(q)  n == link[k].drawn + 1
             new == [request[q] EXCEPT !.step = "mail", !.arg = n]
  <2>1. k \in LinkKinds /\ link[k] \in LinkRecord
    BY DEF Kind, LinkKinds, TypeOK
  <2>2. link[k].drawn \in 0..MaxLinks /\ link[k].drawn < MaxLinks
    BY <1>6, <2>1 DEF StoreNonce, LinkRecord
  <2>3. n \in Links /\ n \in 0..MaxLinks /\ n \in Nat
    BY <2>2, SessionBoundsAssumption DEF Links
  <2>4. new \in RequestRecord
    BY <1>1, <2>3 DEF RequestRecord, Steps
  <2>5. InputOK(new)
    <3>1. /\ new.op = request[q].op /\ new.step = "mail" /\ new.arg = n
          /\ new.choice = request[q].choice
      BY <1>1 DEF RequestRecord
    <3>2. request[q].op \in {"register", "resend", "forgot"}
      BY <1>1, <1>6 DEF StoreNonce, InputOK
    <3> QED BY <1>1, <2>3, <3>1, <3>2 DEF InputOK
  <2>6. request' \in [Requests -> RequestRecord] /\ Inputs'
    BY <1>6, <2>4, <2>5, ChangeOK DEF StoreNonce
  <2>7. /\ link' \in [LinkKinds -> LinkRecord]
        /\ \A j \in LinkKinds : link'[j].mailed = link[j].mailed
    BY <1>6, <2>1, <2>3 DEF StoreNonce, LinkRecord, TypeOK
  <2>8. ~account.exists => \A j \in LinkKinds : link'[j].mailed = {}
    BY <2>7 DEF TypeOK
  <2> QED BY <1>5, <1>6, <2>6, <2>7, <2>8 DEF StoreNonce
<1>7. CASE SendMail(q)
  <2>1. request[q].arg \in Links /\ Kind(q) \in LinkKinds
    BY <1>1, <1>7 DEF SendMail, InputOK, Kind, LinkKinds
  <2>2. account.exists
    BY <1>7 DEF SendMail, NobodyYet, Unregistered
  <2>3. link' \in [LinkKinds -> LinkRecord]
    BY <1>7, <2>1 DEF SendMail, LinkRecord, TypeOK
  <2>4. request' \in [Requests -> RequestRecord] /\ Inputs'
    BY <1>7, DoneOK DEF SendMail
  <2> QED BY <1>5, <1>7, <2>2, <2>3, <2>4 DEF SendMail
<1>8. CASE MailLost(q)
  BY <1>8, DoneOK, RequestOnlyType DEF MailLost
<1>9. CASE CheckSpent(q)
  <2>1. request' \in [Requests -> RequestRecord] /\ Inputs'
    BY <1>9, DoneOK, GotoOK DEF CheckSpent, Steps
  <2> QED BY <1>9, <2>1, RequestOnlyType DEF CheckSpent
<1>10. CASE CompareNonce(q)
  <2>1. request' \in [Requests -> RequestRecord] /\ Inputs'
    <3>1. request[q].op \in {"verify", "reset"}
      BY <1>1, <1>10 DEF CompareNonce, InputOK
    <3> QED BY <1>10, <3>1, DoneOK, GotoOK DEF CompareNonce, Steps
  <2>2. used' \subseteq Things /\ twice' \subseteq Things /\ excused' \subseteq Things
    BY <1>1, <1>10, UseType DEF InputOK, CompareNonce, NoUse
  <2> QED BY <1>10, <2>1, <2>2 DEF CompareNonce, RedisOnly, NoFailure, TypeOK
<1>11. CASE ReadLinkOwner(q)
  <2>1. request' \in [Requests -> RequestRecord] /\ Inputs'
    BY <1>11, DoneOK, GotoOK DEF ReadLinkOwner, Steps
  <2> QED BY <1>11, <2>1, RequestOnlyType DEF ReadLinkOwner
<1>12. CASE WriteVerified(q)
  <2>1. request' \in [Requests -> RequestRecord] /\ Inputs'
    BY <1>12, GotoOK DEF WriteVerified, AtStep, Steps
  <2>2. used' \subseteq Things /\ twice' \subseteq Things /\ excused' \subseteq Things
    BY <1>12, UseType DEF WriteVerified, AtStep
  <2>3. account' \in Accounts /\ account'.exists = account.exists
    BY <1>12, Fields DEF WriteVerified, Accounts, TypeOK
  <2> QED BY <1>12, <2>1, <2>2, <2>3 DEF WriteVerified, AccountOnly, NoFailure, TypeOK
<1>13. CASE WritePassword(q)
  <2>1. request' \in [Requests -> RequestRecord] /\ Inputs'
    BY <1>13, GotoOK DEF WritePassword, AtStep, Steps
  <2>2. used' \subseteq Things /\ twice' \subseteq Things /\ excused' \subseteq Things
    BY <1>13, UseType DEF WritePassword, AtStep
  <2>3. request[q].choice \in Passwords
    BY <1>1, <1>13 DEF WritePassword, AtStep, InputOK
  <2>4. account' \in Accounts /\ account'.exists = account.exists
    BY <1>13, <2>3, Fields DEF WritePassword, Accounts, TypeOK
  <2> QED BY <1>13, <2>1, <2>2, <2>4 DEF WritePassword, AccountOnly, NoFailure, TypeOK
<1>14. CASE ForgetNonce(q)
  <2>1. request' \in [Requests -> RequestRecord] /\ Inputs'
    BY <1>14, DoneOK, GotoOK DEF ForgetNonce, Steps
  <2>2. Kind(q) \in LinkKinds /\ 0 \in 0..MaxLinks
    BY SessionBoundsAssumption DEF Kind, LinkKinds
  <2>3. /\ link' \in [LinkKinds -> LinkRecord]
        /\ \A k \in LinkKinds : link'[k].mailed = link[k].mailed
    BY <1>14, <2>2 DEF ForgetNonce, LinkRecord, TypeOK
  <2>4. ~account.exists => \A k \in LinkKinds : link'[k].mailed = {}
    BY <2>3 DEF TypeOK
  <2> QED BY <1>5, <1>14, <2>1, <2>3, <2>4 DEF ForgetNonce
<1>15. CASE DenyLink(q)
  <2>1. request' \in [Requests -> RequestRecord] /\ Inputs'
    BY <1>15, DoneOK, GotoOK DEF DenyLink, Steps
  <2>2. Kind(q) \in LinkKinds /\ request[q].arg \in Links
    BY <1>1, <1>15 DEF DenyLink, InputOK, Kind, LinkKinds
  <2>3. /\ link' \in [LinkKinds -> LinkRecord]
        /\ \A k \in LinkKinds : link'[k].mailed = link[k].mailed
    BY <1>15, <2>2 DEF DenyLink, LinkRecord, TypeOK
  <2>4. ~account.exists => \A k \in LinkKinds : link'[k].mailed = {}
    BY <2>3 DEF TypeOK
  <2> QED BY <1>5, <1>15, <2>1, <2>3, <2>4 DEF DenyLink
<1> QED BY <1>2, <1>3, <1>4, <1>6, <1>7, <1>8, <1>9, <1>10, <1>11, <1>12, <1>13, <1>14, <1>15
        DEF LinkStep

(* Signing in: who is admitted gets a login token or goes on to a session. *)
LEMMA AdmitType ==
  ASSUME TypeOK, Inputs, NEW q \in Requests, NEW row, NEW proof \in Proofs, Admit(q, row, proof)
  PROVE  /\ request' \in [Requests -> RequestRecord] /\ Inputs' /\ challenges' \subseteq Proofs
         /\ request'[q].step = "issue" => request'[q].proof = proof
<1>1. challenges \subseteq Proofs
  BY DEF TypeOK
<1>2. CASE row.enabled
  BY <1>1, <1>2, DoneOK DEF Admit, Idle
<1>3. CASE ~row.enabled
  <2> DEFINE new == [request[q] EXCEPT !.step = "issue", !.proof = proof]
  <2>1. new \in RequestRecord
    BY Fields DEF RequestRecord, Steps
  <2>2. /\ new.op = request[q].op /\ new.step = "issue" /\ new.arg = request[q].arg
        /\ new.choice = request[q].choice /\ new.proof = proof
    BY Fields DEF RequestRecord
  <2>3. InputOK(new)
    BY <2>2 DEF Inputs, InputOK
  <2>4. request' = [request EXCEPT ![q] = new] /\ challenges' = challenges
    BY <1>3 DEF Admit, TypeOK
  <2> HIDE DEF new
  <2> QED BY <1>1, <2>1, <2>2, <2>3, <2>4, ChangeOK
<1> QED BY <1>2, <1>3

(* A request that takes up a proof, an input or some codes. *)
LEMMA TakeOK ==
  ASSUME TypeOK, Inputs, NEW q \in Requests,
         NEW step \in {"issue", "rotate", "seal", "spend", "link", "create"},
         NEW proof \in Proofs, NEW codes \in SUBSET Codes, NEW choice \in Nat,
         request[q].op = "register" => step # "create",
         choice = request[q].choice \/ request[q].op = "google",
         request' = [request EXCEPT ![q] = [request[q] EXCEPT !.step = step, !.proof = proof,
                                                              !.codes = codes, !.choice = choice]]
  PROVE  /\ request' \in [Requests -> RequestRecord] /\ Inputs'
         /\ request'[q] = [request[q] EXCEPT !.step = step, !.proof = proof,
                                             !.codes = codes, !.choice = choice]
         /\ \A r \in Requests \ {q} : request'[r] = request[r]
<1> DEFINE new == [request[q] EXCEPT !.step = step, !.proof = proof, !.codes = codes,
                                     !.choice = choice]
<1>1. new \in RequestRecord
  BY Fields DEF RequestRecord, Steps
<1>2. InputOK(request[q]) /\ request[q] \in RequestRecord
  BY Fields DEF Inputs
<1>3. /\ new.op = request[q].op /\ new.step = step /\ new.arg = request[q].arg
      /\ new.choice = choice
  BY <1>2 DEF RequestRecord
<1>4. InputOK(new)
  BY <1>2, <1>3 DEF InputOK
<1> HIDE DEF new
<1>5. /\ request' \in [Requests -> RequestRecord] /\ Inputs'
      /\ request'[q] = new /\ \A r \in Requests \ {q} : request'[r] = request[r]
  BY <1>1, <1>4, ChangeOK DEF new
<1> QED BY <1>5 DEF new

(* Sessions and their tokens. *)
LEMMA SignInType ==
  ASSUME BaseInv, NEW q \in Requests, SignInStep(q)
  PROVE  TypeOK' /\ Inputs'
<1> USE DEF BaseInv
<1>1. InputOK(request[q]) /\ request[q] \in RequestRecord
  BY Fields DEF Inputs
<1>2. CASE Login(q)
  <2>1. Password(account) \in Proofs
    BY Fields, IdleType DEF Password, NoProof, Proofs
  <2>2. /\ request' \in [Requests -> RequestRecord] /\ Inputs' /\ challenges' \subseteq Proofs
    <3>1. CASE Admit(q, account, Password(account))
      BY <2>1, <3>1, AdmitType
    <3>2. CASE Done(q) /\ UNCHANGED challenges
      BY <3>2, DoneOK DEF TypeOK
    <3> QED BY <1>2, <3>1, <3>2 DEF Login
  <2> QED BY <1>2, <2>2 DEF Login, NoFailure, NoUse, TypeOK
<1>3. ASSUME session' \in [SessionIds -> [state : SessionStates, proof : Proofs]],
             torn' \in BOOLEAN, SessionOnly,
             request' \in [Requests -> RequestRecord],
             used' \subseteq Things /\ twice' \subseteq Things /\ excused' \subseteq Things
      PROVE  TypeOK'
  BY <1>3 DEF SessionOnly, NoFailure, TypeOK
<1>4. /\ session \in [SessionIds -> [state : SessionStates, proof : Proofs]] /\ torn \in BOOLEAN
      /\ used \subseteq Things /\ twice \subseteq Things /\ excused \subseteq Things
  BY DEF TypeOK
<1>5. CASE IssueTokens(q)
  <2>1. request' \in [Requests -> RequestRecord] /\ Inputs'
    BY <1>5, DoneOK DEF IssueTokens
  <2>2. session' \in [SessionIds -> [state : SessionStates, proof : Proofs]]
    <3>1. PICK t \in SessionIds \ Issued :
            session' = [session EXCEPT ![t] = [state |-> "live", proof |-> request[q].proof]]
      BY <1>5 DEF IssueTokens
    <3>2. [state |-> "live", proof |-> request[q].proof] \in [state : SessionStates, proof : Proofs]
      BY Fields DEF SessionStates
    <3> QED BY <1>4, <3>1, <3>2
  <2> QED BY <1>3, <1>4, <1>5, <2>1, <2>2 DEF IssueTokens, NoUse
<1>6. CASE ReadSession(q)
  <2>1. request[q].arg \in SessionIds /\ request[q].op = "refresh"
    BY <1>1, <1>6 DEF ReadSession, AtStep, InputOK
  <2>2. request' \in [Requests -> RequestRecord] /\ Inputs'
    <3>1. CASE Goto(q, "revoke")
      BY <3>1, GotoOK DEF Steps
    <3>2. CASE request' = [request EXCEPT ![q].step = "rotate",
                                          ![q].proof = session[request[q].arg].proof]
      <4>1. request' = [request EXCEPT ![q] = [request[q] EXCEPT !.step = "rotate",
               !.proof = session[request[q].arg].proof, !.codes = request[q].codes,
               !.choice = request[q].choice]]
        BY <1>1, <3>2 DEF RequestRecord, TypeOK
      <4>2. /\ session[request[q].arg].proof \in Proofs /\ request[q].codes \in SUBSET Codes
            /\ request[q].choice \in Nat
        BY <2>1, Fields
      <4> QED BY <2>1, <4>1, <4>2, TakeOK
    <3> QED BY <1>6, <3>1, <3>2 DEF ReadSession
  <2>3. used' \subseteq Things /\ twice' \subseteq Things /\ excused' \subseteq Things
    BY <1>6, <2>1, UseType DEF ReadSession
  <2> QED BY <1>3, <1>4, <1>6, <2>2, <2>3 DEF ReadSession
<1>7. CASE Rotate(q)
  <2>1. request[q].arg \in SessionIds /\ request[q].op = "refresh"
    BY <1>1, <1>7 DEF Rotate, AtStep, InputOK
  <2>2. request' \in [Requests -> RequestRecord] /\ Inputs'
    BY <1>7, GotoOK DEF Rotate, Steps
  <2>3. used' \subseteq Things /\ twice' \subseteq Things /\ excused' \subseteq Things
    BY <1>7, <2>1, UseType DEF Rotate
  <2>4. session' \in [SessionIds -> [state : SessionStates, proof : Proofs]]
    BY <1>4, <1>7, <2>1 DEF Rotate, SessionStates
  <2> QED BY <1>3, <1>4, <1>7, <2>2, <2>3, <2>4 DEF Rotate
<1>8. CASE DenyAccess(q)
  <2>1. request' \in [Requests -> RequestRecord] /\ Inputs'
    BY <1>8, GotoOK DEF DenyAccess, Steps
  <2>2. denied' \subseteq SessionIds
    BY <1>1, <1>8 DEF DenyAccess, AtStep, InputOK, TypeOK
  <2> QED BY <1>8, <2>1, <2>2 DEF DenyAccess, RedisOnly, NoFailure, NoUse, TypeOK
<1>9. CASE RevokeAll(q)
  <2>1. \A p \in Proofs : Late(p) \in Proofs
    BY DEF Late, Proofs
  <2>2. session' \in [SessionIds -> [state : SessionStates, proof : Proofs]]
    BY <1>4, <1>9 DEF RevokeAll, SessionStates
  <2>3. challenges' \subseteq Proofs
    BY <1>9, <2>1 DEF RevokeAll, TypeOK
  <2>4. ASSUME NEW r \in Requests
        PROVE  request'[r] \in RequestRecord /\ InputOK(request'[r])
    <3>1. request[r] \in RequestRecord /\ InputOK(request[r])
      BY Fields DEF Inputs
    <3>2. [request[r] EXCEPT !.proof = Late(@)] \in RequestRecord
          /\ InputOK([request[r] EXCEPT !.proof = Late(@)])
      BY <2>1, <3>1 DEF RequestRecord, InputOK
    <3>3. [request[r] EXCEPT !.step = "forget"] \in RequestRecord
          /\ InputOK([request[r] EXCEPT !.step = "forget"])
      BY <3>1 DEF RequestRecord, InputOK, Steps
    <3>4. request'[r] \in {Idle, request[r], [request[r] EXCEPT !.step = "forget"],
                           [request[r] EXCEPT !.proof = Late(@)]}
      BY <1>9 DEF RevokeAll
    <3> QED BY <3>1, <3>2, <3>3, <3>4, IdleType
  <2>5. request' \in [Requests -> RequestRecord]
    <3>1. request' = [r \in Requests |-> request'[r]]
      BY <1>9 DEF RevokeAll
    <3> QED BY <2>4, <3>1
  <2>6. Inputs'
    BY <2>4 DEF Inputs, InputOK
  <2> QED BY <1>9, <2>2, <2>3, <2>5, <2>6 DEF RevokeAll, NoFailure, NoUse, TypeOK
<1> QED BY <1>2, <1>5, <1>6, <1>7, <1>8, <1>9 DEF SignInStep

(* The second factor. *)
LEMMA TwoFactorType ==
  ASSUME BaseInv, NEW q \in Requests, TwoFactorStep(q)
  PROVE  TypeOK' /\ Inputs'
<1> USE DEF BaseInv
<1>1. InputOK(request[q]) /\ request[q] \in RequestRecord
  BY Fields DEF Inputs
<1>2. \A p \in Proofs : Second(p) \in Proofs
  BY DEF Second, Proofs
<1>3. ASSUME account' \in Accounts, account'.exists = account.exists,
             drawn' \in [secret : 0..MaxSecrets, code : 0..MaxCodes, state : 0..MaxStates],
             AccountOnly, request' \in [Requests -> RequestRecord],
             used' \subseteq Things /\ twice' \subseteq Things /\ excused' \subseteq Things
      PROVE  TypeOK'
  BY <1>3 DEF AccountOnly, NoFailure, TypeOK
<1>4. /\ drawn \in [secret : 0..MaxSecrets, code : 0..MaxCodes, state : 0..MaxStates]
      /\ used \subseteq Things /\ twice \subseteq Things /\ excused \subseteq Things
  BY DEF TypeOK
<1>5. CASE VerifyTwoFactor(q)
  <2>1. request[q].op = "two-factor"
    BY <1>5 DEF VerifyTwoFactor, AtStep
  <2>2. request' \in [Requests -> RequestRecord] /\ Inputs'
    <3>1. CASE Done(q)
      BY <3>1, DoneOK
    <3>2. ASSUME NEW step \in {"issue", "seal"},
                 request' = [request EXCEPT ![q].step = step, ![q].proof = Second(@)]
          PROVE  request' \in [Requests -> RequestRecord] /\ Inputs'
      <4>1. request' = [request EXCEPT ![q] = [request[q] EXCEPT !.step = step,
               !.proof = Second(request[q].proof), !.codes = request[q].codes,
               !.choice = request[q].choice]]
        BY <1>1, <3>2 DEF RequestRecord, TypeOK
      <4>2. /\ Second(request[q].proof) \in Proofs /\ request[q].codes \in SUBSET Codes
            /\ request[q].choice \in Nat
        BY <1>2, Fields
      <4> QED BY <2>1, <4>1, <4>2, TakeOK
    <3> QED BY <1>5, <3>1, <3>2 DEF VerifyTwoFactor
  <2> QED BY <1>5, <2>2, RequestOnlyType DEF VerifyTwoFactor
<1>6. CASE SealSecret(q)
  <2>1. request' \in [Requests -> RequestRecord] /\ Inputs'
    BY <1>6, GotoOK DEF SealSecret, Steps
  <2>2. request[q].choice \in 0..MaxSecrets
    BY <1>1, <1>6 DEF SealSecret, AtStep, InputOK
  <2>3. account' \in Accounts /\ account'.exists = account.exists
    BY <1>6, <2>2, Fields DEF SealSecret, Accounts, TypeOK
  <2> QED BY <1>3, <1>4, <1>6, <2>1, <2>3 DEF SealSecret, NoUse
<1>7. CASE ReadCodes(q)
  <2>1. request[q].op = "recovery"
    BY <1>7 DEF ReadCodes, AtStep
  <2>2. request' \in [Requests -> RequestRecord] /\ Inputs'
    <3>1. CASE Done(q)
      BY <3>1, DoneOK
    <3>2. CASE request' = [request EXCEPT ![q].step = "spend", ![q].proof = Second(@),
                                          ![q].codes = account.codes \ {request[q].arg}]
      <4>1. request' = [request EXCEPT ![q] = [request[q] EXCEPT !.step = "spend",
               !.proof = Second(request[q].proof), !.codes = account.codes \ {request[q].arg},
               !.choice = request[q].choice]]
        BY <1>1, <3>2 DEF RequestRecord, TypeOK
      <4>2. /\ account.codes \ {request[q].arg} \in SUBSET Codes
            /\ Second(request[q].proof) \in Proofs /\ request[q].choice \in Nat
        BY <1>2, Fields
      <4> QED BY <2>1, <4>1, <4>2, TakeOK
    <3> QED BY <1>7, <3>1, <3>2 DEF ReadCodes
  <2>3. used' \subseteq Things /\ twice' \subseteq Things /\ excused' \subseteq Things
    BY <1>7, <2>1, UseType DEF ReadCodes
  <2> QED BY <1>7, <2>2, <2>3 DEF ReadCodes, SessionOnly, NoFailure, TypeOK
<1>8. CASE SpendCode(q)
  <2>1. request' \in [Requests -> RequestRecord] /\ Inputs'
    BY <1>8, GotoOK DEF SpendCode, Steps
  <2>2. used' \subseteq Things /\ twice' \subseteq Things /\ excused' \subseteq Things
    BY <1>8, UseType DEF SpendCode, AtStep
  <2>3. account' \in Accounts /\ account'.exists = account.exists
    BY <1>8, Fields DEF SpendCode, Accounts, TypeOK
  <2> QED BY <1>3, <1>4, <1>8, <2>1, <2>2, <2>3 DEF SpendCode
<1>9. CASE ReadSetup(q)
  <2>1. request' \in [Requests -> RequestRecord] /\ Inputs'
    BY <1>9, DoneOK, GotoOK DEF ReadSetup, Steps
  <2> QED BY <1>9, <2>1, RequestOnlyType DEF ReadSetup
<1>10. CASE WriteSecret(q)
  <2>1. request' \in [Requests -> RequestRecord] /\ Inputs'
    BY <1>10, DoneOK DEF WriteSecret
  <2>2. drawn.secret + 1 \in 0..MaxSecrets
    BY <1>4, <1>10, SessionBoundsAssumption DEF WriteSecret
  <2>3. drawn' \in [secret : 0..MaxSecrets, code : 0..MaxCodes, state : 0..MaxStates]
    BY <1>4, <1>10, <2>2 DEF WriteSecret
  <2>4. account' \in Accounts /\ account'.exists = account.exists
    BY <1>10, <2>2, Fields DEF WriteSecret, Accounts, TypeOK
  <2> QED BY <1>3, <1>4, <1>10, <2>1, <2>3, <2>4 DEF WriteSecret, NoUse
<1>11. CASE ReadTwoFactor(q)
  <2>1. request' \in [Requests -> RequestRecord] /\ Inputs'
    BY <1>11, DoneOK, GotoOK DEF ReadTwoFactor, Steps
  <2> QED BY <1>11, <2>1, RequestOnlyType DEF ReadTwoFactor
<1>12. CASE WriteEnabled(q)
  <2>1. request' \in [Requests -> RequestRecord] /\ Inputs'
    BY <1>12, GotoOK DEF WriteEnabled, Steps
  <2>2. drawn.code + CodeCount \in 0..MaxCodes
    BY <1>4, <1>12, SessionBoundsAssumption DEF WriteEnabled
  <2>3. drawn' \in [secret : 0..MaxSecrets, code : 0..MaxCodes, state : 0..MaxStates]
    BY <1>4, <1>12, <2>2 DEF WriteEnabled
  <2>4. request[q].choice \in 0..MaxSecrets
    BY <1>1, <1>12 DEF WriteEnabled, InputOK
  <2>5. drawn.code + 1 .. drawn.code + CodeCount \subseteq Codes
    BY <1>4, <2>2, SessionBoundsAssumption DEF Codes
  <2> DEFINE enabled == [account EXCEPT !.enabled = TRUE,
                                        !.codes = drawn.code + 1 .. drawn.code + CodeCount]
  <2>6. enabled \in Accounts /\ enabled.exists = account.exists
    BY <2>5, Fields DEF Accounts, TypeOK
  <2>7. account' = enabled \/ account' = [enabled EXCEPT !.secret = request[q].choice, !.sealed = TRUE]
    BY <1>12 DEF WriteEnabled
  <2> HIDE DEF enabled
  <2>8. account' \in Accounts /\ account'.exists = account.exists
    BY <2>4, <2>6, <2>7 DEF Accounts
  <2> QED BY <1>3, <1>4, <1>12, <2>1, <2>3, <2>8 DEF WriteEnabled, NoUse
<1>13. CASE WriteDisabled(q)
  <2>1. request' \in [Requests -> RequestRecord] /\ Inputs'
    BY <1>13, GotoOK DEF WriteDisabled, Steps
  <2>2. account' \in Accounts /\ account'.exists = account.exists
    <3>1. 0 \in 0..MaxSecrets /\ {} \in SUBSET Codes /\ FALSE \in BOOLEAN
      BY SessionBoundsAssumption
    <3>2. account \in Accounts
      BY DEF TypeOK
    <3>3. account' = [account EXCEPT !.enabled = FALSE, !.secret = 0, !.sealed = FALSE, !.codes = {}]
      BY <1>13 DEF WriteDisabled
    <3> QED BY <3>1, <3>2, <3>3 DEF Accounts
  <2> QED BY <1>3, <1>4, <1>13, <2>1, <2>2 DEF WriteDisabled, NoUse
<1> QED BY <1>5, <1>6, <1>7, <1>8, <1>9, <1>10, <1>11, <1>12, <1>13 DEF TwoFactorStep

(* Signing in with Google. *)
LEMMA GoogleType ==
  ASSUME BaseInv, NEW q \in Requests, GoogleStep(q)
  PROVE  TypeOK' /\ Inputs'
<1> USE DEF BaseInv
<1>1. request[q] \in RequestRecord
  BY Fields
<1>2. Password(account) \in Proofs
  BY Fields, IdleType DEF Password, NoProof, Proofs
<1>3. CASE GetState(q)
  <2>1. request' \in [Requests -> RequestRecord] /\ Inputs'
    BY <1>3, GotoOK DEF GetState, Steps
  <2>2. used' \subseteq Things /\ twice' \subseteq Things /\ excused' \subseteq Things
    BY <1>3, UseType DEF GetState, AtStep
  <2> QED BY <1>3, <2>1, <2>2 DEF GetState, SessionOnly, NoFailure, TypeOK
<1>4. CASE StateUnknown(q)
  BY <1>4, DoneOK, RequestOnlyType DEF StateUnknown
<1>5. CASE DeleteState(q)
  <2>1. request' \in [Requests -> RequestRecord] /\ Inputs'
    BY <1>5, GotoOK DEF DeleteState, Steps
  <2>2. used' \subseteq Things /\ twice' \subseteq Things /\ excused' \subseteq Things
    BY <1>5, UseType DEF DeleteState, AtStep
  <2> QED BY <1>5, <2>1, <2>2 DEF DeleteState, RedisOnly, NoFailure, TypeOK
<1>6. CASE GoogleRefuses(q)
  BY <1>6, DoneOK, RequestOnlyType DEF GoogleRefuses
<1>7. CASE FindGoogleUser(q)
  <2>1. request[q].op = "google"
    BY <1>7 DEF FindGoogleUser, AtStep
  <2>2. request' \in [Requests -> RequestRecord] /\ Inputs' /\ challenges' \subseteq Proofs
    <3>1. CASE Admit(q, account, Password(account))
      BY <1>2, <3>1, AdmitType
    <3>2. ASSUME NEW step \in {"link", "create"}, NEW choice \in Nat, UNCHANGED challenges,
                 request' = [request EXCEPT ![q].step = step, ![q].choice = choice]
          PROVE  request' \in [Requests -> RequestRecord] /\ Inputs' /\ challenges' \subseteq Proofs
      <4>1. request' = [request EXCEPT ![q] = [request[q] EXCEPT !.step = step,
               !.proof = request[q].proof, !.codes = request[q].codes, !.choice = choice]]
        BY <1>1, <3>2 DEF RequestRecord, TypeOK
      <4>2. request[q].proof \in Proofs /\ request[q].codes \in SUBSET Codes
        BY Fields
      <4>3. request' \in [Requests -> RequestRecord] /\ Inputs'
        <5>1. /\ step \in {"issue", "rotate", "seal", "spend", "link", "create"}
              /\ request[q].op # "register"
          BY <2>1, <3>2
        <5>2. TypeOK /\ Inputs
          OBVIOUS
        <5> HIDE DEF BaseInv
        <5> DEFINE proof == request[q].proof  codes == request[q].codes
        <5>3. /\ proof \in Proofs /\ codes \in SUBSET Codes
              /\ request' = [request EXCEPT ![q] = [request[q] EXCEPT !.step = step,
                   !.proof = proof, !.codes = codes, !.choice = choice]]
          BY <4>1, <4>2
        <5> HIDE DEF proof, codes
        <5> QED BY <2>1, <5>1, <5>2, <5>3, TakeOK
      <4> QED BY <3>2, <4>3 DEF TypeOK
    <3>3. request[q].choice \in Nat /\ 1 \in Nat
      BY Fields
    <3> QED BY <1>7, <3>1, <3>2, <3>3 DEF FindGoogleUser
  <2> QED BY <1>7, <2>2 DEF FindGoogleUser, NoFailure, NoUse, TypeOK
<1>8. \A row \in Accounts : Linked(q, row) \in Accounts /\ Linked(q, row).exists = row.exists
  BY DEF Linked, Accounts
<1>9. CASE LinkGoogle(q)
  <2>1. request' \in [Requests -> RequestRecord] /\ Inputs' /\ challenges' \subseteq Proofs
    BY <1>2, <1>9, AdmitType DEF LinkGoogle
  <2>2. account' \in Accounts /\ account'.exists = account.exists
    BY <1>8, <1>9 DEF LinkGoogle, TypeOK
  <2> QED BY <1>9, <2>1, <2>2 DEF LinkGoogle, NoFailure, NoUse, TypeOK
<1>10. CASE CreateGoogleUser(q)
  <2>1. request[q].op = "google"
    BY <1>10 DEF CreateGoogleUser, AtStep
  <2>2. CASE account.exists
    BY <1>10, <2>2, DoneOK DEF CreateGoogleUser, AccountOnly, NoFailure, NoUse, TypeOK
  <2>3. CASE ~account.exists
    <3>1. request' \in [Requests -> RequestRecord] /\ Inputs'
      <4>1. request' = [request EXCEPT ![q] = [request[q] EXCEPT !.step = "issue",
               !.proof = NoProof, !.codes = request[q].codes, !.choice = request[q].choice]]
        BY <1>1, <1>10, <2>3 DEF CreateGoogleUser, RequestRecord, TypeOK
      <4>2. /\ NoProof \in Proofs /\ request[q].codes \in SUBSET Codes
            /\ request[q].choice \in Nat
        BY IdleType, Fields
      <4> QED BY <2>1, <4>1, <4>2, TakeOK
    <3>2. [Nobody EXCEPT !.exists = TRUE] \in Accounts /\ [Nobody EXCEPT !.exists = TRUE].exists
      BY IdleType DEF Nobody, Accounts
    <3>3. account' \in Accounts /\ account'.exists
      BY <1>8, <1>10, <2>3, <3>2 DEF CreateGoogleUser
    <3> QED BY <1>10, <3>1, <3>3 DEF CreateGoogleUser, AccountOnly, NoFailure, NoUse, TypeOK
  <2> QED BY <2>2, <2>3
<1> QED BY <1>3, <1>4, <1>5, <1>6, <1>7, <1>9, <1>10 DEF GoogleStep

(* The rest: consent pages, the guard of protected routes, requests cut short. *)
LEMMA OtherType ==
  ASSUME BaseInv, OpenConsent \/ \E q \in Requests : Authenticate(q) \/ Abort(q)
  PROVE  TypeOK' /\ Inputs'
<1> USE DEF BaseInv
<1>1. CASE OpenConsent
  <2>1. drawn.state + 1 \in 0..MaxStates /\ drawn.state + 1 \in 1..MaxStates
    BY <1>1, SessionBoundsAssumption DEF OpenConsent, TypeOK
  <2>2. /\ drawn' \in [secret : 0..MaxSecrets, code : 0..MaxCodes, state : 0..MaxStates]
        /\ states' \subseteq 1..MaxStates
    BY <1>1, <2>1 DEF OpenConsent, TypeOK
  <2>3. Inputs'
    BY <1>1 DEF OpenConsent, Inputs, InputOK
  <2> QED BY <1>1, <2>2, <2>3 DEF OpenConsent, history, NoFailure, TypeOK
<1>2. ASSUME NEW q \in Requests, Authenticate(q)
      PROVE  TypeOK' /\ Inputs'
  <2>1. request[q].op # "register"
    BY <1>2 DEF Authenticate, Inputs, InputOK, Protected
  <2>2. request' \in [Requests -> RequestRecord] /\ Inputs'
    BY <1>2, <2>1, DoneOK, GotoOK DEF Authenticate, Steps
  <2> QED BY <1>2, <2>2, RequestOnlyType DEF Authenticate
<1>3. ASSUME NEW q \in Requests, Abort(q)
      PROVE  TypeOK' /\ Inputs'
  <2>1. request' \in [Requests -> RequestRecord] /\ Inputs'
    BY <1>3, DoneOK DEF Abort
  <2>2. failures' \in 0..MaxFailures
    BY <1>3, SessionBoundsAssumption DEF Abort, TypeOK
  <2>3. torn' \in BOOLEAN
    BY <1>3 DEF Abort, TypeOK
  <2>4. excused' \subseteq Things
    <3>1. Spending(request[q]) => Presented(q) \in Things
      BY Fields DEF Spending, Presented, Things
    <3> QED BY <1>3, <3>1 DEF Abort, TypeOK
  <2> QED BY <1>3, <2>1, <2>2, <2>3, <2>4 DEF Abort, TypeOK
<1> QED BY <1>1, <1>2, <1>3

(* A user is not deleted. *)
LEMMA UserStays ==
  ASSUME BaseInv, Next, account.exists
  PROVE  account'.exists
<1> account \in Accounts
  BY DEF BaseInv, TypeOK
<1>1. CASE OpenConsent
  BY <1>1 DEF OpenConsent
<1>2. ASSUME NEW q \in Requests, SendRequest(q)
      PROVE  account' = account
  BY <1>2 DEF SendRequest, SendRegister, SendVerify, SendResend, SendLogin, SendTwoFactor,
              SendRecovery, SendRefresh, SendLogout, SendSetup, SendEnable, SendDisable,
              SendForgot, SendReset, SendGoogle, Send, Begin
<1>3. ASSUME NEW q \in Requests, Authenticate(q) \/ Abort(q)
      PROVE  account' = account
  BY <1>3 DEF Authenticate, Abort, RequestOnly
<1>4. ASSUME NEW q \in Requests, LinkStep(q)
      PROVE  account'.exists
  <2>1. CASE CreateUser(q)
    BY <2>1 DEF CreateUser
  <2>2. CASE WriteVerified(q) \/ WritePassword(q)
    BY <2>2 DEF WriteVerified, WritePassword, Accounts
  <2> QED BY <1>4, <2>1, <2>2
          DEF LinkStep, ReadUnregistered, ReadAddressee, StoreNonce, SendMail, MailLost, CheckSpent,
              CompareNonce, ReadLinkOwner, ForgetNonce, DenyLink, RequestOnly, RedisOnly
<1>5. ASSUME NEW q \in Requests, SignInStep(q)
      PROVE  account' = account
  BY <1>5 DEF SignInStep, Login, IssueTokens, ReadSession, Rotate, DenyAccess, RevokeAll,
              SessionOnly, RedisOnly
<1>6. ASSUME NEW q \in Requests, TwoFactorStep(q)
      PROVE  account'.exists
  <2>1. CASE SealSecret(q) \/ SpendCode(q) \/ WriteSecret(q) \/ WriteDisabled(q)
    BY <2>1 DEF SealSecret, SpendCode, WriteSecret, WriteDisabled, Accounts
  <2>2. CASE WriteEnabled(q)
    BY <2>2 DEF WriteEnabled, Accounts
  <2> QED BY <1>6, <2>1, <2>2
          DEF TwoFactorStep, VerifyTwoFactor, ReadCodes, ReadSetup, ReadTwoFactor, RequestOnly,
              SessionOnly
<1>7. ASSUME NEW q \in Requests, GoogleStep(q)
      PROVE  account'.exists
  <2>1. CASE LinkGoogle(q)
    BY <2>1 DEF LinkGoogle, Linked, Accounts
  <2>2. CASE CreateGoogleUser(q)
    BY <2>2 DEF CreateGoogleUser
  <2> QED BY <1>7, <2>1, <2>2
          DEF GoogleStep, GetState, StateUnknown, DeleteState, GoogleRefuses, FindGoogleUser,
              RequestOnly, RedisOnly, SessionOnly
<1> QED BY <1>1, <1>2, <1>3, <1>4, <1>5, <1>6, <1>7 DEF Next

(* As long as there is nobody, only these steps are possible. *)
LEMMA NobodySteps ==
  ASSUME BaseInv, Next, ~account.exists
  PROVE  account'.exists \/ /\ UNCHANGED <<account, challenges, session>>
                            /\ \A q \in Requests : Unregistered(request'[q])
<1>1. /\ account = Nobody /\ challenges = {} /\ Issued = {}
      /\ request \in [Requests -> RequestRecord]
      /\ \A q \in Requests : Unregistered(request[q])
      /\ \A k \in LinkKinds : link[k].mailed = {}
  BY DEF BaseInv, NobodyYet, TypeOK, Issued
<1>2. ~Nobody.exists /\ ~Nobody.google /\ ~Nobody.enabled
  BY DEF Nobody
<1>3. Unregistered(Idle)
  BY IdleType
<1>4. ASSUME NEW q \in Requests, Done(q)
      PROVE  \A r \in Requests : Unregistered(request'[r])
  BY <1>1, <1>3, <1>4 DEF Done
<1>5. ASSUME NEW q \in Requests, NEW step \in {"create", "spend", "find"}, Goto(q, step)
      PROVE  \A r \in Requests : Unregistered(request'[r])
  BY <1>1, <1>5 DEF Goto, Unregistered, RequestRecord
<1>6. CASE OpenConsent
  BY <1>1, <1>6 DEF OpenConsent
<1>7. ASSUME NEW q \in Requests, SendRequest(q)
      PROVE  /\ UNCHANGED <<account, challenges, session>>
             /\ \A r \in Requests : Unregistered(request'[r])
  <2>1. ASSUME NEW op \in {"register", "resend", "login", "google", "forgot"}, NEW arg, NEW choice,
               Send(q, op, arg, choice)
        PROVE  /\ UNCHANGED <<account, challenges, session>>
               /\ \A r \in Requests : Unregistered(request'[r])
    BY <1>1, <2>1 DEF Send, Begin, FirstStep, Protected, Unregistered
  <2>2. SendRegister(q) \/ SendResend(q) \/ SendLogin(q) \/ SendForgot(q) \/ SendGoogle(q)
    BY <1>1, <1>7 DEF SendRequest, SendVerify, SendTwoFactor, SendRecovery, SendRefresh, SendLogout,
                      SendSetup, SendEnable, SendDisable, SendReset, LinkKinds
  <2> QED BY <2>1, <2>2 DEF SendRegister, SendResend, SendLogin, SendForgot, SendGoogle
<1>8. ASSUME NEW q \in Requests, Authenticate(q) \/ Abort(q)
      PROVE  /\ UNCHANGED <<account, challenges, session>>
             /\ \A r \in Requests : Unregistered(request'[r])
  <2>1. Abort(q)
    BY <1>1, <1>8 DEF Authenticate, Unregistered
  <2> QED BY <1>4, <2>1 DEF Abort
<1>9. ASSUME NEW q \in Requests, LinkStep(q)
      PROVE  account'.exists \/ /\ UNCHANGED <<account, challenges, session>>
                                /\ \A r \in Requests : Unregistered(request'[r])
  <2>1. ReadUnregistered(q) \/ CreateUser(q) \/ ReadAddressee(q)
    BY <1>1, <1>9 DEF LinkStep, Unregistered, StoreNonce, SendMail, MailLost, CheckSpent,
                      CompareNonce, ReadLinkOwner, WriteVerified, WritePassword, ForgetNonce,
                      DenyLink, AtStep
  <2>2. CASE ReadUnregistered(q)
    BY <1>4, <1>5, <2>2 DEF ReadUnregistered, RequestOnly
  <2>3. CASE CreateUser(q)
    <3>1. account' = [Nobody EXCEPT !.exists = TRUE, !.password = request[q].arg]
      BY <2>3 DEF CreateUser
    <3> QED BY <3>1 DEF Nobody
  <2>4. CASE ReadAddressee(q)
    BY <1>4, <2>4 DEF ReadAddressee, RequestOnly
  <2> QED BY <2>1, <2>2, <2>3, <2>4
<1>10. ASSUME NEW q \in Requests, SignInStep(q)
       PROVE  /\ UNCHANGED <<account, challenges, session>>
              /\ \A r \in Requests : Unregistered(request'[r])
  <2>1. Login(q)
    BY <1>1, <1>10 DEF SignInStep, Unregistered, IssueTokens, ReadSession, Rotate, DenyAccess,
                       RevokeAll, AtStep
  <2> QED BY <1>4, <2>1 DEF Login
<1>11. ASSUME NEW q \in Requests, TwoFactorStep(q)
       PROVE  FALSE
  BY <1>1, <1>11 DEF TwoFactorStep, Unregistered, VerifyTwoFactor, SealSecret, ReadCodes, SpendCode,
                     ReadSetup, WriteSecret, ReadTwoFactor, WriteEnabled, WriteDisabled, AtStep
<1>12. ASSUME NEW q \in Requests, GoogleStep(q)
       PROVE  account'.exists \/ /\ UNCHANGED <<account, challenges, session>>
                                 /\ \A r \in Requests : Unregistered(request'[r])
  <2>1. CASE GetState(q)
    BY <1>5, <2>1 DEF GetState, SessionOnly
  <2>2. CASE StateUnknown(q) \/ GoogleRefuses(q)
    BY <1>4, <2>2 DEF StateUnknown, GoogleRefuses, RequestOnly
  <2>3. CASE DeleteState(q)
    BY <1>5, <2>3 DEF DeleteState, RedisOnly
  <2>4. CASE FindGoogleUser(q)
    <3>1. /\ request[q].op = "google" /\ UNCHANGED <<account, challenges, session>>
          /\ \E choice \in Nat :
               request' = [request EXCEPT ![q].step = "create", ![q].choice = choice]
      BY <1>1, <1>2, <2>4 DEF FindGoogleUser, AtStep, RequestRecord
    <3> QED BY <1>1, <3>1 DEF Unregistered, RequestRecord
  <2>5. CASE LinkGoogle(q)
    BY <1>1, <2>5 DEF LinkGoogle, AtStep, Unregistered
  <2>6. CASE CreateGoogleUser(q)
    <3>1. account' = Linked(q, [Nobody EXCEPT !.exists = TRUE])
      BY <2>6 DEF CreateGoogleUser
    <3> QED BY <3>1 DEF Linked, Nobody
  <2> QED BY <1>12, <2>1, <2>2, <2>3, <2>4, <2>5, <2>6 DEF GoogleStep
<1> QED BY <1>6, <1>7, <1>8, <1>9, <1>10, <1>11, <1>12 DEF Next

(* The types hold at first ... *)
LEMMA InitBase == Init => BaseInv
<1> SUFFICES ASSUME Init PROVE BaseInv
  OBVIOUS
<1>1. account \in Accounts
  <2>1. ASSUME NEW enabled \in BOOLEAN, NEW sealed \in BOOLEAN
        PROVE  SomeUser(enabled, sealed) \in Accounts
    <3>1. 1..CodeCount \subseteq Codes /\ 1 \in 0..MaxSecrets /\ 1 \in Passwords
      BY SessionBoundsAssumption, FirstPasswordAssumption DEF Codes
    <3> QED BY <3>1 DEF SomeUser, Accounts
  <2> QED BY <2>1, IdleType DEF Init
<1>2. session \in [SessionIds -> [state : SessionStates, proof : Proofs]]
  <2>1. [state |-> "none", proof |-> NoProof] \in [state : SessionStates, proof : Proofs]
    BY IdleType DEF SessionStates
  <2>2. [state |-> "live", proof |-> [password |-> 1, second |-> account.enabled, late |-> FALSE]]
          \in [state : SessionStates, proof : Proofs]
    BY <1>1, FirstPasswordAssumption DEF SessionStates, Proofs, Accounts
  <2> QED BY <2>1, <2>2 DEF Init
<1>3. link \in [LinkKinds -> LinkRecord]
  <2>1. NoLinks \in LinkRecord /\ [nonce |-> 1, drawn |-> 1, mailed |-> {1}, spent |-> {}] \in LinkRecord
    BY SessionBoundsAssumption DEF NoLinks, LinkRecord, Links
  <2> QED BY <2>1 DEF Init
<1>4. drawn \in [secret : 0..MaxSecrets, code : 0..MaxCodes, state : 0..MaxStates]
  <2>1. /\ account.secret \in 0..MaxSecrets /\ 0 \in 0..MaxStates /\ 0 \in 0..MaxCodes
        /\ CodeCount \in 0..MaxCodes
    BY <1>1, SessionBoundsAssumption DEF Accounts
  <2> QED BY <2>1 DEF Init
<1>5. /\ request \in [Requests -> RequestRecord] /\ \A q \in Requests : request[q] = Idle
      /\ started \in 0..MaxRequests /\ failures \in 0..MaxFailures
  BY IdleType, SessionBoundsAssumption DEF Init
<1>6. challenges \subseteq Proofs
  BY <1>1, IdleType DEF Init, Password, NoProof, Proofs, Accounts
<1>7. ~account.exists =>
        /\ account = Nobody /\ challenges = {} /\ \A t \in SessionIds : session[t].state = "none"
        /\ \A k \in LinkKinds : link[k].mailed = {}
  BY DEF Init, SomeUser, Nobody, NoLinks
<1>8. TypeOK
  BY <1>1, <1>2, <1>3, <1>4, <1>5, <1>6, <1>7 DEF Init, TypeOK
<1>9. Inputs /\ NobodyYet
  BY <1>5, <1>7, IdleType DEF Inputs, NobodyYet
<1> QED BY <1>8, <1>9 DEF BaseInv

(* ... and stay. *)
LEMMA NextBase == BaseInv /\ [Next]_vars => BaseInv'
<1> SUFFICES ASSUME BaseInv, [Next]_vars PROVE BaseInv'
  OBVIOUS
<1>1. CASE UNCHANGED vars
  BY <1>1 DEF vars, BaseInv, TypeOK, Inputs, InputOK, NobodyYet, Unregistered
<1>2. CASE Next
  <2>1. TypeOK' /\ Inputs'
    BY <1>2, SendType, LinkType, SignInType, TwoFactorType, GoogleType, OtherType
       DEF Next, BaseInv
  <2>2. NobodyYet'
    <3>1. CASE account.exists
      BY <1>2, <3>1, UserStays DEF NobodyYet
    <3>2. CASE ~account.exists
      <4>1. account'.exists \/ /\ UNCHANGED <<account, challenges, session>>
                               /\ \A q \in Requests : Unregistered(request'[q])
        BY <1>2, <3>2, NobodySteps
      <4> QED BY <3>2, <4>1 DEF BaseInv, NobodyYet, Unregistered
    <3> QED BY <3>1, <3>2
  <2> QED BY <2>1, <2>2 DEF BaseInv
<1> QED BY <1>1, <1>2

(* Every variable of the sign-in keeps its type, and as long as nobody has *)
(* registered there are no sessions, challenges or links.                  *)
THEOREM TypeCorrect == Spec => []TypeOK
<1>1. Spec => []BaseInv
  BY InitBase, NextBase, PTL DEF Spec
<1>2. BaseInv => TypeOK
  BY DEF BaseInv
<1> QED BY <1>1, <1>2, PTL

-----------------------------------------------------------------------------
(* Sessions rest on the account as it is                                   *)

(* What a login token proves, and what a session does. *)
Stands(proof) == proof.late \/ RevocationDue \/ proof.password = account.password
Entitled(proof) == proof.late \/ RevocationDue \/ UpToDate(proof)

(* A request that presents a login token, and one about to be admitted.    *)
Asserts(r) == r.op \in {"two-factor", "recovery"} /\ r.step = "read"
Carries(r) == \/ r.step \in {"issue", "rotate"}
              \/ r.op = "two-factor" /\ r.step = "seal"
              \/ r.op = "recovery" /\ r.step = "spend"
Refreshes(r) == r.op = "refresh" /\ r.step = "read"

ProofOK(q) ==
  /\ Asserts(request[q]) => Stands(request[q].proof)
  /\ Carries(request[q]) => Entitled(request[q].proof)
  /\ Refreshes(request[q]) => session[request[q].arg].state # "none"
SessionOK(t) == session[t].state = "live" => Entitled(session[t].proof)

EntitledInv ==
  /\ BaseInv
  /\ \A p \in challenges : Stands(p)
  /\ \A q \in Requests : ProofOK(q)
  /\ \A t \in SessionIds : SessionOK(t)

(* What a step of one request may do to the others' proofs. *)
OthersStay(q) == \A r \in Requests \ {q} : request'[r] = request[r]

LEMMA KeepProofs ==
  ASSUME NEW q \in Requests, request[q].step # "revoke", OthersStay(q), torn' = torn,
         account'.password = account.password, account'.enabled => account.enabled
  PROVE  \A p \in Proofs : (Stands(p) => Stands(p)') /\ (Entitled(p) => Entitled(p)')
<1>1. RevocationDue => RevocationDue'
  BY DEF RevocationDue, OthersStay
<1> QED BY <1>1 DEF Stands, Entitled, UpToDate

(* It is enough to look at the request that takes the step, and at what it *)
(* adds.                                                                   *)
LEMMA StepHolds ==
  ASSUME EntitledInv, BaseInv', NEW q \in Requests, OthersStay(q), ProofOK(q)',
         \A p \in Proofs : (Stands(p) => Stands(p)') /\ (Entitled(p) => Entitled(p)'),
         \A p \in challenges' : p \in challenges \/ Stands(p)',
         \A t \in SessionIds :
           \/ SessionOK(t)'
           \/ session[t].state = "live" /\ session'[t].proof = session[t].proof,
         \A t \in SessionIds : session'[t].state = "none" => session[t].state = "none"
  PROVE  EntitledInv'
<1>1. /\ challenges \subseteq Proofs /\ \A t \in SessionIds : session[t].proof \in Proofs
      /\ \A r \in Requests : request[r].proof \in Proofs
      /\ \A r \in Requests : Refreshes(request[r]) => request[r].arg \in SessionIds
  BY Fields DEF EntitledInv, BaseInv, TypeOK, Inputs, InputOK, Refreshes
<1>2. \A p \in challenges' : Stands(p)'
  BY <1>1 DEF EntitledInv
<1>3. ASSUME NEW r \in Requests \ {q}
      PROVE  ProofOK(r)'
  <2>1. ProofOK(r) /\ request'[r] = request[r] /\ request[r].proof \in Proofs
    BY <1>1, <1>3 DEF EntitledInv, OthersStay
  <2>2. Refreshes(request'[r]) => session'[request'[r].arg].state # "none"
    BY <1>1, <2>1 DEF ProofOK, Refreshes
  <2>3. /\ Stands(request[r].proof) => Stands(request[r].proof)'
        /\ Entitled(request[r].proof) => Entitled(request[r].proof)'
    <3> DEFINE p == request[r].proof
    <3>1. p \in Proofs /\ request'[r].proof = p
      BY <2>1
    <3>2. request[r].proof' = p
      BY <3>1
    <3> QED BY <2>1, <3>2 DEF Stands, Entitled, UpToDate
  <2> QED BY <2>1, <2>2, <2>3 DEF ProofOK, Asserts, Carries, Refreshes
<1>4. ASSUME NEW t \in SessionIds
      PROVE  SessionOK(t)'
  <2>1. CASE session[t].state = "live" /\ session'[t].proof = session[t].proof
    <3>1. Entitled(session[t].proof)
      BY <2>1 DEF EntitledInv, SessionOK
    <3>2. PICK p \in Proofs : p = session[t].proof
      BY <1>1
    <3>3. Entitled(p)'
      BY <3>1, <3>2
    <3> QED BY <2>1, <3>2, <3>3 DEF SessionOK, Entitled, UpToDate
  <2> QED BY <2>1
<1> QED BY <1>2, <1>3, <1>4 DEF EntitledInv

(* A step that changes no session, login token, password or second factor. *)
LEMMA QuietStep ==
  ASSUME EntitledInv, BaseInv', NEW q \in Requests, request[q].step # "revoke", OthersStay(q),
         UNCHANGED <<session, challenges, torn>>,
         account'.password = account.password, account'.enabled => account.enabled,
         ProofOK(q)'
  PROVE  EntitledInv'
<1>1. \A p \in Proofs : (Stands(p) => Stands(p)') /\ (Entitled(p) => Entitled(p)')
  BY KeepProofs
<1>2. \A t \in SessionIds :
        \/ SessionOK(t)'
        \/ session[t].state = "live" /\ session'[t].proof = session[t].proof
  BY DEF SessionOK
<1> QED BY <1>1, <1>2, StepHolds

(* A request at most of its steps has nothing to prove. *)
Silent(r) == ~Asserts(r) /\ ~Carries(r) /\ ~Refreshes(r)

LEMMA SilentOK ==
  ASSUME NEW q \in Requests, Silent(request'[q])
  PROVE  ProofOK(q)'
BY DEF Silent, ProofOK, Asserts, Carries, Refreshes

LEMMA DoneIs ==
  ASSUME TypeOK, NEW q \in Requests, Done(q)
  PROVE  OthersStay(q) /\ Silent(request'[q])
BY DEF Done, OthersStay, TypeOK, Idle, Silent, Asserts, Carries, Refreshes

LEMMA GotoIs ==
  ASSUME TypeOK, NEW q \in Requests, NEW step, Goto(q, step)
  PROVE  /\ OthersStay(q) /\ request'[q].step = step
         /\ request'[q].op = request[q].op /\ request'[q].arg = request[q].arg
         /\ request'[q].proof = request[q].proof
BY DEF Goto, OthersStay, TypeOK, RequestRecord

(* Whoever is admitted proves the password, and there is no second factor. *)
LEMMA AdmitHolds ==
  ASSUME EntitledInv, BaseInv', NEW q \in Requests, request[q].step # "revoke",
         UNCHANGED <<session, torn>>,
         account'.password = account.password, account'.enabled = account.enabled,
         Admit(q, account, Password(account))
  PROVE  EntitledInv'
<1>1. \A p \in Proofs : (Stands(p) => Stands(p)') /\ (Entitled(p) => Entitled(p)')
  <2>1. OthersStay(q)
    BY DEF Admit, Done, OthersStay, EntitledInv, BaseInv, TypeOK
  <2> QED BY <2>1, KeepProofs
<1> DEFINE p == Password(account)
<1>2. p.password = account.password
  BY DEF Password, NoProof
<1> HIDE DEF p
<1>3. CASE account.enabled
  <2>1. challenges' = challenges \cup {p} /\ Done(q)
    BY <1>3 DEF Admit, p
  <2>2. OthersStay(q) /\ ProofOK(q)'
    BY <2>1, DoneIs, SilentOK DEF EntitledInv, BaseInv
  <2>3. \A c \in challenges' : c \in challenges \/ Stands(c)'
    BY <1>2, <2>1 DEF Stands
  <2>4. \A t \in SessionIds :
          \/ SessionOK(t)'
          \/ session[t].state = "live" /\ session'[t].proof = session[t].proof
    BY DEF SessionOK
  <2> QED BY <1>1, <2>2, <2>3, <2>4, StepHolds
<1>4. CASE ~account.enabled
  <2>1. /\ request' = [request EXCEPT ![q].step = "issue", ![q].proof = p]
        /\ UNCHANGED challenges
    BY <1>4 DEF Admit, p
  <2>2. /\ OthersStay(q) /\ request'[q].step = "issue" /\ request'[q].proof = p
    BY <2>1 DEF OthersStay, EntitledInv, BaseInv, TypeOK, RequestRecord
  <2>3. ProofOK(q)'
    BY <1>2, <1>4, <2>2 DEF ProofOK, Asserts, Refreshes, Entitled, UpToDate
  <2> QED BY <1>4, <2>1, <2>2, <2>3, QuietStep
<1> QED BY <1>3, <1>4

(* A revocation that is due excuses every session. *)
LEMMA DueHolds ==
  ASSUME EntitledInv, BaseInv', NEW q \in Requests, OthersStay(q), RevocationDue',
         Silent(request'[q]), UNCHANGED <<session, challenges>>
  PROVE  EntitledInv'
<1>1. \A p : Stands(p)' /\ Entitled(p)'
  BY DEF Stands, Entitled
<1>2. /\ \A p \in challenges' : Stands(p)'
      /\ \A t \in SessionIds : SessionOK(t)'
  BY <1>1 DEF SessionOK, Entitled
<1>3. \A p \in Proofs : (Stands(p) => Stands(p)') /\ (Entitled(p) => Entitled(p)')
  BY <1>1
<1> QED BY <1>2, <1>3, SilentOK, StepHolds

(* Requests are sent with login tokens and refresh tokens that were issued. *)
LEMMA SendHolds ==
  ASSUME EntitledInv, BaseInv', NEW q \in Requests, SendRequest(q)
  PROVE  EntitledInv'
<1>1. ASSUME NEW op, NEW arg, NEW choice, NEW proof \in Proofs, Begin(q, op, arg, choice, proof),
             op \in {"two-factor", "recovery"} => Stands(proof),
             op = "refresh" => session[arg].state # "none"
      PROVE  EntitledInv'
  <2>1. /\ OthersStay(q) /\ request'[q].op = op /\ request'[q].step = FirstStep(op)
        /\ request'[q].arg = arg /\ request'[q].proof = proof
        /\ UNCHANGED <<account, session, challenges, torn>> /\ request[q].step = "idle"
    BY <1>1 DEF Begin, Idling, OthersStay, history, EntitledInv, BaseInv, TypeOK
  <2>2. Stands(proof) => Stands(proof)'
    BY <2>1, KeepProofs
  <2>3. ~Carries(request'[q])
    BY <2>1 DEF Carries, FirstStep
  <2>4. Stands(request[q].proof)' <=> Stands(proof)'
    BY <2>1 DEF Stands
  <2>5. ProofOK(q)'
    BY <1>1, <2>1, <2>2, <2>3, <2>4 DEF ProofOK, Asserts, Refreshes
  <2> QED BY <2>1, <2>5, QuietStep
<1>2. NoProof \in Proofs /\ challenges \subseteq Proofs /\ \A p \in challenges : Stands(p)
  BY IdleType DEF EntitledInv, BaseInv, TypeOK
<1>3. CASE SendTwoFactor(q) \/ SendRecovery(q)
  BY <1>1, <1>2, <1>3 DEF SendTwoFactor, SendRecovery
<1>4. CASE SendRefresh(q)
  BY <1>1, <1>2, <1>4 DEF SendRefresh, Send, Issued
<1>5. ASSUME NEW op \in Ops \ {"two-factor", "recovery", "refresh"}, NEW arg, NEW choice,
             Send(q, op, arg, choice)
      PROVE  EntitledInv'
  BY <1>1, <1>2, <1>5 DEF Send
<1> QED BY <1>3, <1>4, <1>5 DEF SendRequest, SendRegister, SendVerify, SendResend, SendLogin,
           SendLogout, SendSetup, SendEnable, SendDisable, SendForgot, SendReset, SendGoogle, Ops

(* Registration, mailed links and passwords. *)
LEMMA LinkHolds ==
  ASSUME EntitledInv, BaseInv', NEW q \in Requests, LinkStep(q)
  PROVE  EntitledInv'
<1> USE DEF EntitledInv, BaseInv
<1>1. account \in Accounts /\ InputOK(request[q]) /\ request[q].op \in Ops
  BY Fields DEF TypeOK, Inputs
<1>2. ASSUME Done(q), request[q].step # "revoke", UNCHANGED <<session, challenges, torn>>,
             account'.password = account.password, account'.enabled = account.enabled
      PROVE  EntitledInv'
  <2>1. OthersStay(q) /\ ProofOK(q)'
    BY <1>2, DoneIs, SilentOK
  <2> QED BY <1>2, <2>1, QuietStep
<1>3. ASSUME NEW step \in Steps \ {"issue", "rotate", "seal", "spend"}, Goto(q, step),
             request[q].step # "revoke", UNCHANGED <<session, challenges, torn>>,
             step = "read" => request[q].op \notin {"two-factor", "recovery", "refresh"},
             account'.password = account.password, account'.enabled = account.enabled
      PROVE  EntitledInv'
  <2>1. OthersStay(q) /\ request'[q].step = step /\ request'[q].op = request[q].op
    BY <1>3, GotoIs
  <2>2. ProofOK(q)'
    BY <1>3, <2>1, SilentOK DEF Silent, Asserts, Carries, Refreshes
  <2> QED BY <1>3, <2>1, <2>2, QuietStep
<1>4. CASE ReadUnregistered(q)
  BY <1>2, <1>3, <1>4 DEF ReadUnregistered, AtStep, RequestOnly, Steps
<1>5. CASE CreateUser(q) /\ account.exists
  BY <1>2, <1>5 DEF CreateUser, AtStep, AccountOnly
<1>6. CASE CreateUser(q) /\ ~account.exists
  <2>1. /\ Goto(q, "nonce") /\ UNCHANGED <<session, challenges, torn>>
        /\ account' = [Nobody EXCEPT !.exists = TRUE, !.password = request[q].arg]
        /\ request[q].step # "revoke"
    BY <1>6 DEF CreateUser, AtStep, AccountOnly
  <2>2. challenges = {} /\ (\A t \in SessionIds : session[t].state = "none")
        /\ \A r \in Requests : Unregistered(request[r])
    BY <1>6 DEF NobodyYet
  <2>3. OthersStay(q) /\ Silent(request'[q])
    BY <2>1, GotoIs DEF Silent, Asserts, Carries, Refreshes
  <2>4. ASSUME NEW r \in Requests
        PROVE  ProofOK(r)'
    <3>1. CASE r = q
      BY <2>3, <3>1, SilentOK
    <3>2. CASE r # q
      <4>1. Silent(request'[r])
        BY <2>2, <2>3, <3>2 DEF OthersStay, Unregistered, Silent, Asserts, Carries, Refreshes
      <4> QED BY <4>1, SilentOK
    <3> QED BY <3>1, <3>2
  <2>5. \A t \in SessionIds : SessionOK(t)'
    BY <2>1, <2>2 DEF SessionOK
  <2> QED BY <2>1, <2>2, <2>4, <2>5
<1>7. CASE ReadAddressee(q)
  BY <1>2, <1>3, <1>7 DEF ReadAddressee, RequestOnly, Steps
<1>8. CASE StoreNonce(q)
  <2>1. /\ OthersStay(q) /\ request'[q].step = "mail"
    BY <1>8 DEF StoreNonce, OthersStay, TypeOK, RequestRecord
  <2>2. ProofOK(q)'
    BY <2>1, SilentOK DEF Silent, Asserts, Carries, Refreshes
  <2> QED BY <1>8, <2>1, <2>2, QuietStep DEF StoreNonce, RedisOnly
<1>9. CASE SendMail(q) \/ MailLost(q)
  BY <1>2, <1>9 DEF SendMail, MailLost, RedisOnly, RequestOnly
<1>10. CASE CheckSpent(q) \/ CompareNonce(q)
  <2>1. request[q].op \in {"verify", "reset"}
    BY <1>1, <1>10 DEF CheckSpent, CompareNonce, InputOK
  <2> QED BY <1>2, <1>3, <1>10, <2>1 DEF CheckSpent, CompareNonce, RedisOnly, RequestOnly, Steps
<1>11. CASE ReadLinkOwner(q)
  BY <1>2, <1>3, <1>11 DEF ReadLinkOwner, RequestOnly, Steps
<1>12. CASE WriteVerified(q)
  <2>1. account'.password = account.password /\ account'.enabled = account.enabled
    BY <1>1, <1>12 DEF WriteVerified, Accounts
  <2> QED BY <1>3, <1>12, <2>1 DEF WriteVerified, AtStep, AccountOnly, Steps
<1>13. CASE WritePassword(q)
  <2>1. OthersStay(q) /\ request'[q].step = "revoke" /\ request'[q].op = "reset"
    BY <1>13, GotoIs DEF WritePassword, AtStep
  <2>2. RevocationDue' /\ Silent(request'[q])
    BY <2>1 DEF RevocationDue, Silent, Asserts, Carries, Refreshes
  <2> QED BY <1>13, <2>1, <2>2, DueHolds DEF WritePassword, AccountOnly
<1>14. CASE ForgetNonce(q) \/ DenyLink(q)
  BY <1>2, <1>3, <1>14 DEF ForgetNonce, DenyLink, RedisOnly, Steps
<1> QED BY <1>4, <1>5, <1>6, <1>7, <1>8, <1>9, <1>10, <1>11, <1>12, <1>13, <1>14 DEF LinkStep

(* Sessions and their tokens. *)
LEMMA SignInHolds ==
  ASSUME EntitledInv, BaseInv', NEW q \in Requests, SignInStep(q)
  PROVE  EntitledInv'
<1> USE DEF EntitledInv, BaseInv
<1>1. /\ account \in Accounts /\ InputOK(request[q]) /\ request[q] \in RequestRecord /\ ProofOK(q)
      /\ \A t \in SessionIds : SessionOK(t) /\ session[t].state \in SessionStates
  BY Fields DEF TypeOK, Inputs
<1>2. CASE Login(q)
  <2>1. CASE Admit(q, account, Password(account))
    BY <1>2, <2>1, AdmitHolds DEF Login, AtStep
  <2>2. CASE Done(q) /\ UNCHANGED challenges
    <3>1. OthersStay(q) /\ ProofOK(q)'
      BY <2>2, DoneIs, SilentOK
    <3> QED BY <1>2, <2>2, <3>1, QuietStep DEF Login, AtStep
  <2> QED BY <1>2, <2>1, <2>2 DEF Login
<1>3. ASSUME SessionOnly, UNCHANGED torn, request[q].step # "revoke", OthersStay(q)
      PROVE  \A p \in Proofs : (Stands(p) => Stands(p)') /\ (Entitled(p) => Entitled(p)')
  BY <1>3, KeepProofs DEF SessionOnly
<1>4. CASE IssueTokens(q)
  <2>1. PICK t \in SessionIds \ Issued :
          session' = [session EXCEPT ![t] = [state |-> "live", proof |-> request[q].proof]]
    BY <1>4 DEF IssueTokens
  <2>2. OthersStay(q) /\ ProofOK(q)'
    BY <1>4, DoneIs, SilentOK DEF IssueTokens
  <2>3. \A p \in Proofs : (Stands(p) => Stands(p)') /\ (Entitled(p) => Entitled(p)')
    BY <1>3, <1>4, <2>2 DEF IssueTokens
  <2>4. PICK p \in Proofs : p = request[q].proof
    BY Fields
  <2>5. Entitled(p)'
    BY <1>1, <1>4, <2>3, <2>4 DEF IssueTokens, ProofOK, Carries
  <2>6. session'[t].state = "live" /\ session'[t].proof = p
        /\ \A u \in SessionIds \ {t} : session'[u] = session[u]
    BY <2>1, <2>4 DEF TypeOK
  <2>7. ASSUME NEW u \in SessionIds
        PROVE  \/ SessionOK(u)'
               \/ session[u].state = "live" /\ session'[u].proof = session[u].proof
    <3>1. CASE u = t
      BY <2>5, <2>6, <3>1 DEF SessionOK, Entitled, UpToDate
    <3>2. CASE u # t
      BY <2>6, <3>2 DEF SessionOK
    <3> QED BY <3>1, <3>2
  <2>8. \A u \in SessionIds : session'[u].state = "none" => session[u].state = "none"
    BY <2>6
  <2> QED BY <1>4, <2>2, <2>3, <2>7, <2>8, StepHolds DEF IssueTokens, SessionOnly
<1>5. CASE ReadSession(q)
  <2>1. request[q].op = "refresh" /\ request[q].arg \in SessionIds /\ request[q].step = "read"
    BY <1>1, <1>5 DEF ReadSession, AtStep, InputOK
  <2>2. CASE session[request[q].arg].state = "revoked"
    <3>1. Goto(q, "revoke")
      BY <1>5, <2>2 DEF ReadSession
    <3>2. OthersStay(q) /\ Silent(request'[q])
      BY <2>1, <3>1, GotoIs DEF Silent, Asserts, Carries, Refreshes
    <3> QED BY <1>5, <2>1, <3>2, SilentOK, QuietStep DEF ReadSession, SessionOnly
  <2>3. CASE session[request[q].arg].state # "revoked"
    <3> DEFINE p == session[request[q].arg].proof
    <3>1. request' = [request EXCEPT ![q].step = "rotate", ![q].proof = p]
      BY <1>5, <2>3 DEF ReadSession
    <3>2. Entitled(p) /\ p \in Proofs
      BY <1>1, <2>1, <2>3, Fields DEF ProofOK, Refreshes, SessionOK, SessionStates
    <3> HIDE DEF p
    <3>3. /\ OthersStay(q) /\ request'[q].step = "rotate" /\ request'[q].proof = p
          /\ request'[q].op = "refresh"
      BY <1>1, <2>1, <3>1 DEF OthersStay, TypeOK, RequestRecord
    <3>4. PICK c \in Proofs : c = p
      BY <3>2
    <3>5. \A d \in Proofs : (Stands(d) => Stands(d)') /\ (Entitled(d) => Entitled(d)')
      BY <1>3, <1>5, <2>1, <3>3 DEF ReadSession
    <3>6. Entitled(c)' /\ request'[q].proof = c
      BY <3>2, <3>3, <3>4, <3>5
    <3>7. ProofOK(q)'
      BY <3>3, <3>6 DEF ProofOK, Asserts, Refreshes, Entitled, UpToDate
    <3> QED BY <1>5, <2>1, <3>3, <3>7, QuietStep DEF ReadSession, SessionOnly
  <2> QED BY <2>2, <2>3
<1>6. CASE Rotate(q)
  <2>1. /\ request[q].op = "refresh" /\ request[q].arg \in SessionIds
        /\ request[q].step = "rotate" /\ Entitled(request[q].proof)
    BY <1>1, <1>6 DEF Rotate, AtStep, InputOK, ProofOK, Carries
  <2>2. /\ OthersStay(q) /\ request'[q].step = "issue" /\ request'[q].op = "refresh"
        /\ request'[q].proof = request[q].proof
    BY <1>6, <2>1, GotoIs DEF Rotate
  <2>3. \A p \in Proofs : (Stands(p) => Stands(p)') /\ (Entitled(p) => Entitled(p)')
    BY <1>3, <1>6, <2>1, <2>2 DEF Rotate
  <2>4. PICK p \in Proofs : p = request[q].proof
    BY Fields
  <2>5. Entitled(p)' /\ request'[q].proof = p
    BY <2>1, <2>2, <2>3, <2>4
  <2>6. ProofOK(q)'
    BY <2>2, <2>5 DEF ProofOK, Asserts, Refreshes, Entitled, UpToDate
  <2>7. \A t \in SessionIds : /\ session'[t].proof = session[t].proof
                              /\ session'[t].state \in {session[t].state, "revoked"}
    BY <1>6, <2>1 DEF Rotate, TypeOK
  <2>8. \A t \in SessionIds :
          \/ SessionOK(t)'
          \/ session[t].state = "live" /\ session'[t].proof = session[t].proof
    BY <2>7 DEF SessionOK
  <2>9. \A t \in SessionIds : session'[t].state = "none" => session[t].state = "none"
    BY <2>7
  <2> QED BY <1>6, <2>2, <2>3, <2>6, <2>8, <2>9, StepHolds DEF Rotate, SessionOnly
<1>7. CASE DenyAccess(q)
  <2>1. OthersStay(q) /\ Silent(request'[q])
    BY <1>7, GotoIs DEF DenyAccess, AtStep, Silent, Asserts, Carries, Refreshes
  <2> QED BY <1>7, <2>1, SilentOK, QuietStep DEF DenyAccess, AtStep, RedisOnly
<1>8. CASE RevokeAll(q)
  <2>1. \A p \in Proofs : Late(p).late
    BY DEF Late, Proofs
  <2>2. \A p \in challenges' : Stands(p)'
    BY <1>8, <2>1 DEF RevokeAll, Stands, TypeOK
  <2>3. ASSUME NEW r \in Requests
        PROVE  ProofOK(r)'
    <3>1. request[r] \in RequestRecord /\ request[r].proof \in Proofs
      BY Fields
    <3>2. CASE Silent(request'[r])
      BY <3>2, SilentOK
    <3>3. CASE request'[r] = [request[r] EXCEPT !.proof = Late(@)]
      <4>1. request'[r].proof.late
        BY <2>1, <3>1, <3>3 DEF RequestRecord
      <4>2. request'[r].op = request[r].op /\ request'[r].step = request[r].step
            /\ request'[r].arg = request[r].arg
        BY <3>1, <3>3 DEF RequestRecord
      <4>3. Refreshes(request'[r]) => session'[request'[r].arg].state # "none"
        <5> SUFFICES ASSUME Refreshes(request'[r])
                     PROVE  session'[request'[r].arg].state # "none"
          OBVIOUS
        <5>1. Refreshes(request[r]) /\ request[r].arg \in SessionIds
          BY <4>2 DEF Refreshes, Inputs, InputOK
        <5>2. session[request[r].arg].state # "none"
          BY <5>1 DEF ProofOK
        <5> QED BY <1>8, <4>2, <5>1, <5>2 DEF RevokeAll, TypeOK
      <4> QED BY <4>1, <4>3 DEF ProofOK, Stands, Entitled
    <3>4. \/ request'[r] = Idle
          \/ request'[r] = request[r] /\ request[r].step = "idle"
          \/ request'[r] = [request[r] EXCEPT !.step = "forget"]
          \/ request'[r] = [request[r] EXCEPT !.proof = Late(@)]
      BY <1>8 DEF RevokeAll, Idling
    <3>5. \/ Silent(request'[r]) \/ request'[r] = [request[r] EXCEPT !.proof = Late(@)]
      BY <3>1, <3>4 DEF Idle, Silent, Asserts, Carries, Refreshes, RequestRecord
    <3> QED BY <3>2, <3>3, <3>5
  <2>4. \A t \in SessionIds : session'[t].state # "live"
    BY <1>8 DEF RevokeAll, TypeOK
  <2> QED BY <2>2, <2>3, <2>4 DEF SessionOK
<1> QED BY <1>2, <1>4, <1>5, <1>6, <1>7, <1>8 DEF SignInStep

(* The second factor: who passes it proves both. *)
LEMMA TwoFactorHolds ==
  ASSUME EntitledInv, BaseInv', NEW q \in Requests, TwoFactorStep(q)
  PROVE  EntitledInv'
<1> USE DEF EntitledInv, BaseInv
<1>1. /\ account \in Accounts /\ InputOK(request[q]) /\ request[q] \in RequestRecord /\ ProofOK(q)
      /\ request[q].proof \in Proofs
  BY Fields DEF TypeOK, Inputs
<1>2. ASSUME OthersStay(q), Silent(request'[q]), request[q].step # "revoke",
             UNCHANGED <<session, challenges, torn>>,
             account'.password = account.password, account'.enabled = account.enabled
      PROVE  EntitledInv'
  BY <1>2, SilentOK, QuietStep
<1>3. ASSUME OthersStay(q), request'[q].step \in {"issue", "seal", "spend"},
             request'[q].op \in {"two-factor", "recovery"}, request[q].step # "revoke",
             UNCHANGED <<session, challenges, torn>>,
             account'.password = account.password, account'.enabled = account.enabled,
             NEW p \in Proofs, request'[q].proof = p, Entitled(p)
      PROVE  EntitledInv'
  <2>1. Entitled(p)'
    BY <1>3, KeepProofs
  <2>2. ProofOK(q)'
    BY <1>3, <2>1 DEF ProofOK, Asserts, Refreshes, Entitled, UpToDate
  <2> QED BY <1>3, <2>2, QuietStep
<1>4. /\ Second(request[q].proof) \in Proofs
      /\ Stands(request[q].proof) => Entitled(Second(request[q].proof))
  BY <1>1 DEF Second, Proofs, Stands, Entitled, UpToDate
<1>5. CASE VerifyTwoFactor(q)
  <2>1. request[q].op = "two-factor" /\ request[q].step = "read" /\ Stands(request[q].proof)
    BY <1>1, <1>5 DEF VerifyTwoFactor, AtStep, ProofOK, Asserts
  <2>2. CASE Done(q)
    BY <1>2, <1>5, <2>1, <2>2, DoneIs DEF VerifyTwoFactor, RequestOnly
  <2>3. ASSUME NEW step \in {"issue", "seal"},
               request' = [request EXCEPT ![q].step = step, ![q].proof = Second(@)]
        PROVE  EntitledInv'
    <3>1. /\ OthersStay(q) /\ request'[q].step = step /\ request'[q].op = "two-factor"
          /\ request'[q].proof = Second(request[q].proof)
      BY <1>1, <2>1, <2>3 DEF OthersStay, TypeOK, RequestRecord
    <3>2. PICK p \in Proofs : p = Second(request[q].proof)
      BY <1>4
    <3>3. Entitled(p) /\ request'[q].proof = p
      BY <1>4, <2>1, <3>1, <3>2
    <3> QED BY <1>3, <1>5, <2>1, <3>1, <3>3 DEF VerifyTwoFactor, RequestOnly
  <2> QED BY <1>5, <2>2, <2>3 DEF VerifyTwoFactor
<1>6. CASE SealSecret(q) \/ SpendCode(q)
  <2>1. /\ request[q].op \in {"two-factor", "recovery"} /\ request[q].step # "revoke"
        /\ Entitled(request[q].proof) /\ Goto(q, "issue")
    BY <1>1, <1>6 DEF SealSecret, SpendCode, AtStep, ProofOK, Carries
  <2>2. /\ OthersStay(q) /\ request'[q].step = "issue" /\ request'[q].op = request[q].op
        /\ request'[q].proof = request[q].proof
    BY <2>1, GotoIs
  <2>3. account'.password = account.password /\ account'.enabled = account.enabled
    BY <1>1, <1>6 DEF SealSecret, SpendCode, Accounts
  <2>4. PICK p \in Proofs : p = request[q].proof
    BY <1>1
  <2>5. Entitled(p) /\ request'[q].proof = p
    BY <2>1, <2>2, <2>4
  <2> QED BY <1>3, <1>6, <2>1, <2>2, <2>3, <2>5 DEF SealSecret, SpendCode, AccountOnly
<1>7. CASE ReadCodes(q)
  <2>1. request[q].op = "recovery" /\ request[q].step = "read" /\ Stands(request[q].proof)
    BY <1>1, <1>7 DEF ReadCodes, AtStep, ProofOK, Asserts
  <2>2. CASE Done(q)
    BY <1>2, <1>7, <2>1, <2>2, DoneIs DEF ReadCodes, SessionOnly
  <2>3. ASSUME NEW codes,
               request' = [request EXCEPT ![q].step = "spend", ![q].proof = Second(@),
                                          ![q].codes = codes]
        PROVE  EntitledInv'
    <3>1. /\ OthersStay(q) /\ request'[q].step = "spend" /\ request'[q].op = "recovery"
          /\ request'[q].proof = Second(request[q].proof)
      BY <1>1, <2>1, <2>3 DEF OthersStay, TypeOK, RequestRecord
    <3>2. PICK p \in Proofs : p = Second(request[q].proof)
      BY <1>4
    <3>3. Entitled(p) /\ request'[q].proof = p
      BY <1>4, <2>1, <3>1, <3>2
    <3> QED BY <1>3, <1>7, <2>1, <3>1, <3>3 DEF ReadCodes, SessionOnly
  <2> QED BY <1>7, <2>2, <2>3 DEF ReadCodes
<1>8. CASE ReadSetup(q) \/ ReadTwoFactor(q)
  <2>1. request[q].op \in {"setup", "enable", "disable"} /\ request[q].step = "read"
    BY <1>8 DEF ReadSetup, ReadTwoFactor, AtStep
  <2>2. Done(q) \/ Goto(q, "write") \/ Goto(q, "seal")
    BY <1>8 DEF ReadSetup, ReadTwoFactor
  <2>3. OthersStay(q) /\ Silent(request'[q])
    BY <2>1, <2>2, DoneIs, GotoIs DEF Silent, Asserts, Carries, Refreshes
  <2> QED BY <1>2, <1>8, <2>1, <2>3 DEF ReadSetup, ReadTwoFactor, RequestOnly
<1>9. CASE WriteSecret(q)
  <2>1. account'.password = account.password /\ account'.enabled = account.enabled
    BY <1>1, <1>9 DEF WriteSecret, Accounts
  <2> QED BY <1>2, <1>9, <2>1, DoneIs DEF WriteSecret, AtStep, AccountOnly
<1>10. CASE WriteEnabled(q)
  <2>1. OthersStay(q) /\ request'[q].step = "revoke" /\ request'[q].op = "enable"
    BY <1>10, GotoIs DEF WriteEnabled
  <2>2. RevocationDue' /\ Silent(request'[q])
    BY <2>1 DEF RevocationDue, Silent, Asserts, Carries, Refreshes
  <2> QED BY <1>10, <2>1, <2>2, DueHolds DEF WriteEnabled, AccountOnly
<1>11. CASE WriteDisabled(q)
  <2>1. account'.password = account.password /\ ~account'.enabled
    BY <1>1, <1>11 DEF WriteDisabled, Accounts
  <2>2. OthersStay(q) /\ Silent(request'[q])
    BY <1>11, GotoIs DEF WriteDisabled, AtStep, Silent, Asserts, Carries, Refreshes
  <2> QED BY <1>11, <2>1, <2>2, SilentOK, QuietStep DEF WriteDisabled, AtStep, AccountOnly
<1> QED BY <1>5, <1>6, <1>7, <1>8, <1>9, <1>10, <1>11 DEF TwoFactorStep

(* Signing in with Google. *)
LEMMA GoogleHolds ==
  ASSUME EntitledInv, BaseInv', NEW q \in Requests, GoogleStep(q)
  PROVE  EntitledInv'
<1> USE DEF EntitledInv, BaseInv
<1>1. account \in Accounts /\ request[q] \in RequestRecord
  BY Fields DEF TypeOK
<1>2. request[q].op = "google" /\ request[q].step # "revoke"
  BY DEF GoogleStep, GetState, StateUnknown, DeleteState, GoogleRefuses, FindGoogleUser,
         LinkGoogle, CreateGoogleUser, AtStep
<1>3. ASSUME OthersStay(q), Silent(request'[q]), UNCHANGED <<account, session, challenges, torn>>
      PROVE  EntitledInv'
  BY <1>2, <1>3, SilentOK, QuietStep
<1>4. CASE GetState(q) \/ DeleteState(q)
  <2>1. OthersStay(q) /\ Silent(request'[q])
    BY <1>2, <1>4, GotoIs DEF GetState, DeleteState, Silent, Asserts, Carries, Refreshes
  <2> QED BY <1>3, <1>4, <2>1 DEF GetState, DeleteState, SessionOnly, RedisOnly
<1>5. CASE StateUnknown(q) \/ GoogleRefuses(q)
  BY <1>3, <1>5, DoneIs DEF StateUnknown, GoogleRefuses, RequestOnly
<1>6. CASE FindGoogleUser(q)
  <2>1. CASE Admit(q, account, Password(account))
    BY <1>2, <1>6, <2>1, AdmitHolds DEF FindGoogleUser
  <2>2. CASE ~Admit(q, account, Password(account))
    <3>1. PICK step \in {"link", "create"}, choice \in Nat :
            request' = [request EXCEPT ![q].step = step, ![q].choice = choice]
      BY <1>1, <1>6, <2>2 DEF FindGoogleUser, RequestRecord
    <3>2. OthersStay(q) /\ Silent(request'[q])
      BY <1>1, <1>2, <3>1 DEF OthersStay, TypeOK, RequestRecord, Silent, Asserts, Carries, Refreshes
    <3> QED BY <1>3, <1>6, <2>2, <3>2 DEF FindGoogleUser
  <2> QED BY <2>1, <2>2
<1>7. CASE LinkGoogle(q)
  <2>1. account'.password = account.password /\ account'.enabled = account.enabled
    BY <1>1, <1>7 DEF LinkGoogle, Linked, Accounts
  <2> QED BY <1>2, <1>7, <2>1, AdmitHolds DEF LinkGoogle
<1>8. CASE CreateGoogleUser(q) /\ account.exists
  BY <1>3, <1>8, DoneIs DEF CreateGoogleUser, AccountOnly
<1>9. CASE CreateGoogleUser(q) /\ ~account.exists
  <2>1. /\ account' = Linked(q, [Nobody EXCEPT !.exists = TRUE])
        /\ request' = [request EXCEPT ![q].step = "issue", ![q].proof = NoProof]
        /\ UNCHANGED <<session, challenges, torn>>
    BY <1>9 DEF CreateGoogleUser, AccountOnly
  <2>2. account = Nobody /\ account'.password = 0 /\ ~account'.enabled
    BY <1>9, <2>1 DEF NobodyYet, Linked, Nobody
  <2>3. account'.password = account.password /\ (account'.enabled => account.enabled)
    BY <2>2 DEF Nobody
  <2>4. OthersStay(q) /\ request'[q].step = "issue" /\ request'[q].proof = NoProof
    BY <1>1, <2>1 DEF OthersStay, TypeOK, RequestRecord
  <2>5. NoProof.password = 0
    BY DEF NoProof
  <2>6. ProofOK(q)'
    BY <2>2, <2>4, <2>5 DEF ProofOK, Asserts, Refreshes, Entitled, UpToDate
  <2> QED BY <1>2, <2>1, <2>3, <2>4, <2>6, QuietStep
<1> QED BY <1>4, <1>5, <1>6, <1>7, <1>8, <1>9 DEF GoogleStep

(* Consent pages, the guard of protected routes, requests cut short. *)
LEMMA OtherHolds ==
  ASSUME EntitledInv, BaseInv', OpenConsent \/ \E q \in Requests : Authenticate(q) \/ Abort(q)
  PROVE  EntitledInv'
<1> USE DEF EntitledInv, BaseInv
<1>1. CASE OpenConsent
  BY <1>1 DEF OpenConsent, history, ProofOK, SessionOK, Stands, Entitled, UpToDate, RevocationDue,
              Asserts, Carries, Refreshes
<1>2. ASSUME NEW q \in Requests, Authenticate(q)
      PROVE  EntitledInv'
  <2>1. request[q].op \in Protected /\ request[q].step = "guard"
    BY <1>2 DEF Authenticate, Inputs, InputOK
  <2>2. Done(q) \/ Goto(q, "deny") \/ Goto(q, "read")
    BY <1>2 DEF Authenticate
  <2>3. OthersStay(q) /\ Silent(request'[q])
    BY <2>1, <2>2, DoneIs, GotoIs DEF Protected, Silent, Asserts, Carries, Refreshes
  <2> QED BY <1>2, <2>1, <2>3, SilentOK, QuietStep DEF Authenticate, RequestOnly
<1>3. ASSUME NEW q \in Requests, Abort(q)
      PROVE  EntitledInv'
  <2>1. OthersStay(q) /\ Silent(request'[q]) /\ UNCHANGED <<account, session, challenges>>
    BY <1>3, DoneIs DEF Abort
  <2>2. CASE request[q].op \in {"reset", "enable"} /\ request[q].step = "revoke"
    <3>1. RevocationDue'
      BY <1>3, <2>2 DEF Abort, RevocationDue
    <3> QED BY <2>1, <3>1, DueHolds
  <2>3. CASE ~(request[q].op \in {"reset", "enable"} /\ request[q].step = "revoke")
    <3>1. RevocationDue => RevocationDue'
      BY <1>3, <2>1, <2>3 DEF Abort, RevocationDue, OthersStay
    <3>2. \A p \in Proofs : (Stands(p) => Stands(p)') /\ (Entitled(p) => Entitled(p)')
      BY <2>1, <3>1 DEF Stands, Entitled, UpToDate
    <3>3. \A t \in SessionIds :
            \/ SessionOK(t)'
            \/ session[t].state = "live" /\ session'[t].proof = session[t].proof
      BY <2>1 DEF SessionOK
    <3> QED BY <2>1, <3>2, <3>3, SilentOK, StepHolds
  <2> QED BY <2>2, <2>3
<1> QED BY <1>1, <1>2, <1>3

(* A live refresh token rests on the current password, and on the second   *)
(* factor when one is enabled, unless a revocation is due or was cut short *)
(* or the sign-in overlapped one (SessionsAreEntitled).                    *)
THEOREM Entitlement == Spec => []SessionsAreEntitled
<1>1. Init => EntitledInv
  <2> SUFFICES ASSUME Init PROVE EntitledInv
    OBVIOUS
  <2>1. BaseInv /\ \A q \in Requests : request[q] = Idle
    BY InitBase DEF Init
  <2>2. \A p \in challenges : p.password = account.password
    BY DEF Init, Password, NoProof
  <2>3. \A q \in Requests : ProofOK(q)
    BY <2>1 DEF ProofOK, Idle, Asserts, Carries, Refreshes
  <2>4. ASSUME NEW t \in SessionIds, session[t].state = "live"
        PROVE  UpToDate(session[t].proof)
    <3>1. account.exists /\ t = 1
      BY <2>4 DEF Init
    <3>2. account.password = 1
      BY <3>1 DEF Init, Nobody, SomeUser
    <3>3. session[t].proof = [password |-> 1, second |-> account.enabled, late |-> FALSE]
      BY <3>1 DEF Init
    <3> QED BY <3>2, <3>3 DEF UpToDate
  <2> QED BY <2>1, <2>2, <2>3, <2>4 DEF EntitledInv, Stands, SessionOK, Entitled
<1>2. EntitledInv /\ [Next]_vars => EntitledInv'
  <2> SUFFICES ASSUME EntitledInv, [Next]_vars PROVE EntitledInv'
    OBVIOUS
  <2>1. BaseInv'
    BY NextBase DEF EntitledInv
  <2>2. CASE UNCHANGED vars
    BY <2>1, <2>2 DEF vars, EntitledInv, ProofOK, SessionOK, Stands, Entitled, UpToDate,
                      RevocationDue, Asserts, Carries, Refreshes
  <2>3. CASE Next
    BY <2>1, <2>3, SendHolds, LinkHolds, SignInHolds, TwoFactorHolds, GoogleHolds, OtherHolds
       DEF Next
  <2> QED BY <2>2, <2>3
<1>3. EntitledInv => SessionsAreEntitled
  BY DEF EntitledInv, SessionOK, Entitled, SessionsAreEntitled
<1> QED BY <1>1, <1>2, <1>3, PTL DEF Spec

-----------------------------------------------------------------------------
(* What works once                                                         *)

(* A request has found what it presents to be good, and not used it yet. *)
Holds(r) == \/ r.op \in {"verify", "reset"} /\ r.step \in {"read", "write"}
            \/ r.op = "refresh" /\ r.step = "rotate"
            \/ r.op \in {"recovery", "google"} /\ r.step = "spend"

HoldsCodes(r) == Holds(r) /\ r.op = "recovery"

(* What is presented, written and stored was issued before. *)
Drawn(r) == /\ r.op \in {"verify", "reset"} => r.arg \in 1..link[r.op].drawn
            /\ r.op = "google" => r.arg \in 1..drawn.state
            /\ r.op = "recovery" => r.arg \in 1..drawn.code /\ r.codes \subseteq 1..drawn.code
            /\ r.step = "mail" =>
                 r.arg \in 1..link[IF r.op \in {"forgot", "reset"} THEN "reset" ELSE "verify"].drawn
AllDrawn ==
  /\ states \subseteq 1..drawn.state /\ account.codes \subseteq 1..drawn.code
  /\ \A k \in LinkKinds : link[k].nonce \in 0..link[k].drawn /\ link[k].mailed \subseteq 1..link[k].drawn
  /\ \A q \in Requests : Drawn(request[q])
  /\ \A n \in Nat :
       /\ \A k \in LinkKinds : <<k, n>> \in used => n \in 1..link[k].drawn
       /\ <<"google", n>> \in used => n \in 1..drawn.state
       /\ <<"recovery", n>> \in used => n \in 1..drawn.code
       /\ <<"refresh", n>> \in used => n \in SessionIds

(* What was used is of no use any more, but for what is excused. *)
Useless(k, n) ==
  /\ k = "refresh" => session[n].state = "revoked"
  /\ k = "google" => n \notin states
  /\ k = "recovery" => /\ n \notin account.codes
                       /\ \A q \in Requests : HoldsCodes(request[q]) => n \notin request[q].codes
  /\ k \in LinkKinds => \/ link[k].nonce # n
                        \/ \E q \in Requests :
                             request[q].op = k /\ request[q].arg = n /\ Spending(request[q])
UsedUp == \A k \in {"verify", "reset", "recovery", "refresh", "google"}, n \in Nat :
            <<k, n>> \in used => Useless(k, n) \/ <<k, n>> \in excused

(* Who holds what was used is excused, and so are two that hold the same. *)
Innocent(q) == Holds(request[q]) /\ Presented(q) \in used => Presented(q) \in excused
Clash(q, r) == /\ Holds(request[q]) /\ Holds(request[r]) /\ request[q].op = request[r].op
               /\ request[q].op = "recovery" \/ request[q].arg = request[r].arg
Overlap == \A q, r \in Requests : q # r /\ Clash(q, r) => Presented(q) \in excused

(* A code that is spent is not written back. *)
CodesShrink == \A q \in Requests : HoldsCodes(request[q]) => request[q].arg \notin request[q].codes

OnceInv == /\ BaseInv /\ AllDrawn /\ UsedUp /\ CodesShrink /\ Overlap
           /\ \A q \in Requests : Innocent(q)
           /\ twice \subseteq excused

(* A step of q brings nothing back that was used. *)
Same(r, s) == r.op = s.op /\ r.step = s.step /\ r.arg = s.arg /\ r.codes = s.codes
OthersSame(q) == \A r \in Requests \ {q} : Same(request[r], request'[r])
BringsBackNothing(q) ==
  /\ \A t \in SessionIds : session[t].state = "revoked" => session'[t].state = "revoked"
  /\ \A n \in states' : n \in states \/ n \notin 1..drawn.state
  /\ \A c \in account'.codes :
       \/ c \in account.codes \/ c \notin 1..drawn.code
       \/ HoldsCodes(request[q]) /\ c \in request[q].codes
  /\ \A k \in LinkKinds : link'[k].nonce = link[k].nonce \/ link'[k].nonce \notin 1..link[k].drawn
  /\ HoldsCodes(request'[q]) => \/ request'[q].codes \subseteq account.codes
                                \/ HoldsCodes(request[q]) /\ request'[q].codes = request[q].codes
  /\ Spending(request[q]) =>
       \/ /\ Spending(request'[q])
          /\ request'[q].op = request[q].op /\ request'[q].arg = request[q].arg
       \/ link'[request[q].op].nonce # request[q].arg
       \/ Presented(q) \in excused'

(* So what was useless stays so. *)
LEMMA UselessKept ==
  ASSUME OnceInv, NEW q \in Requests, OthersSame(q), BringsBackNothing(q), excused \subseteq excused',
         NEW k \in {"verify", "reset", "recovery", "refresh", "google"}, NEW n \in Nat,
         <<k, n>> \in used
  PROVE  Useless(k, n)' \/ <<k, n>> \in excused'
<1> SUFFICES ASSUME <<k, n>> \notin excused' PROVE Useless(k, n)'
  OBVIOUS
<1>1. Useless(k, n)
  BY DEF OnceInv, UsedUp
<1>2. CASE k = "refresh"
  <2>1. n \in SessionIds
    BY <1>2 DEF OnceInv, AllDrawn
  <2> QED BY <1>1, <1>2, <2>1 DEF Useless, BringsBackNothing, LinkKinds
<1>3. CASE k = "google"
  <2>1. n \in 1..drawn.state
    BY <1>3 DEF OnceInv, AllDrawn
  <2> QED BY <1>1, <1>3, <2>1 DEF Useless, BringsBackNothing, LinkKinds
<1>4. CASE k = "recovery"
  <2>1. n \in 1..drawn.code /\ n \notin account.codes
    BY <1>1, <1>4 DEF OnceInv, AllDrawn, Useless
  <2>2. \A r \in Requests : HoldsCodes(request[r]) => n \notin request[r].codes
    BY <1>1, <1>4 DEF Useless
  <2>3. n \notin account'.codes
    BY <2>1, <2>2 DEF BringsBackNothing
  <2>4. ASSUME NEW r \in Requests, HoldsCodes(request[r])' PROVE n \notin request'[r].codes
    <3>1. CASE r = q
      BY <2>1, <2>2, <2>4, <3>1 DEF BringsBackNothing
    <3>2. CASE r # q
      BY <2>2, <2>4, <3>2 DEF OthersSame, Same, HoldsCodes, Holds
    <3> QED BY <3>1, <3>2
  <2> QED BY <1>4, <2>3, <2>4 DEF Useless, LinkKinds
<1>5. CASE k \in LinkKinds
  <2>1. n \in 1..link[k].drawn
    BY <1>5 DEF OnceInv, AllDrawn
  <2>2. CASE link[k].nonce # n
    <3>1. link'[k].nonce # n
      BY <1>5, <2>1, <2>2 DEF BringsBackNothing
    <3> QED BY <1>5, <3>1 DEF Useless, LinkKinds
  <2>3. ASSUME NEW r \in Requests, request[r].op = k, request[r].arg = n, Spending(request[r])
        PROVE  \/ link'[k].nonce # n
               \/ \E s \in Requests :
                    request'[s].op = k /\ request'[s].arg = n /\ Spending(request'[s])
    <3>1. CASE r = q
      BY <2>3, <3>1 DEF BringsBackNothing, Presented
    <3>2. CASE r # q
      BY <2>3, <3>2 DEF OthersSame, Same, Spending
    <3> QED BY <3>1, <3>2
  <2>4. \/ link'[k].nonce # n
        \/ \E s \in Requests : request'[s].op = k /\ request'[s].arg = n /\ Spending(request'[s])
    <3>1. CASE link[k].nonce # n
      BY <1>5, <2>1, <3>1 DEF BringsBackNothing
    <3> QED BY <1>1, <1>5, <2>3, <3>1 DEF Useless
  <2> QED BY <1>5, <2>4 DEF Useless, LinkKinds
<1> QED BY <1>2, <1>3, <1>4, <1>5 DEF LinkKinds

(* A step that neither finds nor uses anything. *)
LEMMA OnceQuiet ==
  ASSUME OnceInv, BaseInv', AllDrawn', NEW q \in Requests, OthersSame(q), BringsBackNothing(q),
         used' = used, twice' = twice, excused \subseteq excused',
         Holds(request'[q]) => Holds(request[q]) /\ request'[q].op = request[q].op
                               /\ request'[q].arg = request[q].arg /\ request'[q].codes = request[q].codes
  PROVE  OnceInv'
<1>1. ASSUME NEW r \in Requests, Holds(request'[r])
      PROVE  Holds(request[r]) /\ request'[r].op = request[r].op
             /\ request'[r].arg = request[r].arg /\ request'[r].codes = request[r].codes
  BY <1>1 DEF OthersSame, Same, Holds
<1>2. UsedUp'
  BY UselessKept DEF UsedUp
<1>3. CodesShrink'
  BY <1>1 DEF OnceInv, CodesShrink, HoldsCodes
<1>4. Overlap'
  BY <1>1 DEF OnceInv, Overlap, Clash, Presented
<1>5. \A r \in Requests : Innocent(r)'
  BY <1>1 DEF OnceInv, Innocent, Presented
<1>6. twice' \subseteq excused'
  BY DEF OnceInv
<1> QED BY <1>2, <1>3, <1>4, <1>5, <1>6 DEF OnceInv

(* A request that finds what it presents to be good: others that hold it   *)
(* are its rivals.                                                         *)
LEMMA OnceFound ==
  ASSUME OnceInv, BaseInv', AllDrawn', NEW q \in Requests, OthersSame(q), BringsBackNothing(q),
         Found(q), request'[q].op = request[q].op, request'[q].arg = request[q].arg,
         HoldsCodes(request'[q]) => request'[q].arg \notin request'[q].codes,
         Presented(q) \in used => Presented(q) \in excused'
  PROVE  OnceInv'
<1>1. used' = used /\ twice' = twice /\ excused \subseteq excused'
  BY DEF Found
<1>2. ASSUME NEW r \in Requests \ {q}
      PROVE  /\ request'[r].op = request[r].op /\ request'[r].arg = request[r].arg
             /\ request'[r].codes = request[r].codes /\ request'[r].step = request[r].step
  BY DEF OthersSame, Same
<1>3. \A r \in Requests : Presented(r)' = Presented(r)
  BY <1>2 DEF Presented
<1>4. \A r \in Requests \ {q} : (Holds(request'[r]) <=> Holds(request[r]))
  BY <1>2 DEF Holds
<1>5. UsedUp'
  BY <1>1, UselessKept DEF UsedUp
<1>6. CodesShrink'
  BY <1>2, <1>4 DEF OnceInv, CodesShrink, HoldsCodes
<1>7. ASSUME NEW r \in Requests, r # q, Holds(request'[q]), Holds(request[r]),
             request[q].op = request[r].op, request[q].op = "recovery" \/ request[q].arg = request[r].arg
      PROVE  Presented(q) \in excused' /\ Presented(r) \in excused'
  <2>1. InUse(r)
    BY <1>7 DEF InUse, Holds
  <2>2. r \in Rivals(q)
    BY <1>7, <2>1 DEF Rivals
  <2>3. excused' = excused \cup {Presented(s) : s \in Rivals(q) \cup {q}}
    BY <2>2 DEF Found
  <2> QED BY <2>2, <2>3
<1>8. Overlap'
  <2> SUFFICES ASSUME NEW r \in Requests, NEW s \in Requests, r # s, Clash(r, s)'
               PROVE  Presented(r)' \in excused'
    BY DEF Overlap
  <2>1. CASE r = q
    BY <1>2, <1>3, <1>4, <1>7, <2>1 DEF Clash
  <2>2. CASE s = q
    BY <1>2, <1>3, <1>4, <1>7, <2>2 DEF Clash
  <2>3. CASE r # q /\ s # q
    BY <1>1, <1>2, <1>3, <1>4, <2>3 DEF OnceInv, Overlap, Clash
  <2> QED BY <2>1, <2>2, <2>3
<1>9. \A r \in Requests : Innocent(r)'
  BY <1>1, <1>3, <1>4 DEF OnceInv, Innocent
<1>10. twice' \subseteq excused'
  BY <1>1 DEF OnceInv
<1> QED BY <1>5, <1>6, <1>8, <1>9, <1>10 DEF OnceInv

(* A request that uses what it holds. *)
LEMMA OnceUsed ==
  ASSUME OnceInv, BaseInv', AllDrawn', NEW q \in Requests, OthersSame(q), BringsBackNothing(q),
         Use(q), Holds(request[q]), ~Holds(request'[q]),
         \A k, n : Presented(q) = <<k, n>> => Useless(k, n)' \/ <<k, n>> \in excused
  PROVE  OnceInv'
<1>1. /\ used' = used \cup {Presented(q)} /\ twice' = twice \cup (used \cap {Presented(q)})
      /\ excused' = excused
  BY DEF Use
<1>2. ASSUME NEW r \in Requests, Holds(request'[r])
      PROVE  /\ r # q /\ Holds(request[r]) /\ request'[r].op = request[r].op
             /\ request'[r].arg = request[r].arg /\ request'[r].codes = request[r].codes
             /\ Presented(r)' = Presented(r)
  BY <1>2 DEF OthersSame, Same, Holds, Presented
<1>3. UsedUp'
  BY <1>1, UselessKept DEF UsedUp
<1>4. CodesShrink'
  BY <1>2 DEF OnceInv, CodesShrink, HoldsCodes
<1>5. Overlap'
  BY <1>1, <1>2 DEF OnceInv, Overlap, Clash
<1>6. ASSUME NEW r \in Requests, Holds(request'[r]), Presented(r)' \in used'
      PROVE  Presented(r)' \in excused'
  <2>1. CASE Presented(r) \in used
    BY <1>1, <1>2, <1>6, <2>1 DEF OnceInv, Innocent
  <2>2. CASE Presented(r) = Presented(q)
    <3>1. Clash(q, r)
      BY <1>2, <1>6, <2>2 DEF Clash, Presented
    <3> QED BY <1>1, <1>2, <1>6, <2>2, <3>1 DEF OnceInv, Overlap
  <2> QED BY <1>1, <1>2, <1>6, <2>1, <2>2
<1>7. twice' \subseteq excused'
  BY <1>1 DEF OnceInv, Innocent
<1> QED BY <1>3, <1>4, <1>5, <1>6, <1>7 DEF OnceInv, Innocent

(* Numbers are only ever drawn. *)
Grows == /\ drawn.state <= drawn'.state /\ drawn.code <= drawn'.code
         /\ \A k \in LinkKinds : link[k].drawn <= link'[k].drawn

LEMMA DrawnNat ==
  ASSUME TypeOK, TypeOK'
  PROVE  /\ drawn.state \in Nat /\ drawn.code \in Nat /\ \A k \in LinkKinds : link[k].drawn \in Nat
         /\ drawn'.state \in Nat /\ drawn'.code \in Nat /\ \A k \in LinkKinds : link'[k].drawn \in Nat
         /\ Grows => /\ 1..drawn.state \subseteq 1..drawn'.state /\ 1..drawn.code \subseteq 1..drawn'.code
                     /\ \A k \in LinkKinds : 1..link[k].drawn \subseteq 1..link'[k].drawn
<1>1. /\ drawn.state \in Nat /\ drawn.code \in Nat /\ \A k \in LinkKinds : link[k].drawn \in Nat
  BY SessionBoundsAssumption DEF TypeOK, LinkRecord
<1>2. /\ drawn'.state \in Nat /\ drawn'.code \in Nat /\ \A k \in LinkKinds : link'[k].drawn \in Nat
  BY SessionBoundsAssumption DEF TypeOK, LinkRecord
<1> QED BY <1>1, <1>2 DEF Grows

LEMMA DrawnKept ==
  ASSUME OnceInv, BaseInv', Grows, NEW q \in Requests, OthersSame(q), Drawn(request[q])',
         states' \subseteq 1..drawn'.state, account'.codes \subseteq 1..drawn'.code,
         \A k \in LinkKinds :
           link'[k].nonce \in 0..link'[k].drawn /\ link'[k].mailed \subseteq 1..link'[k].drawn,
         used' = used \/ Use(q)
  PROVE  AllDrawn'
<1>1. /\ 1..drawn.state \subseteq 1..drawn'.state /\ 1..drawn.code \subseteq 1..drawn'.code
      /\ \A k \in LinkKinds : 1..link[k].drawn \subseteq 1..link'[k].drawn
  BY DrawnNat DEF OnceInv, BaseInv
<1>2. ASSUME NEW r \in Requests PROVE Drawn(request[r])'
  <2>1. Drawn(request[r])
    BY DEF OnceInv, AllDrawn
  <2>2. CASE r # q
    <3>1. /\ request'[r].op = request[r].op /\ request'[r].arg = request[r].arg
          /\ request'[r].step = request[r].step /\ request'[r].codes = request[r].codes
      BY <2>2 DEF OthersSame, Same
    <3> QED BY <1>1, <2>1, <3>1 DEF Drawn, LinkKinds
  <2> QED BY <2>2
<1>3. ASSUME NEW n \in Nat
      PROVE  /\ \A k \in LinkKinds : <<k, n>> \in used' => n \in 1..link'[k].drawn
             /\ <<"google", n>> \in used' => n \in 1..drawn'.state
             /\ <<"recovery", n>> \in used' => n \in 1..drawn'.code
             /\ <<"refresh", n>> \in used' => n \in SessionIds
  <2>1. CASE used' = used
    BY <1>1, <2>1 DEF OnceInv, AllDrawn
  <2>2. CASE Use(q)
    <3>1. used' = used \cup {<<request[q].op, request[q].arg>>}
      BY <2>2 DEF Use, Presented
    <3>2. Drawn(request[q]) /\ InputOK(request[q])
      BY DEF OnceInv, AllDrawn, BaseInv, Inputs
    <3>4. ASSUME NEW k, <<k, n>> \in used', <<k, n>> \notin used
          PROVE  k = request[q].op /\ n = request[q].arg
      <4>1. <<k, n>> = <<request[q].op, request[q].arg>>
        BY <3>1, <3>4
      <4> QED BY <4>1
    <3>5. \A k \in LinkKinds : <<k, n>> \in used' => n \in 1..link'[k].drawn
      BY <1>1, <3>2, <3>4 DEF OnceInv, AllDrawn, Drawn, LinkKinds
    <3>6. <<"google", n>> \in used' => n \in 1..drawn'.state
      BY <1>1, <3>2, <3>4 DEF OnceInv, AllDrawn, Drawn
    <3>7. <<"recovery", n>> \in used' => n \in 1..drawn'.code
      BY <1>1, <3>2, <3>4 DEF OnceInv, AllDrawn, Drawn
    <3>8. <<"refresh", n>> \in used' => n \in SessionIds
      BY <3>2, <3>4 DEF OnceInv, AllDrawn, InputOK
    <3> QED BY <3>5, <3>6, <3>7, <3>8
  <2> QED BY <2>1, <2>2
<1> QED BY <1>2, <1>3 DEF AllDrawn

(* A request that moves on, or ends, presents nothing new. *)
LEMMA DrawnMoves ==
  ASSUME OnceInv, BaseInv', Grows, NEW q \in Requests,
         \/ request'[q] = Idle
         \/ /\ request'[q].op = request[q].op /\ request'[q].arg = request[q].arg
            /\ request'[q].codes = request[q].codes \/ request'[q].codes \subseteq account.codes
            /\ request'[q].step # "mail"
  PROVE  Drawn(request[q])'
<1>1. /\ 1..drawn.state \subseteq 1..drawn'.state /\ 1..drawn.code \subseteq 1..drawn'.code
      /\ \A k \in LinkKinds : 1..link[k].drawn \subseteq 1..link'[k].drawn
  BY DrawnNat DEF OnceInv, BaseInv
<1>2. Drawn(request[q]) /\ account.codes \subseteq 1..drawn.code
  BY DEF OnceInv, AllDrawn
<1>3. CASE request'[q] = Idle
  BY <1>3 DEF Drawn, Idle
<1>4. CASE request'[q] # Idle
  BY <1>1, <1>2, <1>4 DEF Drawn, LinkKinds
<1> QED BY <1>3, <1>4

LEMMA GotoSame ==
  ASSUME TypeOK, NEW q \in Requests, NEW step, Goto(q, step)
  PROVE  /\ OthersSame(q) /\ request'[q].step = step /\ request'[q].op = request[q].op
         /\ request'[q].arg = request[q].arg /\ request'[q].codes = request[q].codes
         /\ request'[q].choice = request[q].choice
BY DEF Goto, OthersSame, Same, TypeOK, RequestRecord

LEMMA DoneSame ==
  ASSUME TypeOK, NEW q \in Requests, Done(q)
  PROVE  OthersSame(q) /\ request'[q] = Idle /\ ~Holds(request'[q]) /\ ~Spending(request'[q])
BY DEF Done, OthersSame, Same, TypeOK, Idle, Holds, Spending

(* A step that draws nothing, and adds nothing that could be presented. *)
LEMMA OncePlain ==
  ASSUME OnceInv, BaseInv', NEW q \in Requests, OthersSame(q),
         states' \subseteq states, drawn'.state = drawn.state, drawn'.code = drawn.code,
         account'.codes \subseteq account.codes,
         \A t \in SessionIds : session[t].state = "revoked" => session'[t].state = "revoked",
         \A k \in LinkKinds : link'[k].drawn = link[k].drawn /\ link'[k].nonce \in {link[k].nonce, 0}
                              /\ link'[k].mailed \subseteq 1..link[k].drawn,
         used' = used, twice' = twice, excused \subseteq excused',
         \/ request'[q] = Idle
         \/ /\ request'[q].op = request[q].op /\ request'[q].arg = request[q].arg
            /\ request'[q].codes = request[q].codes /\ request'[q].step # "mail"
            /\ Holds(request'[q]) => Holds(request[q]),
         Spending(request[q]) =>
           \/ /\ Spending(request'[q])
              /\ request'[q].op = request[q].op /\ request'[q].arg = request[q].arg
           \/ link'[request[q].op].nonce # request[q].arg
           \/ Presented(q) \in excused'
  PROVE  OnceInv'
<1>0. /\ drawn.state \in Nat /\ drawn.code \in Nat /\ \A k \in LinkKinds : link[k].drawn \in Nat
  BY DrawnNat DEF OnceInv, BaseInv
<1>1. Grows
  BY <1>0 DEF Grows
<1>2. Drawn(request[q])'
  BY <1>1, DrawnMoves
<1>3. /\ states \subseteq 1..drawn.state /\ account.codes \subseteq 1..drawn.code
      /\ \A k \in LinkKinds : link[k].nonce \in 0..link[k].drawn
  BY DEF OnceInv, AllDrawn
<1>4. AllDrawn'
  BY <1>0, <1>1, <1>2, <1>3, DrawnKept
<1>5. ~Holds(Idle)
  BY DEF Holds, Idle
<1>6. BringsBackNothing(q)
  <2>1. \A k \in LinkKinds : link'[k].nonce = link[k].nonce \/ link'[k].nonce \notin 1..link[k].drawn
    BY <1>0
  <2>2. HoldsCodes(request'[q]) => HoldsCodes(request[q]) /\ request'[q].codes = request[q].codes
    BY <1>5 DEF HoldsCodes
  <2> QED BY <2>1, <2>2 DEF BringsBackNothing
<1>7. Holds(request'[q]) => Holds(request[q]) /\ request'[q].op = request[q].op
         /\ request'[q].arg = request[q].arg /\ request'[q].codes = request[q].codes
  BY <1>5
<1> QED BY <1>4, <1>6, <1>7, OnceQuiet

(* Most steps only move their request on. *)
LEMMA OnceMoves ==
  ASSUME OnceInv, BaseInv', NEW q \in Requests,
         UNCHANGED <<states, link, used, twice, excused>>,
         drawn'.state = drawn.state, drawn'.code = drawn.code, account'.codes \subseteq account.codes,
         \A t \in SessionIds : session[t].state = "revoked" => session'[t].state = "revoked",
         \/ Done(q)
         \/ \E step \in Steps \ {"mail"} : Goto(q, step) /\
              (Holds(request'[q]) => Holds(request[q])),
         Spending(request[q]) => Spending(request'[q])
  PROVE  OnceInv'
<1>1. TypeOK
  BY DEF OnceInv, BaseInv
<1>2. \A k \in LinkKinds : link[k].mailed \subseteq 1..link[k].drawn
  BY DEF OnceInv, AllDrawn
<1>3. CASE Done(q)
  BY <1>1, <1>2, <1>3, DoneSame, OncePlain
<1>4. ASSUME NEW step \in Steps \ {"mail"}, Goto(q, step), Holds(request'[q]) => Holds(request[q])
      PROVE  OnceInv'
  <2>1. /\ OthersSame(q) /\ request'[q].step = step /\ request'[q].op = request[q].op
        /\ request'[q].arg = request[q].arg /\ request'[q].codes = request[q].codes
    BY <1>1, <1>4, GotoSame
  <2> QED BY <1>2, <1>4, <2>1, OncePlain
<1> QED BY <1>3, <1>4

(* Requests present what they were given. *)
LEMMA SendOnce ==
  ASSUME OnceInv, BaseInv', NEW q \in Requests, SendRequest(q)
  PROVE  OnceInv'
<1>1. ASSUME NEW op, NEW arg, NEW choice, NEW proof, Begin(q, op, arg, choice, proof),
             op \in {"verify", "reset"} => arg \in 1..link[op].drawn,
             op = "google" => arg \in 1..drawn.state,
             op = "recovery" => arg \in 1..drawn.code
      PROVE  OnceInv'
  <2>1. /\ request'[q].op = op /\ request'[q].step = FirstStep(op)
        /\ request'[q].arg = arg /\ request'[q].codes = {}
        /\ \A r \in Requests \ {q} : request'[r] = request[r]
        /\ UNCHANGED <<account, session, link, states, drawn>> /\ UNCHANGED history
        /\ request[q].step = "idle"
    BY <1>1 DEF Begin, Idling, OnceInv, BaseInv, TypeOK
  <2>2. OthersSame(q)
    BY <2>1 DEF OthersSame, Same
  <2>3. FirstStep(op) \in {"guard", "denied", "consume", "read"}
        /\ (op \in {"verify", "reset"} => FirstStep(op) = "denied")
    BY DEF FirstStep, Protected
  <2>4. ~Holds(request'[q]) /\ ~Spending(request[q])
    BY <2>1, <2>3 DEF Holds, Spending
  <2>5. Drawn(request[q])'
    BY <1>1, <2>1, <2>3 DEF Drawn
  <2>6. Grows
    BY <2>1, DrawnNat DEF Grows, OnceInv, BaseInv
  <2>7. AllDrawn'
    <3>1. used' = used
      BY <2>1 DEF history
    <3> QED BY <2>1, <2>2, <2>5, <2>6, <3>1, DrawnKept DEF OnceInv, AllDrawn
  <2>8. BringsBackNothing(q)
    BY <2>1, <2>4 DEF BringsBackNothing, HoldsCodes
  <2> QED BY <2>1, <2>2, <2>4, <2>7, <2>8, OnceQuiet DEF history
<1>2. \A k \in LinkKinds : link[k].mailed \subseteq 1..link[k].drawn
  BY DEF OnceInv, AllDrawn
<1>3. CASE SendVerify(q) \/ SendReset(q)
  BY <1>1, <1>2, <1>3 DEF SendVerify, SendReset, Send, LinkKinds
<1>4. CASE SendRecovery(q) \/ SendGoogle(q)
  BY <1>1, <1>4 DEF SendRecovery, SendGoogle, Send
<1>5. ASSUME NEW op \in Ops \ {"verify", "reset", "google", "recovery"}, NEW arg, NEW choice,
             NEW proof, Begin(q, op, arg, choice, proof)
      PROVE  OnceInv'
  BY <1>1, <1>5
<1>6. CASE SendTwoFactor(q)
  BY <1>5, <1>6 DEF SendTwoFactor, Ops
<1>7. CASE SendRegister(q) \/ SendResend(q) \/ SendLogin(q) \/ SendRefresh(q) \/ SendLogout(q)
  BY <1>5, <1>7 DEF SendRegister, SendResend, SendLogin, SendRefresh, SendLogout, Send, Ops
<1>8. CASE SendSetup(q) \/ SendEnable(q) \/ SendDisable(q) \/ SendForgot(q)
  BY <1>5, <1>8 DEF SendSetup, SendEnable, SendDisable, SendForgot, Send, Ops
<1> QED BY <1>3, <1>4, <1>6, <1>7, <1>8 DEF SendRequest

(* Registration, mailed links and passwords. *)
LEMMA LinkOnce ==
  ASSUME OnceInv, BaseInv', NEW q \in Requests, LinkStep(q)
  PROVE  OnceInv'
<1> USE DEF OnceInv, BaseInv
<1>1. /\ InputOK(request[q]) /\ Drawn(request[q]) /\ request[q].op \in Ops
      /\ account \in Accounts /\ Kind(q) \in LinkKinds
  BY Fields DEF Inputs, AllDrawn, TypeOK, Kind, LinkKinds
<1>2. \A k \in LinkKinds : /\ link[k] \in LinkRecord /\ link[k].mailed \subseteq 1..link[k].drawn
                           /\ link[k].nonce \in 0..link[k].drawn
                           /\ link[k].drawn \in Nat /\ link'[k].drawn \in Nat
  BY DrawnNat DEF AllDrawn, TypeOK
<1>3. CASE ReadUnregistered(q) \/ ReadAddressee(q) \/ MailLost(q) \/ CheckSpent(q)
  <2>1. /\ Done(q) \/ \E step \in {"create", "nonce", "compare"} : Goto(q, step)
        /\ RequestOnly /\ ~Spending(request[q])
    BY <1>3 DEF ReadUnregistered, ReadAddressee, MailLost, CheckSpent, AtStep, Spending
  <2>2. ASSUME NEW step \in {"create", "nonce", "compare"}, Goto(q, step)
        PROVE  ~Holds(request'[q])
    BY <2>2, GotoSame DEF Holds
  <2> QED BY <2>1, <2>2, OnceMoves DEF RequestOnly, NoUse, Steps
<1>11. CASE ReadLinkOwner(q)
  <2>1. /\ Done(q) \/ Goto(q, "write")
        /\ RequestOnly /\ ~Spending(request[q]) /\ Holds(request[q])
    BY <1>11 DEF ReadLinkOwner, Spending, Holds
  <2> QED BY <2>1, OnceMoves DEF RequestOnly, NoUse, Steps
<1>4. CASE CreateUser(q)
  <2>1. account'.codes \subseteq account.codes
    BY <1>4 DEF CreateUser, Nobody
  <2>2. ~Spending(request[q])
    BY <1>4 DEF CreateUser, AtStep, Spending
  <2>3. Done(q) \/ Goto(q, "nonce")
    BY <1>4 DEF CreateUser
  <2>4. Goto(q, "nonce") => ~Holds(request'[q])
    BY GotoSame DEF Holds
  <2> QED BY <1>4, <2>1, <2>2, <2>3, <2>4, OnceMoves DEF CreateUser, AccountOnly, NoUse, Steps
<1>5. CASE StoreNonce(q)
  <2> DEFINE k == Kind(q)  n == link[k].drawn + 1
  <2>1. /\ request'[q].step = "mail" /\ request'[q].arg = n /\ request'[q].op = request[q].op
        /\ request'[q].codes = request[q].codes /\ OthersSame(q)
        /\ request[q].op \in {"register", "resend", "forgot"}
    BY <1>1, <1>5 DEF StoreNonce, OthersSame, Same, TypeOK, RequestRecord, InputOK
  <2>2. /\ link'[k].drawn = n /\ link'[k].nonce = n /\ link'[k].mailed = link[k].mailed
        /\ \A j \in LinkKinds \ {k} : link'[j] = link[j]
        /\ n \in Nat /\ link[k].drawn < n
    BY <1>1, <1>2, <1>5 DEF StoreNonce, TypeOK, LinkRecord
  <2>3. UNCHANGED <<account, session, states, drawn, used, twice, excused>>
    BY <1>5 DEF StoreNonce, RedisOnly, NoUse
  <2>4. Grows
    BY <1>2, <2>2, <2>3, DrawnNat DEF Grows
  <2>5. Drawn(request[q])'
    <3>1. k = IF request[q].op \in {"forgot", "reset"} THEN "reset" ELSE "verify"
      BY DEF Kind
    <3>2. n \in 1..n
      BY <1>1, <1>2
    <3> HIDE DEF k, n
    <3> QED BY <2>1, <2>2, <3>1, <3>2 DEF Drawn
  <2>6. \A j \in LinkKinds :
          link'[j].nonce \in 0..link'[j].drawn /\ link'[j].mailed \subseteq 1..link'[j].drawn
    BY <1>1, <1>2, <2>2
  <2>7. AllDrawn'
    BY <2>1, <2>3, <2>4, <2>5, <2>6, DrawnKept DEF AllDrawn
  <2>8. BringsBackNothing(q) /\ ~Holds(request'[q])
    BY <1>1, <1>2, <2>1, <2>2, <2>3 DEF BringsBackNothing, HoldsCodes, Holds, Spending
  <2> QED BY <2>1, <2>3, <2>7, <2>8, OnceQuiet
<1>6. CASE SendMail(q)
  <2>1. OthersSame(q) /\ request'[q] = Idle /\ ~Spending(request[q])
    BY <1>6, DoneSame DEF SendMail, Spending
  <2>2. request[q].arg \in 1..link[Kind(q)].drawn
    BY <1>1, <1>6 DEF SendMail, Drawn, Kind
  <2>3. ASSUME NEW k \in LinkKinds
        PROVE  link'[k].drawn = link[k].drawn /\ link'[k].nonce = link[k].nonce
               /\ link'[k].mailed \subseteq 1..link[k].drawn
    BY <1>1, <1>2, <1>6, <2>2 DEF SendMail, LinkRecord, TypeOK
  <2> QED BY <1>6, <2>1, <2>3, OncePlain DEF SendMail, RedisOnly, NoUse
<1>7. CASE CompareNonce(q)
  <2>1. /\ request[q].op \in {"verify", "reset"} /\ request[q].step = "compare"
        /\ UNCHANGED <<account, session, drawn, link, states>>
    BY <1>1, <1>7 DEF CompareNonce, InputOK, RedisOnly
  <2>2. CASE link[Kind(q)].nonce # request[q].arg
    BY <1>7, <2>1, <2>2, OnceMoves DEF CompareNonce, NoUse, Spending
  <2>3. CASE link[Kind(q)].nonce = request[q].arg
    <3>1. Goto(q, "read") /\ Found(q) /\ Kind(q) = request[q].op
      BY <1>7, <2>1, <2>3 DEF CompareNonce, Kind
    <3>2. /\ OthersSame(q) /\ request'[q].op = request[q].op /\ request'[q].arg = request[q].arg
          /\ request'[q].step = "read" /\ request'[q].codes = request[q].codes
      BY <3>1, GotoSame
    <3>3. Grows /\ Drawn(request[q])' /\ used' = used
      <4>1. Grows
        BY <1>2, <2>1, DrawnNat DEF Grows
      <4> QED BY <3>1, <3>2, <4>1, DrawnMoves DEF Found
    <3>4. AllDrawn'
      BY <1>2, <2>1, <3>2, <3>3, DrawnKept DEF AllDrawn
    <3>5. BringsBackNothing(q)
      BY <2>1, <3>2 DEF BringsBackNothing, HoldsCodes, Holds, Spending
    <3>6. ASSUME Presented(q) \in used PROVE Presented(q) \in excused'
      <4> DEFINE k == request[q].op  n == request[q].arg
      <4>1. <<k, n>> \in used /\ k \in {"verify", "reset"} /\ n \in Nat /\ link[k].nonce = n
        BY <2>1, <2>3, <3>1, <3>6, Fields DEF Presented
      <4>2. Useless(k, n) \/ <<k, n>> \in excused
        BY <4>1 DEF UsedUp
      <4>3. CASE <<k, n>> \in excused
        BY <3>1, <4>3 DEF Found, Presented
      <4>4. CASE Useless(k, n)
        <5>1. PICK r \in Requests : request[r].op = k /\ request[r].arg = n /\ Spending(request[r])
          BY <4>1, <4>4 DEF Useless, LinkKinds
        <5>2. r \in Rivals(q)
          BY <2>1, <5>1 DEF Rivals, InUse, Spending
        <5> QED BY <3>1, <5>2 DEF Found
      <4> QED BY <4>2, <4>3, <4>4
    <3>7. ~HoldsCodes(request'[q])
      BY <2>1, <3>2 DEF HoldsCodes
    <3> QED BY <3>1, <3>2, <3>4, <3>5, <3>6, <3>7, OnceFound
  <2> QED BY <2>2, <2>3
<1>8. CASE WriteVerified(q) \/ WritePassword(q)
  <2>1. PICK step \in {"deny", "revoke"} :
          /\ Goto(q, step) /\ Use(q) /\ request[q].op \in {"verify", "reset"}
          /\ request[q].step = "write" /\ (step = "deny" <=> request[q].op = "verify")
          /\ UNCHANGED <<session, link, states, drawn>>
    BY <1>8 DEF WriteVerified, WritePassword, AtStep, AccountOnly
  <2>2. account'.codes = account.codes
    BY <1>1, <1>8 DEF WriteVerified, WritePassword, Accounts
  <2>3. /\ OthersSame(q) /\ request'[q].op = request[q].op /\ request'[q].arg = request[q].arg
        /\ request'[q].step = step /\ request'[q].codes = request[q].codes
    BY <2>1, GotoSame
  <2>4. Grows
    BY <1>2, <2>1, DrawnNat DEF Grows
  <2>5. Drawn(request[q])'
    BY <2>1, <2>3, <2>4, DrawnMoves
  <2>6. AllDrawn'
    BY <1>2, <2>1, <2>2, <2>3, <2>4, <2>5, DrawnKept DEF AllDrawn
  <2>7. Holds(request[q]) /\ ~Holds(request'[q]) /\ Spending(request'[q])
    BY <2>1, <2>3 DEF Holds, Spending
  <2>8. BringsBackNothing(q)
    BY <2>1, <2>2, <2>3, <2>7 DEF BringsBackNothing, HoldsCodes
  <2>9. ASSUME NEW k, NEW n, Presented(q) = <<k, n>> PROVE Useless(k, n)'
    <3>1. k = request[q].op /\ n = request[q].arg
      BY <2>9 DEF Presented
    <3> QED BY <2>1, <2>3, <2>7, <3>1 DEF Useless, LinkKinds
  <2> QED BY <2>1, <2>3, <2>6, <2>7, <2>8, <2>9, OnceUsed
<1>9. CASE ForgetNonce(q)
  <2>1. /\ \A k \in LinkKinds : /\ link'[k].drawn = link[k].drawn /\ link'[k].mailed = link[k].mailed
                                /\ link'[k].nonce \in {link[k].nonce, 0}
        /\ link'[Kind(q)].nonce = 0
        /\ UNCHANGED <<account, session, drawn, states, used, twice, excused>>
    BY <1>1, <1>2, <1>9 DEF ForgetNonce, LinkRecord, TypeOK, RedisOnly, NoUse
  <2>2. Spending(request[q]) => link'[request[q].op].nonce # request[q].arg
    BY <1>1, <1>2, <2>1 DEF Spending, Kind, Drawn, LinkKinds
  <2>3. /\ OthersSame(q)
        /\ \/ request'[q] = Idle
           \/ /\ request'[q].op = request[q].op /\ request'[q].arg = request[q].arg
              /\ request'[q].codes = request[q].codes /\ request'[q].step = "deny"
    BY <1>9, DoneSame, GotoSame DEF ForgetNonce
  <2>4. request'[q].step = "deny" => ~Holds(request'[q])
    BY DEF Holds
  <2> QED BY <1>2, <2>1, <2>2, <2>3, <2>4, OncePlain
<1>10. CASE DenyLink(q)
  <2>1. /\ \A k \in LinkKinds : /\ link'[k].drawn = link[k].drawn /\ link'[k].mailed = link[k].mailed
                                /\ link'[k].nonce = link[k].nonce
        /\ UNCHANGED <<account, session, drawn, states, used, twice, excused>>
    BY <1>1, <1>2, <1>10 DEF DenyLink, LinkRecord, TypeOK, RedisOnly, NoUse
  <2>2. request[q].step = "deny" /\ (request[q].op = "reset" => Done(q))
        /\ (request[q].op = "verify" => Goto(q, "forget")) /\ request[q].op \in {"verify", "reset"}
    BY <1>10 DEF DenyLink
  <2>3. /\ OthersSame(q)
        /\ \/ request'[q] = Idle /\ request[q].op = "reset"
           \/ /\ request'[q].op = request[q].op /\ request'[q].arg = request[q].arg
              /\ request'[q].codes = request[q].codes /\ request'[q].step = "forget"
    BY <2>2, DoneSame, GotoSame
  <2>4. /\ request'[q].step = "forget" => ~Holds(request'[q])
        /\ Spending(request[q]) => Spending(request'[q]) /\ request'[q] # Idle
    BY <2>2, <2>3 DEF Holds, Spending, Idle
  <2> QED BY <1>2, <2>1, <2>3, <2>4, OncePlain
<1> QED BY <1>3, <1>4, <1>5, <1>6, <1>7, <1>8, <1>9, <1>10, <1>11 DEF LinkStep

(* A request that finds what it presents to be good changes nothing yet. *)
LEMMA FindsOnce ==
  ASSUME OnceInv, BaseInv', NEW q \in Requests, OthersSame(q), Found(q),
         UNCHANGED <<account, session, link, states, drawn>>,
         request[q].op \in {"refresh", "recovery", "google"},
         request'[q].op = request[q].op, request'[q].arg = request[q].arg,
         request'[q].step # "mail",
         \/ request'[q].codes = request[q].codes /\ request[q].op # "recovery"
         \/ request'[q].codes \subseteq account.codes /\ request[q].arg \notin request'[q].codes,
         ~Useless(request[q].op, request[q].arg)
  PROVE  OnceInv'
<1>1. Grows
  BY DrawnNat DEF Grows, OnceInv, BaseInv
<1>2. AllDrawn'
  <2>1. Drawn(request[q])'
    BY <1>1, DrawnMoves
  <2>2. used' = used
    BY DEF Found
  <2> QED BY <1>1, <2>1, <2>2, DrawnKept DEF OnceInv, AllDrawn
<1>3. BringsBackNothing(q)
  BY DEF BringsBackNothing, HoldsCodes, Spending
<1>4. HoldsCodes(request'[q]) => request'[q].arg \notin request'[q].codes
  BY DEF HoldsCodes
<1>5. Presented(q) \in used => Presented(q) \in excused'
  <2>1. request[q].arg \in Nat
    BY Fields DEF OnceInv, BaseInv
  <2>2. Presented(q) \in used => Presented(q) \in excused
    BY <2>1 DEF OnceInv, UsedUp, Presented
  <2> QED BY <2>2 DEF Found
<1> QED BY <1>2, <1>3, <1>4, <1>5, OnceFound

(* A request that uses what it holds moves on. *)
LEMMA UsesOnce ==
  ASSUME OnceInv, BaseInv', NEW q \in Requests, NEW step \in {"find", "issue"}, Goto(q, step), Use(q),
         request[q].op \in {"refresh", "recovery", "google"}, Holds(request[q]),
         UNCHANGED <<link, drawn>>, states' \subseteq states,
         \A t \in SessionIds : session[t].state = "revoked" => session'[t].state = "revoked",
         \/ account'.codes \subseteq account.codes
         \/ HoldsCodes(request[q]) /\ account'.codes = request[q].codes,
         Useless(request[q].op, request[q].arg)' \/ Presented(q) \in excused
  PROVE  OnceInv'
<1>1. /\ OthersSame(q) /\ request'[q].op = request[q].op /\ request'[q].arg = request[q].arg
      /\ request'[q].step = step /\ request'[q].codes = request[q].codes
  BY GotoSame DEF OnceInv, BaseInv
<1>2. Grows
  BY DrawnNat DEF Grows, OnceInv, BaseInv
<1>3. AllDrawn'
  <2>1. Drawn(request[q])'
    BY <1>1, <1>2, DrawnMoves
  <2>2. account'.codes \subseteq 1..drawn'.code
    BY DEF OnceInv, AllDrawn, Drawn, HoldsCodes
  <2> QED BY <1>1, <1>2, <2>1, <2>2, DrawnKept DEF OnceInv, AllDrawn
<1>4. ~Holds(request'[q])
  BY <1>1 DEF Holds
<1>5. BringsBackNothing(q)
  BY <1>1, <1>4 DEF BringsBackNothing, HoldsCodes, Spending
<1>6. ASSUME NEW k, NEW n, Presented(q) = <<k, n>>
      PROVE  Useless(k, n)' \/ <<k, n>> \in excused
  <2>1. k = request[q].op /\ n = request[q].arg
    BY <1>6 DEF Presented
  <2>2. CASE Presented(q) \in excused
    BY <1>6, <2>2
  <2>3. CASE Useless(request[q].op, request[q].arg)'
    BY <1>1, <2>1, <2>3
  <2> QED BY <2>2, <2>3
<1> QED BY <1>1, <1>3, <1>4, <1>5, <1>6, OnceUsed

(* Sign-in, refresh and logout. *)
LEMMA SignInOnce ==
  ASSUME OnceInv, BaseInv', NEW q \in Requests, SignInStep(q)
  PROVE  OnceInv'
<1> USE DEF OnceInv, BaseInv
<1>1. /\ InputOK(request[q]) /\ request[q].op \in Ops /\ request[q] \in RequestRecord
      /\ \A k \in LinkKinds : link[k].mailed \subseteq 1..link[k].drawn
  BY Fields DEF Inputs, AllDrawn
<1>2. CASE Login(q)
  <2>1. Done(q) \/ \E proof : request' = [request EXCEPT ![q].step = "issue", ![q].proof = proof]
    BY <1>2 DEF Login, Admit
  <2>2. /\ OthersSame(q)
        /\ \/ request'[q] = Idle
           \/ /\ request'[q].op = request[q].op /\ request'[q].arg = request[q].arg
              /\ request'[q].codes = request[q].codes /\ request'[q].step = "issue"
    BY <1>1, <2>1, DoneSame DEF OthersSame, Same, TypeOK, RequestRecord
  <2>3. ~Spending(request[q]) /\ (request'[q].step = "issue" => ~Holds(request'[q]))
    BY <1>2 DEF Login, AtStep, Spending, Holds
  <2> QED BY <1>1, <1>2, <2>2, <2>3, OncePlain DEF Login, NoUse
<1>3. CASE IssueTokens(q)
  <2>1. \A t \in SessionIds : session[t].state = "revoked" => session'[t].state = "revoked"
    BY <1>3 DEF IssueTokens, Issued, TypeOK
  <2> QED BY <1>3, <2>1, OnceMoves DEF IssueTokens, SessionOnly, NoUse, Spending
<1>4. CASE ReadSession(q)
  <2>1. request[q].op = "refresh" /\ request[q].step = "read" /\ request[q].arg \in SessionIds
    BY <1>1, <1>4 DEF ReadSession, AtStep, InputOK
  <2>2. CASE session[request[q].arg].state = "revoked"
    <3>1. Goto(q, "revoke") /\ NoUse
      BY <1>4, <2>2 DEF ReadSession
    <3>2. ~Holds(request'[q]) /\ ~Spending(request[q])
      BY <2>1, <3>1, GotoSame DEF Holds, Spending
    <3> QED BY <1>4, <3>1, <3>2, OnceMoves DEF ReadSession, SessionOnly, NoUse, Steps
  <2>3. CASE session[request[q].arg].state # "revoked"
    <3>1. /\ request' = [request EXCEPT ![q].step = "rotate",
                                        ![q].proof = session[request[q].arg].proof]
          /\ Found(q)
      BY <1>4, <2>3 DEF ReadSession
    <3>2. /\ OthersSame(q) /\ request'[q].op = request[q].op /\ request'[q].arg = request[q].arg
          /\ request'[q].step = "rotate" /\ request'[q].codes = request[q].codes
      BY <1>1, <3>1 DEF OthersSame, Same, TypeOK, RequestRecord
    <3>3. ~Useless(request[q].op, request[q].arg)
      BY <2>1, <2>3 DEF Useless
    <3> QED BY <1>4, <2>1, <3>1, <3>2, <3>3, FindsOnce DEF ReadSession, SessionOnly
  <2> QED BY <2>2, <2>3
<1>5. CASE Rotate(q)
  <2>1. request[q].op = "refresh" /\ request[q].step = "rotate" /\ request[q].arg \in SessionIds
    BY <1>1, <1>5 DEF Rotate, AtStep, InputOK
  <2>2. /\ \A t \in SessionIds : session[t].state = "revoked" => session'[t].state = "revoked"
        /\ session'[request[q].arg].state = "revoked"
    BY <1>5, <2>1 DEF Rotate, TypeOK
  <2>3. request'[q].op = request[q].op /\ request'[q].arg = request[q].arg
    BY <1>5, GotoSame DEF Rotate
  <2>4. Useless(request[q].op, request[q].arg)'
    BY <2>1, <2>2, <2>3 DEF Useless, LinkKinds
  <2>5. Goto(q, "issue") /\ Use(q) /\ Holds(request[q]) /\ UNCHANGED <<account, link, states, drawn>>
    BY <1>5, <2>1 DEF Rotate, SessionOnly, Holds
  <2>6. account'.codes \subseteq account.codes
    BY <2>5
  <2> QED BY <2>1, <2>2, <2>4, <2>5, <2>6, UsesOnce
<1>6. CASE DenyAccess(q)
  <2>1. Goto(q, "revoke") => ~Holds(request'[q])
    BY GotoSame DEF Holds
  <2> QED BY <1>6, <2>1, OnceMoves DEF DenyAccess, AtStep, RedisOnly, NoUse, Spending, Steps
<1>7. CASE RevokeAll(q)
  <2>1. \A t \in SessionIds : session[t].state = "revoked" => session'[t].state = "revoked"
    BY <1>7 DEF RevokeAll, TypeOK
  <2>2. OthersSame(q)
    <3> SUFFICES ASSUME NEW r \in Requests \ {q} PROVE Same(request[r], request'[r])
      BY DEF OthersSame
    <3>1. request[r] \in RequestRecord
      BY Fields
    <3>2. request'[r] = request[r] \/ request'[r] = [request[r] EXCEPT !.proof = Late(@)]
      BY <1>7 DEF RevokeAll
    <3> QED BY <3>1, <3>2 DEF Same, RequestRecord
  <2>3. request'[q] = IF request[q].op = "reset" THEN [request[q] EXCEPT !.step = "forget"] ELSE Idle
    BY <1>7 DEF RevokeAll
  <2>4. \/ request'[q] = Idle /\ request[q].op # "reset"
        \/ /\ request'[q].op = request[q].op /\ request'[q].arg = request[q].arg
           /\ request'[q].codes = request[q].codes /\ request'[q].step = "forget"
    BY <1>1, <2>3 DEF RequestRecord
  <2>5. ~Holds(Idle) /\ (request'[q].step = "forget" => ~Holds(request'[q]))
    BY DEF Holds, Idle
  <2>6. Spending(request[q]) => /\ Spending(request'[q])
                                /\ request'[q].op = request[q].op /\ request'[q].arg = request[q].arg
    BY <1>7, <2>4 DEF RevokeAll, Spending
  <2> QED BY <1>1, <1>7, <2>1, <2>2, <2>4, <2>5, <2>6, OncePlain DEF RevokeAll, NoUse
<1> QED BY <1>2, <1>3, <1>4, <1>5, <1>6, <1>7 DEF SignInStep

(* The second factor: a code that is spent leaves the list. *)
LEMMA TwoFactorOnce ==
  ASSUME OnceInv, BaseInv', NEW q \in Requests, TwoFactorStep(q)
  PROVE  OnceInv'
<1> USE DEF OnceInv, BaseInv
<1>1. /\ InputOK(request[q]) /\ request[q] \in RequestRecord /\ account \in Accounts
      /\ \A k \in LinkKinds : link[k].mailed \subseteq 1..link[k].drawn
  BY Fields DEF Inputs, AllDrawn, TypeOK
<1>2. ASSUME ~Spending(request[q]),
             \/ Done(q)
             \/ \E step \in {"write", "seal", "issue", "revoke"} : Goto(q, step),
             request[q].op \in {"two-factor", "setup", "enable", "disable"},
             UNCHANGED <<session, link, states, used, twice, excused>>,
             drawn'.state = drawn.state, drawn'.code = drawn.code, account'.codes \subseteq account.codes
      PROVE  OnceInv'
  <2>1. ASSUME NEW step \in {"write", "seal", "issue", "revoke"}, Goto(q, step)
        PROVE  ~Holds(request'[q])
    BY <1>2, <2>1, GotoSame DEF Holds
  <2> QED BY <1>2, <2>1, OnceMoves DEF Steps
<1>3. CASE VerifyTwoFactor(q)
  <2>1. Done(q) \/ \E step \in {"issue", "seal"} :
          request' = [request EXCEPT ![q].step = step, ![q].proof = Second(@)]
    BY <1>3 DEF VerifyTwoFactor
  <2>2. /\ OthersSame(q)
        /\ \/ request'[q] = Idle
           \/ /\ request'[q].op = request[q].op /\ request'[q].arg = request[q].arg
              /\ request'[q].codes = request[q].codes /\ request'[q].step \in {"issue", "seal"}
    BY <1>1, <2>1, DoneSame DEF OthersSame, Same, TypeOK, RequestRecord
  <2>3. ~Spending(request[q]) /\ (request'[q].step \in {"issue", "seal"} => ~Holds(request'[q]))
    BY <1>3 DEF VerifyTwoFactor, AtStep, Spending, Holds
  <2> QED BY <1>1, <1>3, <2>2, <2>3, OncePlain DEF VerifyTwoFactor, RequestOnly, NoUse
<1>4. CASE SealSecret(q)
  <2>1. account'.codes = account.codes
    BY <1>1, <1>4 DEF SealSecret, Accounts
  <2> QED BY <1>2, <1>4, <2>1 DEF SealSecret, AtStep, AccountOnly, NoUse, Spending
<1>5. CASE ReadCodes(q)
  <2>1. request[q].op = "recovery" /\ request[q].step = "read"
    BY <1>5 DEF ReadCodes, AtStep
  <2>2. CASE ~(account.enabled /\ request[q].arg \in account.codes)
    BY <1>5, <2>1, <2>2, OnceMoves DEF ReadCodes, SessionOnly, NoUse, Spending
  <2>3. CASE account.enabled /\ request[q].arg \in account.codes
    <3> DEFINE codes == account.codes \ {request[q].arg}
    <3>1. /\ request' = [request EXCEPT ![q].step = "spend", ![q].proof = Second(@), ![q].codes = codes]
          /\ Found(q)
      BY <1>5, <2>3 DEF ReadCodes
    <3>2. /\ OthersSame(q) /\ request'[q].op = request[q].op /\ request'[q].arg = request[q].arg
          /\ request'[q].step = "spend" /\ request'[q].codes = codes
      BY <1>1, <3>1 DEF OthersSame, Same, TypeOK, RequestRecord
    <3>3. ~Useless(request[q].op, request[q].arg)
      BY <2>1, <2>3 DEF Useless
    <3> QED BY <1>5, <2>1, <3>1, <3>2, <3>3, FindsOnce DEF ReadCodes, SessionOnly
  <2> QED BY <2>2, <2>3
<1>6. CASE SpendCode(q)
  <2>1. /\ HoldsCodes(request[q]) /\ Holds(request[q]) /\ request[q].op = "recovery"
        /\ Goto(q, "issue") /\ Use(q) /\ UNCHANGED <<session, link, states, drawn>>
    BY <1>6 DEF SpendCode, AtStep, HoldsCodes, Holds, AccountOnly
  <2>2. account'.codes = request[q].codes
    BY <1>1, <1>6 DEF SpendCode, Accounts
  <2>3. request[q].arg \notin account'.codes
    BY <2>1, <2>2 DEF CodesShrink
  <2>4. /\ OthersSame(q) /\ request'[q].op = "recovery" /\ request'[q].arg = request[q].arg
        /\ request'[q].step = "issue"
    BY <2>1, GotoSame
  <2>5. Useless(request[q].op, request[q].arg)' \/ Presented(q) \in excused
    <3> SUFFICES ASSUME Presented(q) \notin excused PROVE Useless(request[q].op, request[q].arg)'
      OBVIOUS
    <3>1. ASSUME NEW r \in Requests PROVE ~HoldsCodes(request'[r])
      <4>1. CASE r = q
        BY <2>4, <4>1 DEF HoldsCodes, Holds
      <4>2. CASE r # q
        <5>1. ~HoldsCodes(request[r])
          BY <2>1, <4>2 DEF Overlap, Clash, HoldsCodes
        <5> QED BY <2>4, <4>2, <5>1 DEF OthersSame, Same, HoldsCodes, Holds
      <4> QED BY <4>1, <4>2
    <3> QED BY <2>3, <2>4, <3>1 DEF Useless, LinkKinds
  <2> QED BY <2>1, <2>2, <2>5, UsesOnce
<1>7. CASE ReadSetup(q) \/ ReadTwoFactor(q)
  <2>1. request[q].op \in {"setup", "enable", "disable"} /\ ~Spending(request[q])
    BY <1>7 DEF ReadSetup, ReadTwoFactor, AtStep, Spending
  <2>2. Done(q) \/ Goto(q, "write") \/ Goto(q, "seal")
    BY <1>7 DEF ReadSetup, ReadTwoFactor
  <2> QED BY <1>2, <1>7, <2>1, <2>2 DEF ReadSetup, ReadTwoFactor, RequestOnly, NoUse
<1>8. CASE WriteSecret(q)
  <2>1. account'.codes = account.codes /\ drawn'.state = drawn.state /\ drawn'.code = drawn.code
    BY <1>1, <1>8 DEF WriteSecret, Accounts, TypeOK
  <2> QED BY <1>2, <1>8, <2>1 DEF WriteSecret, AtStep, AccountOnly, NoUse, Spending
<1>9. CASE WriteEnabled(q)
  <2>1. /\ request[q].op = "enable" /\ Goto(q, "revoke")
        /\ UNCHANGED <<session, link, states, used, twice, excused>>
    BY <1>9 DEF WriteEnabled, AccountOnly, NoUse
  <2>2. /\ drawn'.code = drawn.code + CodeCount /\ drawn'.state = drawn.state
        /\ account'.codes = drawn.code + 1 .. drawn.code + CodeCount
    BY <1>1, <1>9 DEF WriteEnabled, Accounts, TypeOK
  <2>3. /\ OthersSame(q) /\ request'[q].op = "enable" /\ request'[q].arg = request[q].arg
        /\ request'[q].codes = request[q].codes /\ request'[q].step = "revoke"
    BY <2>1, GotoSame
  <2>4. drawn.code \in Nat /\ drawn.state \in Nat /\ CodeCount \in Nat
        /\ \A k \in LinkKinds : link[k].drawn \in Nat /\ link'[k] = link[k]
    BY <2>1, DrawnNat, SessionBoundsAssumption
  <2>5. Grows /\ account'.codes \subseteq 1..drawn'.code
        /\ \A c \in account'.codes : c \notin 1..drawn.code
    BY <2>2, <2>4 DEF Grows
  <2>6. Drawn(request[q])'
    BY <2>1, <2>3, <2>5, DrawnMoves
  <2>7. AllDrawn'
    BY <2>1, <2>2, <2>3, <2>5, <2>6, DrawnKept DEF AllDrawn
  <2>8. ~Holds(request'[q]) /\ ~Spending(request[q])
    BY <2>1, <2>3 DEF Holds, Spending
  <2>9. BringsBackNothing(q)
    BY <2>1, <2>5, <2>8 DEF BringsBackNothing, HoldsCodes
  <2> QED BY <2>1, <2>3, <2>7, <2>8, <2>9, OnceQuiet
<1>10. CASE WriteDisabled(q)
  <2>1. account'.codes = {}
    BY <1>1, <1>10 DEF WriteDisabled, Accounts
  <2> QED BY <1>2, <1>10, <2>1 DEF WriteDisabled, AtStep, AccountOnly, NoUse, Spending
<1> QED BY <1>3, <1>4, <1>5, <1>6, <1>7, <1>8, <1>9, <1>10 DEF TwoFactorStep

(* Signing in with Google. *)
LEMMA GoogleOnce ==
  ASSUME OnceInv, BaseInv', NEW q \in Requests, GoogleStep(q)
  PROVE  OnceInv'
<1> USE DEF OnceInv, BaseInv
<1>1. /\ request[q] \in RequestRecord /\ account \in Accounts
      /\ \A k \in LinkKinds : link[k].mailed \subseteq 1..link[k].drawn
  BY Fields DEF AllDrawn, TypeOK
<1>2. request[q].op = "google" /\ ~Spending(request[q])
  BY DEF GoogleStep, GetState, StateUnknown, DeleteState, GoogleRefuses, FindGoogleUser,
         LinkGoogle, CreateGoogleUser, AtStep, Spending
<1>3. ASSUME UNCHANGED <<session, link, states, drawn, used, twice, excused>>,
             account'.codes \subseteq account.codes,
             \/ Done(q)
             \/ \E step \in {"issue", "link", "create"} : \E choice, proof :
                  \/ request' = [request EXCEPT ![q].step = step, ![q].choice = choice]
                  \/ request' = [request EXCEPT ![q].step = step, ![q].proof = proof]
      PROVE  OnceInv'
  <2>1. /\ OthersSame(q)
        /\ \/ request'[q] = Idle
           \/ /\ request'[q].op = request[q].op /\ request'[q].arg = request[q].arg
              /\ request'[q].codes = request[q].codes
              /\ request'[q].step \in {"issue", "link", "create"}
    BY <1>1, <1>3, DoneSame DEF OthersSame, Same, TypeOK, RequestRecord
  <2>2. request'[q].step \in {"issue", "link", "create"} => ~Holds(request'[q])
    BY DEF Holds
  <2> QED BY <1>1, <1>2, <1>3, <2>1, <2>2, OncePlain
<1>4. CASE GetState(q)
  <2>1. /\ OthersSame(q) /\ request'[q].op = request[q].op /\ request'[q].arg = request[q].arg
        /\ request'[q].step = "spend" /\ request'[q].codes = request[q].codes
    BY <1>4, GotoSame DEF GetState
  <2>2. ~Useless(request[q].op, request[q].arg)
    BY <1>2, <1>4 DEF GetState, Useless
  <2> QED BY <1>2, <1>4, <2>1, <2>2, FindsOnce DEF GetState, SessionOnly
<1>5. CASE StateUnknown(q) \/ GoogleRefuses(q)
  BY <1>3, <1>5 DEF StateUnknown, GoogleRefuses, RequestOnly, NoUse
<1>6. CASE DeleteState(q)
  <2>1. /\ Goto(q, "find") /\ Use(q) /\ Holds(request[q])
        /\ UNCHANGED <<account, session, drawn, link>> /\ states' = states \ {request[q].arg}
    BY <1>2, <1>6 DEF DeleteState, AtStep, Holds, RedisOnly
  <2>2. request'[q].op = "google" /\ request'[q].arg = request[q].arg
    BY <1>2, <2>1, GotoSame
  <2>3. Useless(request[q].op, request[q].arg)'
    BY <1>2, <2>1, <2>2 DEF Useless, LinkKinds
  <2>4. states' \subseteq states /\ account'.codes \subseteq account.codes
    BY <2>1
  <2> QED BY <1>2, <2>1, <2>3, <2>4, UsesOnce
<1>7. CASE FindGoogleUser(q)
  <2>1. \/ Done(q)
        \/ \E step \in {"issue", "link", "create"} : \E choice, proof :
             \/ request' = [request EXCEPT ![q].step = step, ![q].choice = choice]
             \/ request' = [request EXCEPT ![q].step = step, ![q].proof = proof]
    <3>1. CASE account.google
      BY <1>7, <3>1 DEF FindGoogleUser, Admit
    <3>2. CASE ~account.google
      <4>1. PICK step \in {"link", "create"}, choice \in Nat :
              request' = [request EXCEPT ![q].step = step, ![q].choice = choice]
        BY <1>1, <1>7, <3>2 DEF FindGoogleUser, RequestRecord
      <4> QED BY <4>1
    <3> QED BY <3>1, <3>2
  <2> QED BY <1>3, <1>7, <2>1 DEF FindGoogleUser, NoUse
<1>8. CASE LinkGoogle(q)
  <2>1. account'.codes = account.codes
    BY <1>1, <1>8 DEF LinkGoogle, Linked, Accounts
  <2>2. Done(q) \/ \E proof : request' = [request EXCEPT ![q].step = "issue", ![q].proof = proof]
    BY <1>8 DEF LinkGoogle, Admit
  <2> QED BY <1>3, <1>8, <2>1, <2>2 DEF LinkGoogle, NoUse
<1>9. CASE CreateGoogleUser(q)
  <2>1. account'.codes \subseteq account.codes
    BY <1>9 DEF CreateGoogleUser, Linked, Nobody
  <2>2. Done(q) \/ request' = [request EXCEPT ![q].step = "issue", ![q].proof = NoProof]
    BY <1>9 DEF CreateGoogleUser
  <2> QED BY <1>3, <1>9, <2>1, <2>2 DEF CreateGoogleUser, AccountOnly, NoUse
<1> QED BY <1>4, <1>5, <1>6, <1>7, <1>8, <1>9 DEF GoogleStep

(* Consent pages, the guard of protected routes, requests cut short. *)
LEMMA OtherOnce ==
  ASSUME OnceInv, BaseInv', OpenConsent \/ \E q \in Requests : Authenticate(q) \/ Abort(q)
  PROVE  OnceInv'
<1> USE DEF OnceInv, BaseInv
<1>1. CASE OpenConsent
  <2>1. /\ drawn'.state = drawn.state + 1 /\ drawn'.code = drawn.code
        /\ drawn.state \in Nat /\ states' = states \cup {drawn.state + 1}
        /\ UNCHANGED <<account, session, link, request, used, twice, excused>>
    BY <1>1, DrawnNat DEF OpenConsent, history, TypeOK
  <2>2. 1..drawn.state \subseteq 1..drawn'.state /\ states' \subseteq 1..drawn'.state
    <3>1. ASSUME NEW d \in Nat PROVE 1..d \subseteq 1..(d + 1) /\ d + 1 \in 1..(d + 1)
      OBVIOUS
    <3>2. states \subseteq 1..drawn.state
      BY DEF AllDrawn
    <3> QED BY <2>1, <3>1, <3>2
  <2>3. AllDrawn'
    <3>1. ASSUME NEW r \in Requests PROVE Drawn(request[r])'
      <4>1. Drawn(request[r])
        BY DEF AllDrawn
      <4> QED BY <2>1, <2>2, <4>1 DEF Drawn
    <3> QED BY <2>1, <2>2, <3>1 DEF AllDrawn
  <2>4. ASSUME NEW k \in {"verify", "reset", "recovery", "refresh", "google"}, NEW n \in Nat,
               <<k, n>> \in used, <<k, n>> \notin excused
        PROVE  Useless(k, n)'
    <3>1. Useless(k, n)
      BY <2>4 DEF UsedUp
    <3>2. k = "google" => n \in 1..drawn.state
      BY <2>4 DEF AllDrawn
    <3>3. k = "google" => n \notin states'
      BY <2>1, <3>1, <3>2 DEF Useless
    <3> QED BY <2>1, <3>1, <3>3 DEF Useless
  <2> QED BY <2>1, <2>3, <2>4 DEF UsedUp, CodesShrink, Overlap, Clash, Innocent, Presented
<1>2. ASSUME NEW q \in Requests, Authenticate(q)
      PROVE  OnceInv'
  <2>1. request[q].op \in Protected /\ request[q].step = "guard"
    BY <1>2 DEF Authenticate, Inputs, InputOK
  <2>2. Done(q) \/ \E step \in {"deny", "read"} : Goto(q, step)
    BY <1>2 DEF Authenticate
  <2>3. ASSUME NEW step \in {"deny", "read"}, Goto(q, step) PROVE ~Holds(request'[q])
    BY <2>1, <2>3, GotoSame DEF Holds, Protected
  <2> QED BY <1>2, <2>1, <2>2, <2>3, OnceMoves DEF Authenticate, RequestOnly, NoUse, Spending, Steps
<1>3. ASSUME NEW q \in Requests, Abort(q)
      PROVE  OnceInv'
  <2>1. /\ OthersSame(q) /\ request'[q] = Idle
        /\ \A k \in LinkKinds : link[k].mailed \subseteq 1..link[k].drawn
    BY <1>3, DoneSame DEF Abort, AllDrawn
  <2>2. /\ UNCHANGED <<account, session, link, states, drawn, used, twice>>
        /\ excused \subseteq excused' /\ (Spending(request[q]) => Presented(q) \in excused')
    BY <1>3 DEF Abort
  <2> QED BY <2>1, <2>2, OncePlain
<1> QED BY <1>1, <1>2, <1>3

(* A refresh token, a recovery code, a mailed link and an OAuth state work *)
(* once, unless two requests presented it at the same time or a request    *)
(* was cut short between the use of its link and its end (WorksOnce).      *)
THEOREM UsedOnce == Spec => []WorksOnce
<1>1. Init => OnceInv
  <2> SUFFICES ASSUME Init PROVE OnceInv
    OBVIOUS
  <2>1. BaseInv /\ used = {} /\ twice = {} /\ states = {} /\ \A q \in Requests : request[q] = Idle
    BY InitBase DEF Init
  <2>2. \A q \in Requests : ~Holds(request[q]) /\ Drawn(request[q])
    BY <2>1 DEF Holds, Drawn, Idle
  <2>3. account.codes \subseteq 1..drawn.code
    <3>1. drawn.code = IF account.enabled THEN CodeCount ELSE 0
      BY DEF Init
    <3>2. CASE account = Nobody
      BY <3>2 DEF Nobody
    <3>3. ASSUME NEW enabled \in BOOLEAN, NEW sealed \in BOOLEAN, account = SomeUser(enabled, sealed)
          PROVE  account.codes \subseteq 1..drawn.code
      BY <3>1, <3>3 DEF SomeUser
    <3> QED BY <3>2, <3>3 DEF Init
  <2>4. \A k \in LinkKinds :
          link[k].nonce \in 0..link[k].drawn /\ link[k].mailed \subseteq 1..link[k].drawn
    BY DEF Init, NoLinks
  <2>5. AllDrawn
    BY <2>1, <2>2, <2>3, <2>4 DEF AllDrawn
  <2> QED BY <2>1, <2>2, <2>5
          DEF OnceInv, UsedUp, CodesShrink, HoldsCodes, Overlap, Clash, Innocent
<1>2. OnceInv /\ [Next]_vars => OnceInv'
  <2> SUFFICES ASSUME OnceInv, [Next]_vars PROVE OnceInv'
    OBVIOUS
  <2>1. BaseInv'
    BY NextBase DEF OnceInv
  <2>2. CASE UNCHANGED vars
    BY <2>1, <2>2
    DEF vars, OnceInv, AllDrawn, Drawn, UsedUp, Useless, CodesShrink, HoldsCodes, Holds, Spending,
        Overlap, Clash, Innocent, Presented
  <2>3. CASE Next
    BY <2>1, <2>3, SendOnce, LinkOnce, SignInOnce, TwoFactorOnce, GoogleOnce, OtherOnce DEF Next
  <2> QED BY <2>2, <2>3
<1>3. OnceInv => WorksOnce
  BY DEF OnceInv, WorksOnce
<1> QED BY <1>1, <1>2, <1>3, PTL DEF Spec

=============================================================================

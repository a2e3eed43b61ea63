------------------------------ MODULE Accounts ------------------------------
(***************************************************************************)
(* The sessions of one account (app/iam): registration, login, OAuth       *)
(* sign-in, the rotation of refresh tokens and the detection of their      *)
(* reuse, logout; and, for the account of a mentor, its activation by an   *)
(* invitation and its suspension (app/mentors).                            *)
(*                                                                         *)
(* A chain is what one device got from one login: a refresh token and the  *)
(* tokens it was exchanged for, one after the other.  A request runs in a  *)
(* transaction of its own.  `refresh` consumes its token by a conditional  *)
(* UPDATE, so it holds the lock of that row until it commits or rolls      *)
(* back; the other operations read first and write later.  Answers may be  *)
(* lost and requests may be sent twice.                                    *)
(***************************************************************************)
EXTENDS Integers, FiniteSets

CONSTANTS
    Devices,        \* what the tokens are kept on
    Requests,       \* the requests being served
    Codes,          \* the one-time codes of the OAuth sign-in, in Redis
    MaxTokens,      \* a bound on the rows of refresh_tokens
    MaxFaults,      \* a bound on lost answers, aborted requests and double sends
    NoToken, NoChain, NoCode, NoDevice

Tokens == 1..MaxTokens

ASSUME AccountsAssumption ==
    /\ MaxTokens \in Nat /\ MaxFaults \in Nat /\ IsFiniteSet(Requests)
    /\ NoToken \notin Tokens /\ NoChain \notin Tokens \cup Codes /\ NoCode \notin Codes
    /\ NoDevice \notin Devices /\ Codes \cap Tokens = {}

VARIABLES
    account,  \* the status of the user, "NONE" before he registers
    invitation,  \* of a mentor whom an administrator approved; "NONE" for a founder
    token,    \* [Tokens -> {"UNUSED", "ACTIVE", "REVOKED"}], as committed
    old,      \* the tokens past their expires_at
    chain,    \* [Tokens -> chains], the login a token descends from; not in the code
    codes,    \* [Codes -> {"NONE", "READY", "SPENT"}]
    held,     \* [Devices -> Tokens \cup {NoToken}], the last token a device was given
    req,      \* [Requests -> Request]
    faults    \* the faults so far

tokens == <<token, old, chain>>
database == <<account, invitation, tokens>>
accountVars == <<database, codes, held, req, faults>>

Chains == Tokens \cup Codes
Operations == {"register", "login", "exchange", "refresh", "logout"}
Steps == {"idle", "sent", "consumed", "issuing", "answered", "replayed", "revoking", "closing"}
Request == [op : Operations, pc : Steps, device : Devices \cup {NoDevice},
            token : Tokens \cup {NoToken}, code : Codes \cup {NoCode}, seen : SUBSET Tokens]

AccountTypeOK ==
    /\ account \in {"NONE", "INVITED", "ACTIVE", "SUSPENDED"}
    /\ invitation \in {"NONE", "PENDING", "ACCEPTED"}
    /\ account \in {"INVITED", "SUSPENDED"} => invitation # "NONE"
    /\ token \in [Tokens -> {"UNUSED", "ACTIVE", "REVOKED"}]
    /\ old \subseteq Tokens
    /\ chain \in [Tokens -> Chains \cup {NoChain}]
    /\ \A t \in Tokens : token[t] = "UNUSED" <=> chain[t] = NoChain
    /\ codes \in [Codes -> {"NONE", "READY", "SPENT"}]
    /\ held \in [Devices -> Tokens \cup {NoToken}]
    /\ req \in [Requests -> Request]
    /\ faults \in 0..MaxFaults

Idle == [op |-> "login", pc |-> "idle", device |-> NoDevice, token |-> NoToken,
         code |-> NoCode, seen |-> {}]

AccountInit ==
    /\ \/ account = "NONE" /\ invitation = "NONE"
       \/ account = "INVITED" /\ invitation = "PENDING"
    /\ token = [t \in Tokens |-> "UNUSED"]
    /\ old = {}
    /\ chain = [t \in Tokens |-> NoChain]
    /\ codes = [c \in Codes |-> "NONE"]
    /\ held = [d \in Devices |-> NoToken]
    /\ req = [r \in Requests |-> Idle]
    /\ faults = 0

At(r, op, step) == req[r].op = op /\ req[r].pc = step
GoTo(r, step) == req' = [req EXCEPT ![r].pc = step]
Close(r) == req' = [req EXCEPT ![r] = Idle]

Open == {r \in Requests : req[r].pc # "idle"}
Unused == {t \in Tokens : token[t] = "UNUSED"}

\* Another request has consumed the token, and its transaction is open.
Locked(t, r) == \E q \in Requests \ {r} :
    req[q].op = "refresh" /\ req[q].pc \in {"consumed", "issuing"} /\ req[q].token = t

-----------------------------------------------------------------------------
(* The clients.                                                            *)

\* A device sends what it holds.  It may do so again before it has got its answer.
Send(r, d, op) ==
    /\ req[r].pc = "idle" /\ Cardinality(Unused) > Cardinality(Open)
    /\ op \in {"refresh", "logout"} => held[d] # NoToken
    /\ \E c \in Codes \cup {NoCode} :
        /\ IF op = "exchange" THEN c # NoCode /\ codes[c] # "NONE" ELSE c = NoCode
        /\ req' = [req EXCEPT ![r] = [op |-> op, pc |-> "sent", device |-> d, code |-> c, seen |-> {},
                       token |-> IF op \in {"refresh", "logout"} THEN held[d] ELSE NoToken]]
    /\ faults' = faults + IF \E q \in Open : req[q].device = d THEN 1 ELSE 0
    /\ faults' <= MaxFaults
    /\ held' = IF op = "logout" THEN [held EXCEPT ![d] = NoToken] ELSE held
    /\ UNCHANGED <<database, codes>>

Deliver(r) ==
    /\ req[r].pc = "answered"
    /\ held' = [held EXCEPT ![req[r].device] = req[r].token]
    /\ Close(r)
    /\ UNCHANGED <<database, codes, faults>>

\* The answer is lost, or the request is aborted before its commit.
Lose(r) ==
    /\ req[r].pc # "idle" /\ faults < MaxFaults
    /\ faults' = faults + 1
    /\ Close(r)
    /\ UNCHANGED <<database, codes, held>>

-----------------------------------------------------------------------------
(* Registration, login, OAuth.                                             *)

\* register looks for the email.
CheckEmail(r) ==
    /\ At(r, "register", "sent")
    /\ IF account = "NONE" THEN GoTo(r, "issuing") ELSE Close(r)
    /\ UNCHANGED <<database, codes, held, faults>>

\* The email was taken meanwhile: the unique index refuses the row.
EmailTaken(r) ==
    /\ At(r, "register", "issuing") /\ account # "NONE"
    /\ Close(r)
    /\ UNCHANGED <<database, codes, held, faults>>

CheckPassword(r) ==
    /\ At(r, "login", "sent")
    /\ IF account = "ACTIVE" THEN GoTo(r, "issuing") ELSE Close(r)
    /\ UNCHANGED <<database, codes, held, faults>>

\* handle_callback: a code for an active account, which is created if need be.
OAuthCallback(c) ==
    /\ codes[c] = "NONE" /\ account \in {"NONE", "ACTIVE"}   \* "ACTIVE": else a conflict, and no code
    /\ account' = "ACTIVE"
    /\ codes' = [codes EXCEPT ![c] = "READY"]
    /\ UNCHANGED <<invitation, tokens, held, req, faults>>

CodeExpires(c) ==
    /\ codes[c] = "READY"
    /\ codes' = [codes EXCEPT ![c] = "SPENT"]
    /\ UNCHANGED <<database, held, req, faults>>

\* Mutant: the code is read and stays in Redis until it expires.
ExchangeKeeping(r) ==
    /\ At(r, "exchange", "sent")
    /\ IF codes[req[r].code] = "READY" THEN GoTo(r, "issuing") ELSE Close(r)
    /\ UNCHANGED <<database, codes, held, faults>>

\* exchange takes the code out of Redis (GETDEL); it does not look at the status.
Exchange(r) ==
    /\ At(r, "exchange", "sent")
    /\ IF codes[req[r].code] = "READY" THEN GoTo(r, "issuing") ELSE Close(r)
    /\ codes' = [codes EXCEPT ![req[r].code] = "SPENT"]
    /\ UNCHANGED <<database, held, faults>>

\* _issue_tokens adds a token and commits, with it the account that was created or the token
\* that was consumed.
Issue(r) ==
    /\ req[r].pc = "issuing"
    /\ req[r].op = "register" => account = "NONE"
    /\ \E n \in Unused :
        /\ \A m \in Unused : n <= m
        /\ token' = [t \in Tokens |->
                        IF t = n THEN "ACTIVE"
                        ELSE IF req[r].op = "refresh" /\ t = req[r].token THEN "REVOKED"
                        ELSE token[t]]
        /\ chain' = [chain EXCEPT ![n] =
                        CASE req[r].op = "refresh" -> chain[req[r].token]
                          [] req[r].op = "exchange" -> req[r].code
                          [] OTHER -> n]
        /\ req' = [req EXCEPT ![r].pc = "answered", ![r].token = n]
    /\ account' = IF req[r].op = "register" THEN "ACTIVE" ELSE account
    /\ UNCHANGED <<invitation, old, codes, held, faults>>

-----------------------------------------------------------------------------
(* The rotation of the refresh tokens.                                     *)

\* Mutant: the UPDATE does not ask whether the row is revoked.
ConsumeAny(r) ==
    /\ At(r, "refresh", "sent") /\ ~ Locked(req[r].token, r)
    /\ GoTo(r, "consumed")
    /\ UNCHANGED <<database, codes, held, faults>>

\* consume_if_active finds a row that is not revoked.
Consume(r) ==
    /\ At(r, "refresh", "sent") /\ token[req[r].token] = "ACTIVE" /\ ~ Locked(req[r].token, r)
    /\ GoTo(r, "consumed")
    /\ UNCHANGED <<database, codes, held, faults>>

\* Mutant: the consumption is committed before the checks.
CheckStatusTooLate(r) ==
    /\ At(r, "refresh", "consumed")
    /\ IF req[r].token \notin old /\ account = "ACTIVE"
       THEN GoTo(r, "issuing") /\ UNCHANGED token
       ELSE Close(r) /\ token' = [token EXCEPT ![req[r].token] = "REVOKED"]
    /\ UNCHANGED <<account, invitation, old, chain, codes, held, faults>>

\* The expiry and the status are read next; a refusal rolls the consumption back.
CheckStatus(r) ==
    /\ At(r, "refresh", "consumed")
    /\ IF req[r].token \notin old /\ account = "ACTIVE" THEN GoTo(r, "issuing") ELSE Close(r)
    /\ UNCHANGED <<database, codes, held, faults>>

\* consume_if_active finds no row: the token was consumed before.
Replay(r) ==
    /\ At(r, "refresh", "sent") /\ token[req[r].token] = "REVOKED"
    /\ GoTo(r, "replayed")
    /\ UNCHANGED <<database, codes, held, faults>>

\* revoke_all_for_user loads the tokens that are not revoked ...
LoadActive(r) ==
    /\ At(r, "refresh", "replayed")
    /\ req' = [req EXCEPT ![r].pc = "revoking", ![r].seen = {t \in Tokens : token[t] = "ACTIVE"}]
    /\ UNCHANGED <<database, codes, held, faults>>

\* ... and writes each of them, once nobody else holds its lock.
RevokeAll(r) ==
    /\ At(r, "refresh", "revoking") /\ \A t \in req[r].seen : ~ Locked(t, r)
    /\ token' = [t \in Tokens |-> IF t \in req[r].seen THEN "REVOKED" ELSE token[t]]
    /\ Close(r)
    /\ UNCHANGED <<account, invitation, old, chain, codes, held, faults>>

LogoutRead(r) ==
    /\ At(r, "logout", "sent")
    /\ IF token[req[r].token] = "ACTIVE" THEN GoTo(r, "closing") ELSE Close(r)
    /\ UNCHANGED <<database, codes, held, faults>>

\* Mutant: the row is deleted, and its reuse no longer detected.
LogoutDeleting(r) ==
    /\ At(r, "logout", "closing") /\ ~ Locked(req[r].token, r)
    /\ token' = [token EXCEPT ![req[r].token] = "UNUSED"]
    /\ Close(r)
    /\ UNCHANGED <<account, invitation, old, chain, codes, held, faults>>

LogoutWrite(r) ==
    /\ At(r, "logout", "closing") /\ ~ Locked(req[r].token, r)
    /\ token' = [token EXCEPT ![req[r].token] = "REVOKED"]
    /\ Close(r)
    /\ UNCHANGED <<account, invitation, old, chain, codes, held, faults>>

-----------------------------------------------------------------------------

Expire(t) ==
    /\ token[t] # "UNUSED" /\ t \notin old
    /\ old' = old \cup {t}
    /\ UNCHANGED <<account, invitation, token, chain, codes, held, req, faults>>

\* accept_invitation makes the account active, whatever it was.
AcceptInvitation ==
    /\ invitation = "PENDING"
    /\ account' = "ACTIVE" /\ invitation' = "ACCEPTED"
    /\ UNCHANGED <<tokens, codes, held, req, faults>>

\* set_mentor_status leaves the tokens as they are.  Only a mentor can be suspended.
SetStatus ==
    /\ invitation # "NONE"
    /\ account' \in {"ACTIVE", "SUSPENDED"}
    /\ UNCHANGED <<invitation, tokens, codes, held, req, faults>>

Serve(r) ==
    \/ CheckEmail(r) \/ EmailTaken(r) \/ CheckPassword(r) \/ Exchange(r) \/ Issue(r) \/ Deliver(r)
    \/ Consume(r) \/ CheckStatus(r) \/ Replay(r) \/ LoadActive(r) \/ RevokeAll(r)
    \/ LogoutRead(r) \/ LogoutWrite(r)

AccountNext ==
    \/ \E r \in Requests :
        \/ Serve(r) \/ Lose(r)
        \/ \E d \in Devices, op \in Operations : Send(r, d, op)
    \/ \E c \in Codes : OAuthCallback(c) \/ CodeExpires(c)
    \/ \E t \in Tokens : Expire(t)
    \/ AcceptInvitation \/ SetStatus

AccountSpec == AccountInit /\ [][AccountNext]_accountVars

-----------------------------------------------------------------------------

\* A chain has at most one token that can be used: the rotation never forks, and a code of the
\* OAuth sign-in opens one session.
OneTokenPerChain ==
    \A t, u \in Tokens : token[t] = "ACTIVE" /\ token[u] = "ACTIVE" /\ chain[t] = chain[u] => t = u

\* A session that was ended, by a logout or by a replay, never comes back.
Ended(x) == (\E t \in Tokens : chain[t] = x) /\ (\A t \in Tokens : chain[t] = x => token[t] = "REVOKED")
EndedForGood == [][\A x \in Chains : Ended(x) => Ended(x)']_accountVars

\* Nobody is taken for a thief whose answers all arrive and who sends one request at a time on each
\* device: no token is replayed, and what a device holds can be used.
RotationIsSafe ==
    faults = 0 =>
        /\ \A r \in Requests : req[r].pc \notin {"replayed", "revoking"}
        /\ \A d \in Devices : held[d] # NoToken /\ (\A r \in Open : req[r].device # d)
                              => token[held[d]] = "ACTIVE"
=============================================================================

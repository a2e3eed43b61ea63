---------------------------- MODULE PeopleProofs ----------------------------
(***************************************************************************)
(* The sessions of a user (Accounts) for any number of devices, tokens,    *)
(* codes and requests; the life of a mentor (Mentorship) for any number of *)
(* candidates, applications, requests and calls, when the administrators   *)
(* suspend mentors one at a time; and the guided modules of a founder      *)
(* (Academy) for any number of modules and calls.                          *)
(***************************************************************************)
EXTENDS People, FoldLemmas

-----------------------------------------------------------------------------
(* The sessions of a user.                                                 *)

\* A request holds the lock of the token it consumed, or has taken a code out of Redis and is about to
\* open a session with it.
Holds(v) == v.op = "refresh" /\ v.pc \in {"consumed", "issuing"}
Opens(v) == v.op = "exchange" /\ v.pc = "issuing"

\* What a request has in hand is still true of the database.
Fits(v) ==
    /\ v.op \in {"refresh", "logout"} /\ v.pc # "idle" => v.token \in Tokens
    /\ v.op = "exchange" /\ v.pc # "idle" => v.code \in Codes
    /\ v.token \in Tokens => token[v.token] # "UNUSED"
    /\ \A t \in v.seen : token[t] # "UNUSED"
    /\ Holds(v) => token[v.token] = "ACTIVE"
    /\ Opens(v) => codes[v.code] = "SPENT" /\ \A t \in Tokens : chain[t] # v.code

\* Two requests never hold one token, nor open a session with one code.
Apart(v, w) ==
    /\ Holds(v) /\ Holds(w) => v.token # w.token
    /\ Opens(v) /\ Opens(w) => v.code # w.code

\* OneTokenPerChain is not inductive alone: a refresh extends a chain by a token, and what makes that
\* token the only one is that the request still holds the one it replaces.
SessionInv ==
    /\ AccountTypeOK
    /\ \A r \in Requests : Fits(req[r])
    /\ \A r, q \in Requests : r # q => Apart(req[r], req[q])
    /\ \A d \in Devices : held[d] \in Tokens => token[held[d]] # "UNUSED"
    /\ \A t \in Tokens : chain[t] \in Tokens => token[chain[t]] # "UNUSED"
    /\ \A c \in Codes : codes[c] # "SPENT" => \A t \in Tokens : chain[t] # c
    /\ OneTokenPerChain

-----------------------------------------------------------------------------
(* The shapes of the steps.                                                *)

LEMMA IdleFits == Idle \in Request /\ Fits(Idle) /\ \A w : Apart(Idle, w)
  BY AccountsAssumption DEF Idle, Request, Operations, Steps, Fits, Holds, Opens, Apart

\* One request goes on; no token and no code changes.
LEMMA RequestMoves ==
  ASSUME SessionInv, NEW r \in Requests, NEW v \in Request,
         Fits(v), \A q \in Requests \ {r} : Apart(v, req[q]),
         req' = [req EXCEPT ![r] = v],
         UNCHANGED <<token, chain, codes>>, AccountTypeOK',
         \A d \in Devices : held'[d] \in Tokens => token[held'[d]] # "UNUSED"
  PROVE  SessionInv'
<1>1. \A q \in Requests : req'[q] = IF q = r THEN v ELSE req[q]
  BY DEF SessionInv, AccountTypeOK
<1>2. \A w : Fits(w)' <=> Fits(w)
  BY DEF Fits, Holds, Opens
<1>3. \A q \in Requests : Fits(req'[q])
  BY <1>1 DEF SessionInv
<1>4. \A q, s \in Requests : q # s => Apart(req'[q], req'[s])
  BY <1>1 DEF SessionInv, Apart
<1>5. \A q \in Requests : Fits(req[q])'
  BY <1>3 DEF Fits, Holds, Opens
<1>6. \A q, s \in Requests : q # s => Apart(req[q], req[s])'
  BY <1>4 DEF Apart, Holds, Opens
<1> QED BY <1>5, <1>6 DEF SessionInv, OneTokenPerChain

\* A request revokes tokens that nobody else holds, and ends.
LEMMA TokensRevoked ==
  ASSUME SessionInv, NEW r \in Requests, NEW S \in SUBSET Tokens,
         \A t \in S : token[t] # "UNUSED" /\ ~ Locked(t, r),
         token' = [t \in Tokens |-> IF t \in S THEN "REVOKED" ELSE token[t]],
         req' = [req EXCEPT ![r] = Idle],
         UNCHANGED <<account, invitation, old, chain, codes, held, faults>>
  PROVE  SessionInv'
<1> USE DEF SessionInv
<1>1. \A q \in Requests : req'[q] = IF q = r THEN Idle ELSE req[q]
  BY DEF AccountTypeOK
<1>2. AccountTypeOK'
  BY IdleFits DEF AccountTypeOK
<1>3. \A t \in Tokens : /\ token'[t] # "UNUSED" <=> token[t] # "UNUSED"
                        /\ token'[t] = "ACTIVE" <=> token[t] = "ACTIVE" /\ t \notin S
  OBVIOUS
<1>4. ASSUME NEW q \in Requests PROVE Fits(req[q])'
  <2>1. CASE q = r
    <3>1. req'[q] = Idle
      BY <1>1, <2>1
    <3> QED BY <3>1, AccountsAssumption DEF Fits, Idle, Holds, Opens
  <2>2. CASE q # r
    <3>1. req'[q] = req[q] /\ Fits(req[q]) /\ req[q] \in Request
      BY <1>1, <2>2 DEF AccountTypeOK
    <3>2. Holds(req[q]) => req[q].token \in Tokens /\ req[q].token \notin S
      BY <2>2, <3>1 DEF Locked, Fits, Holds
    <3> QED BY <1>3, <3>1, <3>2 DEF Fits, Holds, Opens, Request
  <2> QED BY <2>1, <2>2
<1>5. \A q, s \in Requests : q # s => Apart(req[q], req[s])'
  <2>1. \A q, s \in Requests : q # s => Apart(req'[q], req'[s])
    BY <1>1, IdleFits DEF Apart, Holds, Opens
  <2> QED BY <2>1 DEF Apart, Holds, Opens
<1>6. OneTokenPerChain'
  BY <1>3 DEF OneTokenPerChain
<1> QED BY <1>2, <1>3, <1>4, <1>5, <1>6

\* Nothing happens to requests and tokens.
LEMMA Elsewhere ==
  ASSUME SessionInv, AccountTypeOK', UNCHANGED <<token, chain, held, req>>,
         \A c \in Codes : codes'[c] # codes[c] =>
                              \/ codes[c] = "NONE"
                              \/ codes'[c] = "SPENT"
  PROVE  SessionInv'
<1> USE DEF SessionInv
<1>1. \A c \in Codes : codes'[c] # "SPENT" => codes[c] # "SPENT"
  OBVIOUS
<1>2. \A c \in Codes : codes[c] = "SPENT" => codes'[c] = "SPENT"
  OBVIOUS
<1>3. \A q \in Requests : Fits(req[q])'
  BY <1>2 DEF Fits, Holds, Opens
<1>4. \A q, s \in Requests : q # s => Apart(req[q], req[s])'
  BY DEF Apart, Holds, Opens
<1> QED BY <1>1, <1>3, <1>4 DEF OneTokenPerChain


\* _issue_tokens adds a token: to the chain of the one it replaces, or to a chain that has none.
LEMMA IssueAdds ==
  ASSUME SessionInv, NEW r \in Requests, Issue(r)
  PROVE  /\ SessionInv'
         /\ \A x \in Chains : Ended(x) => Ended(x)'
<1> USE DEF SessionInv
<1> DEFINE refreshing == req[r].op = "refresh"
           root(n) == CASE req[r].op = "refresh" -> chain[req[r].token]
                        [] req[r].op = "exchange" -> req[r].code
                        [] OTHER -> n
<1>1. PICK n \in Unused :
        /\ token' = [t \in Tokens |->
                        IF t = n THEN "ACTIVE"
                        ELSE IF req[r].op = "refresh" /\ t = req[r].token THEN "REVOKED"
                        ELSE token[t]]
        /\ chain' = [chain EXCEPT ![n] = root(n)]
        /\ req' = [req EXCEPT ![r].pc = "answered", ![r].token = n]
  BY DEF Issue
<1>2. /\ req[r].pc = "issuing" /\ req[r] \in Request /\ Fits(req[r])
      /\ account' = (IF req[r].op = "register" THEN "ACTIVE" ELSE account)
      /\ UNCHANGED <<invitation, old, codes, held, faults>>
  BY DEF Issue, AccountTypeOK
<1>3. n \in Tokens /\ token[n] = "UNUSED" /\ chain[n] = NoChain
  BY DEF Unused, AccountTypeOK
<1>4. refreshing => /\ req[r].token \in Tokens /\ token[req[r].token] = "ACTIVE"
                    /\ chain[req[r].token] \in Chains /\ req[r].token # n
  BY <1>2, <1>3, AccountsAssumption DEF Fits, Holds, AccountTypeOK, Chains
<1>5. req[r].op = "exchange" => /\ req[r].code \in Codes /\ codes[req[r].code] = "SPENT"
                                /\ \A t \in Tokens : chain[t] # req[r].code
  BY <1>2 DEF Fits, Opens
<1>6. root(n) \in Chains
  BY <1>3, <1>4, <1>5 DEF Chains
<1>7. \A t \in Tokens : t # n /\ chain[t] = root(n) => refreshing /\ chain[t] = chain[req[r].token]
  <2>1. \A t \in Tokens : chain[t] # n
    BY <1>3 DEF AccountTypeOK
  <2> QED BY <1>5, <2>1
<1> HIDE DEF root
<1>8. /\ \A t \in Tokens : chain'[t] = IF t = n THEN root(n) ELSE chain[t]
      /\ \A t \in Tokens : token'[t] = IF t = n THEN "ACTIVE"
                                       ELSE IF refreshing /\ t = req[r].token THEN "REVOKED"
                                       ELSE token[t]
      /\ \A q \in Requests : q # r => req'[q] = req[q]
      /\ req'[r] = [req[r] EXCEPT !.pc = "answered", !.token = n]
  BY <1>1 DEF AccountTypeOK
<1>9. AccountTypeOK'
  <2>1. token' \in [Tokens -> {"UNUSED", "ACTIVE", "REVOKED"}]
    BY <1>1 DEF AccountTypeOK
  <2>2. chain' \in [Tokens -> Chains \cup {NoChain}]
    BY <1>1, <1>6 DEF AccountTypeOK
  <2>3. \A t \in Tokens : token'[t] = "UNUSED" <=> chain'[t] = NoChain
    <3>1. NoChain \notin Chains
      BY AccountsAssumption DEF Chains
    <3>2. refreshing => chain[req[r].token] # NoChain
      BY <1>4, <3>1
    <3> QED BY <1>6, <1>8, <3>1, <3>2 DEF AccountTypeOK
  <2>4. req' \in [Requests -> Request]
    <3>1. [req[r] EXCEPT !.pc = "answered", !.token = n] \in Request
      BY <1>2, <1>3 DEF Request, Steps
    <3> QED BY <1>1, <1>8, <3>1 DEF AccountTypeOK
  <2> QED BY <1>2, <2>1, <2>2, <2>3, <2>4 DEF AccountTypeOK
<1>10. \A t \in Tokens : token[t] # "UNUSED" => token'[t] # "UNUSED"
  BY <1>8
<1>11. ASSUME NEW q \in Requests PROVE Fits(req[q])'
  <2>1. CASE q = r
    <3>1. ~ Holds(req[q])' /\ ~ Opens(req[q])'
      BY <1>8, <1>2, <2>1 DEF Holds, Opens, Request
    <3>2. token'[n] = "ACTIVE"
      BY <1>3, <1>8
    <3>3. /\ req'[q].op = req[r].op /\ req'[q].token = n
          /\ req'[q].code = req[r].code /\ req'[q].seen = req[r].seen
      BY <1>2, <1>8, <2>1 DEF Request
    <3>4. \A t \in req[r].seen : t \in Tokens /\ token[t] # "UNUSED"
      BY <1>2 DEF Fits, Request
    <3>5. req[r].op = "exchange" => req[r].code \in Codes
      BY <1>5
    <3> QED BY <1>3, <1>10, <3>1, <3>2, <3>3, <3>4, <3>5 DEF Fits
  <2>2. CASE q # r
    <3>1. req'[q] = req[q] /\ Fits(req[q]) /\ Apart(req[q], req[r]) /\ req[q] \in Request
      BY <1>8, <2>2 DEF AccountTypeOK
    <3>2. Holds(req[q]) => token'[req[q].token] = "ACTIVE"
      BY <1>2, <1>3, <1>8, <3>1 DEF Fits, Holds, Apart
    <3>3. Opens(req[q]) => \A t \in Tokens : chain'[t] # req[q].code
      <4>1. ASSUME Opens(req[q]) PROVE root(n) # req[q].code
        <5>1. req[q].code \in Codes /\ \A t \in Tokens : chain[t] # req[q].code
          BY <3>1, <4>1 DEF Fits, Opens
        <5>2. req[r].op = "exchange" => req[r].code # req[q].code
          BY <1>2, <3>1, <4>1 DEF Apart, Opens
        <5> QED BY <1>3, <1>4, <5>1, <5>2, AccountsAssumption DEF root
      <4> QED BY <1>8, <3>1, <4>1 DEF Fits, Opens
    <3> QED BY <1>2, <1>10, <3>1, <3>2, <3>3 DEF Fits, Holds, Opens, Request
  <2> QED BY <2>1, <2>2
<1>12. \A q, s \in Requests : q # s => Apart(req[q], req[s])'
  <2>1. ~ Holds(req'[r]) /\ ~ Opens(req'[r])
    BY <1>8, <1>2 DEF Holds, Opens, Request
  <2>2. \A q, s \in Requests : q # s => Apart(req'[q], req'[s])
    BY <1>8, <2>1 DEF Apart
  <2> QED BY <2>2 DEF Apart, Holds, Opens
<1>13. \A t \in Tokens : chain'[t] \in Tokens => token'[chain'[t]] # "UNUSED"
  <2>1. root(n) \in Tokens => token'[root(n)] # "UNUSED"
    BY <1>3, <1>4, <1>5, <1>8, <1>10, AccountsAssumption DEF root
  <2> QED BY <1>8, <1>10, <2>1
<1>14. \A c \in Codes : codes'[c] # "SPENT" => \A t \in Tokens : chain'[t] # c
  <2>1. ASSUME NEW c \in Codes, codes[c] # "SPENT" PROVE root(n) # c
    BY <1>3, <1>4, <1>5, <2>1, AccountsAssumption DEF root
  <2> QED BY <1>2, <1>8, <2>1
<1>15. OneTokenPerChain'
  BY <1>4, <1>7, <1>8 DEF OneTokenPerChain
<1>16. \A d \in Devices : held'[d] \in Tokens => token'[held'[d]] # "UNUSED"
  BY <1>2, <1>10
<1>17. ASSUME NEW x \in Chains, Ended(x) PROVE Ended(x)'
  <2>1. \A t \in Tokens : chain[t] = x => t # n
    BY <1>3, AccountsAssumption DEF Chains
  <2>2. root(n) # x
    <3>1. PICK t \in Tokens : chain[t] = x
      BY <1>17 DEF Ended
    <3>2. refreshing /\ chain[req[r].token] = x => FALSE
      BY <1>4, <1>17 DEF Ended
    <3> QED BY <1>7, <2>1, <3>1, <3>2
  <2> QED BY <1>8, <1>17, <2>1, <2>2 DEF Ended
<1> QED BY <1>9, <1>11, <1>12, <1>13, <1>14, <1>15, <1>16, <1>17

-----------------------------------------------------------------------------
(* The actions.                                                            *)

LEMMA InitInv == AccountInit => SessionInv
<1> SUFFICES ASSUME AccountInit PROVE SessionInv
  OBVIOUS
<1>1. AccountTypeOK
  BY AccountsAssumption, IdleFits DEF AccountInit, AccountTypeOK
<1>2. \A r \in Requests : req[r] = Idle
  BY DEF AccountInit
<1>3. \A t \in Tokens : chain[t] = NoChain /\ token[t] = "UNUSED"
  BY DEF AccountInit
<1>4. \A d \in Devices : held[d] \notin Tokens
  BY AccountsAssumption DEF AccountInit
<1> QED BY <1>1, <1>2, <1>3, <1>4, IdleFits, AccountsAssumption DEF SessionInv, OneTokenPerChain

\* What GoTo and Close do to the request of r.
LEMMA GoToIs ==
  ASSUME SessionInv, NEW r \in Requests, NEW step \in Steps, GoTo(r, step)
  PROVE  LET v == [req[r] EXCEPT !.pc = step] IN
         /\ req' = [req EXCEPT ![r] = v]
         /\ v \in Request
         /\ v.pc = step /\ v.op = req[r].op /\ v.token = req[r].token
         /\ v.code = req[r].code /\ v.seen = req[r].seen
<1>1. req[r] \in Request
  BY DEF SessionInv, AccountTypeOK
<1> QED BY <1>1 DEF GoTo, Request

LEMMA Closed ==
  ASSUME SessionInv, NEW r \in Requests, Close(r), UNCHANGED <<database, codes, held>>,
         faults' \in 0..MaxFaults
  PROVE  SessionInv'
<1>1. Idle \in Request /\ Fits(Idle) /\ \A q \in Requests \ {r} : Apart(Idle, req[q])
  BY IdleFits
<1>2. req' = [req EXCEPT ![r] = Idle] /\ UNCHANGED <<account, invitation, token, old, chain, codes, held>>
  BY DEF Close, database, tokens
<1>3. AccountTypeOK'
  BY <1>1, <1>2 DEF SessionInv, AccountTypeOK
<1>4. \A d \in Devices : held'[d] \in Tokens => token[held'[d]] # "UNUSED"
  BY <1>2 DEF SessionInv
<1> QED BY <1>1, <1>2, <1>3, <1>4, RequestMoves

\* A request goes on, and holds nothing new.
LEMMA Advanced ==
  ASSUME SessionInv, NEW r \in Requests, NEW step \in Steps, GoTo(r, step),
         UNCHANGED <<database, codes, held, faults>>, req[r].pc # "idle",
         LET v == [req[r] EXCEPT !.pc = step] IN
         /\ Holds(v) => token[req[r].token] = "ACTIVE" /\ ~ Locked(req[r].token, r)
         /\ ~ Opens(v)
  PROVE  SessionInv'
<1> DEFINE v == [req[r] EXCEPT !.pc = step]
<1>1. /\ req' = [req EXCEPT ![r] = v] /\ v \in Request
      /\ v.pc = step /\ v.op = req[r].op /\ v.token = req[r].token
      /\ v.code = req[r].code /\ v.seen = req[r].seen
  BY GoToIs
<1>2. UNCHANGED <<account, invitation, token, old, chain, codes, held, faults>>
  BY DEF database, tokens
<1>3. /\ Holds(v) => token[req[r].token] = "ACTIVE" /\ ~ Locked(req[r].token, r)
      /\ ~ Opens(v) /\ Fits(req[r])
  BY DEF SessionInv
<1> HIDE DEF v
<1>4. Fits(v)
  BY <1>1, <1>3 DEF Fits
<1>5. \A q \in Requests \ {r} : Apart(v, req[q])
  BY <1>1, <1>3 DEF Apart, Locked, Holds
<1>6. AccountTypeOK'
  BY <1>1, <1>2 DEF SessionInv, AccountTypeOK
<1>7. \A d \in Devices : held'[d] \in Tokens => token[held'[d]] # "UNUSED"
  BY <1>2 DEF SessionInv
<1> QED BY <1>1, <1>2, <1>4, <1>5, <1>6, <1>7, RequestMoves

\* Steps that leave the tokens, or only revoke some, do not bring a session back.
LEMMA OnlyRevoked ==
  ASSUME \A t \in Tokens : chain'[t] = chain[t] /\ token'[t] \in {token[t], "REVOKED"}
  PROVE  \A x \in Chains : Ended(x) => Ended(x)'
  BY DEF Ended

LEMMA ServeStep ==
  ASSUME SessionInv, NEW r \in Requests, Serve(r)
  PROVE  /\ SessionInv'
         /\ \A x \in Chains : Ended(x) => Ended(x)'
<1> DEFINE Kept == SessionInv' /\ (\A x \in Chains : Ended(x) => Ended(x)')
<1>1. /\ req[r] \in Request /\ Fits(req[r]) /\ faults \in 0..MaxFaults
  BY DEF SessionInv, AccountTypeOK
<1>2. ASSUME UNCHANGED <<token, chain>>, SessionInv' PROVE Kept
  BY <1>2, OnlyRevoked
<1>3. ASSUME UNCHANGED <<database, codes, held, faults>>, Close(r) PROVE Kept
  <2>1. SessionInv'
    BY <1>1, <1>3, Closed
  <2> QED BY <1>2, <1>3, <2>1 DEF database, tokens
<1>4. ASSUME UNCHANGED <<database, codes, held, faults>>, req[r].pc # "idle",
             NEW step \in Steps, GoTo(r, step), step \notin {"consumed", "issuing"}
      PROVE  Kept
  <2>1. [req[r] EXCEPT !.pc = step].pc = step
    BY <1>1 DEF Request
  <2>2. SessionInv'
    BY <1>4, <2>1, Advanced DEF Holds, Opens
  <2> QED BY <1>2, <1>4, <2>2 DEF database, tokens
<1>5. ASSUME UNCHANGED <<database, codes, held, faults>>, req[r].pc # "idle", GoTo(r, "issuing"),
             req[r].op \in {"register", "login"}
      PROVE  Kept
  <2>1. [req[r] EXCEPT !.pc = "issuing"].op = req[r].op /\ "issuing" \in Steps
    BY <1>1 DEF Request, Steps
  <2>2. SessionInv'
    BY <1>5, <2>1, Advanced DEF Holds, Opens
  <2> QED BY <1>2, <1>5, <2>2 DEF database, tokens
<1>6. CASE CheckEmail(r)
  BY <1>3, <1>5, <1>6 DEF CheckEmail, At
<1>7. CASE EmailTaken(r)
  BY <1>3, <1>7 DEF EmailTaken
<1>8. CASE CheckPassword(r)
  BY <1>3, <1>5, <1>8 DEF CheckPassword, At
<1>9. CASE Exchange(r)
  <2>1. /\ req[r].op = "exchange" /\ req[r].pc = "sent" /\ req[r].code \in Codes
        /\ codes' = [codes EXCEPT ![req[r].code] = "SPENT"]
        /\ UNCHANGED <<account, invitation, token, old, chain, held, faults>>
    BY <1>1, <1>9 DEF Exchange, At, Fits, database, tokens
  <2>2. PICK v \in Request :
          /\ req' = [req EXCEPT ![r] = v]
          /\ \/ v = Idle
             \/ /\ v = [req[r] EXCEPT !.pc = "issuing"]
                /\ v.op = "exchange" /\ v.pc = "issuing" /\ v.token = req[r].token
                /\ v.code = req[r].code /\ v.seen = req[r].seen
                /\ codes[v.code] = "READY"
    <3>1. CASE codes[req[r].code] = "READY"
      <4>1. GoTo(r, "issuing") /\ "issuing" \in Steps
        BY <1>9, <3>1 DEF Exchange, Steps
      <4> DEFINE w == [req[r] EXCEPT !.pc = "issuing"]
      <4>2. /\ req' = [req EXCEPT ![r] = w] /\ w \in Request
            /\ w.pc = "issuing" /\ w.op = req[r].op /\ w.token = req[r].token
            /\ w.code = req[r].code /\ w.seen = req[r].seen
        BY <4>1, GoToIs
      <4>3. w = [req[r] EXCEPT !.pc = "issuing"]
        OBVIOUS
      <4> HIDE DEF w
      <4> QED BY <2>1, <3>1, <4>2, <4>3
    <3>2. CASE codes[req[r].code] # "READY"
      BY <1>9, <3>2, IdleFits DEF Exchange, Close
    <3> QED BY <3>1, <3>2
  <2>3. codes' \in [Codes -> {"NONE", "READY", "SPENT"}]
    BY <2>1 DEF SessionInv, AccountTypeOK
  <2>4. \A c \in Codes : codes'[c] = IF c = req[r].code THEN "SPENT" ELSE codes[c]
    BY <2>1 DEF SessionInv, AccountTypeOK
  <2>5. AccountTypeOK'
    BY <2>1, <2>2, <2>3 DEF SessionInv, AccountTypeOK
  <2>6. \A q \in Requests : req'[q] = IF q = r THEN v ELSE req[q]
    BY <2>2 DEF SessionInv, AccountTypeOK
  <2>7. ASSUME NEW q \in Requests PROVE Fits(req[q])'
    <3>1. CASE q # r
      <4>1. Fits(req[q]) /\ req'[q] = req[q]
        BY <2>6, <3>1 DEF SessionInv
      <4> QED BY <2>1, <2>4, <4>1 DEF Fits, Holds, Opens
    <3>2. CASE q = r /\ v = Idle
      <4>1. Fits(Idle) /\ ~ Opens(Idle) /\ req'[q] = Idle
        BY <2>6, <3>2, IdleFits DEF Idle, Opens
      <4> QED BY <2>1, <4>1 DEF Fits, Holds, Opens
    <3>3. CASE q = r /\ v # Idle
      <4>1. \A t \in Tokens : chain[t] # v.code
        BY <2>1, <2>2, <3>3 DEF SessionInv
      <4>2. codes'[v.code] = "SPENT"
        BY <2>1, <2>2, <2>4, <3>3
      <4>3. req'[q] = v
        BY <2>6, <3>3
      <4> QED BY <1>1, <2>1, <2>2, <3>3, <4>1, <4>2, <4>3 DEF Fits, Holds, Opens
    <3> QED BY <3>1, <3>2, <3>3
  <2>8. \A q \in Requests \ {r} : Apart(v, req[q])
    <3>1. CASE v = Idle
      BY <3>1, IdleFits
    <3>2. CASE v # Idle
      <4>1. \A q \in Requests : Opens(req[q]) => codes[req[q].code] = "SPENT"
        BY DEF SessionInv, Fits
      <4> QED BY <2>2, <3>2, <4>1 DEF Apart, Holds, Opens
    <3> QED BY <3>1, <3>2
  <2>9. \A q, s \in Requests : q # s => Apart(req[q], req[s])'
    <3>1. \A q, s \in Requests : q # s => Apart(req'[q], req'[s])
      BY <2>6, <2>8 DEF SessionInv, Apart
    <3> QED BY <3>1 DEF Apart, Holds, Opens
  <2>10. SessionInv'
    BY <2>1, <2>4, <2>5, <2>7, <2>9 DEF SessionInv, OneTokenPerChain
  <2> QED BY <1>2, <2>1, <2>10
<1>10. CASE Issue(r)
  BY <1>10, IssueAdds
<1>11. CASE Deliver(r)
  <2>1. /\ req' = [req EXCEPT ![r] = Idle] /\ held' = [held EXCEPT ![req[r].device] = req[r].token]
        /\ UNCHANGED <<account, invitation, token, old, chain, codes, faults>>
    BY <1>11 DEF Deliver, Close, database, tokens
  <2>2. req[r].token \in Tokens \cup {NoToken} /\ (req[r].token \in Tokens => token[req[r].token] # "UNUSED")
    BY <1>1 DEF Fits, Request
  <2>3. \A d \in Devices : held'[d] \in {held[d], req[r].token}
    BY <2>1 DEF SessionInv, AccountTypeOK
  <2>4. AccountTypeOK'
    <3>1. held' \in [Devices -> Tokens \cup {NoToken}]
      BY <2>1, <2>2 DEF SessionInv, AccountTypeOK
    <3> QED BY <2>1, <3>1, IdleFits DEF SessionInv, AccountTypeOK
  <2>5. \A d \in Devices : held'[d] \in Tokens => token[held'[d]] # "UNUSED"
    BY <2>2, <2>3 DEF SessionInv
  <2>6. SessionInv'
    BY <2>1, <2>4, <2>5, IdleFits, RequestMoves
  <2> QED BY <1>2, <2>1, <2>6
<1>12. CASE Consume(r)
  <2>1. "consumed" \in Steps /\ GoTo(r, "consumed") /\ [req[r] EXCEPT !.pc = "consumed"].pc = "consumed"
    BY <1>1, <1>12 DEF Consume, Steps, Request
  <2>2. UNCHANGED <<database, codes, held, faults>> /\ req[r].pc # "idle"
    BY <1>12 DEF Consume, At
  <2>3. token[req[r].token] = "ACTIVE" /\ ~ Locked(req[r].token, r)
    BY <1>12 DEF Consume
  <2>4. SessionInv'
    BY <2>1, <2>2, <2>3, Advanced DEF Opens
  <2> QED BY <1>2, <2>2, <2>4 DEF database, tokens
<1>13. CASE CheckStatus(r)
  <2>1. req[r].op = "refresh" /\ req[r].pc = "consumed" /\ UNCHANGED <<database, codes, held, faults>>
    BY <1>13 DEF CheckStatus, At
  <2>2. CASE Close(r)
    BY <1>3, <2>1, <2>2
  <2>3. CASE GoTo(r, "issuing")
    <3>1. "issuing" \in Steps /\ [req[r] EXCEPT !.pc = "issuing"].op = "refresh"
      BY <1>1, <2>1 DEF Steps, Request
    <3>2. token[req[r].token] = "ACTIVE" /\ ~ Locked(req[r].token, r)
      BY <1>1, <2>1 DEF SessionInv, Fits, Holds, Apart, Locked
    <3>3. SessionInv'
      BY <2>1, <2>3, <3>1, <3>2, Advanced DEF Opens
    <3> QED BY <1>2, <2>1, <3>3 DEF database, tokens
  <2> QED BY <1>13, <2>2, <2>3 DEF CheckStatus
<1>14. CASE Replay(r)
  <2>1. "replayed" \in Steps
    BY DEF Steps
  <2> QED BY <1>4, <1>14, <2>1 DEF Replay, At
<1>15. CASE LoadActive(r)
  <2> DEFINE v == [req[r] EXCEPT !.pc = "revoking", !.seen = {t \in Tokens : token[t] = "ACTIVE"}]
  <2>1. /\ req' = [req EXCEPT ![r] = v] /\ req[r].op = "refresh" /\ req[r].pc = "replayed"
        /\ UNCHANGED <<account, invitation, token, old, chain, codes, held, faults>>
    BY <1>15 DEF LoadActive, At, database, tokens
  <2>2. /\ v \in Request /\ v.op = "refresh" /\ v.pc = "revoking" /\ v.token = req[r].token
        /\ v.seen = {t \in Tokens : token[t] = "ACTIVE"}
    BY <1>1, <2>1 DEF Request, Steps
  <2> HIDE DEF v
  <2>3. Fits(v) /\ \A q \in Requests \ {r} : Apart(v, req[q])
    BY <1>1, <2>1, <2>2 DEF Fits, Holds, Opens, Apart
  <2>4. AccountTypeOK' /\ \A d \in Devices : held'[d] \in Tokens => token[held'[d]] # "UNUSED"
    BY <2>1, <2>2 DEF SessionInv, AccountTypeOK
  <2>5. SessionInv'
    BY <2>1, <2>2, <2>3, <2>4, RequestMoves
  <2> QED BY <1>2, <2>1, <2>5
<1>16. CASE RevokeAll(r)
  <2> DEFINE S == req[r].seen
  <2>1. S \in SUBSET Tokens /\ \A t \in S : token[t] # "UNUSED" /\ ~ Locked(t, r)
    BY <1>1, <1>16 DEF RevokeAll, Fits, Request
  <2>2. /\ token' = [t \in Tokens |-> IF t \in S THEN "REVOKED" ELSE token[t]]
        /\ req' = [req EXCEPT ![r] = Idle]
        /\ UNCHANGED <<account, invitation, old, chain, codes, held, faults>>
    BY <1>16 DEF RevokeAll, Close
  <2> HIDE DEF S
  <2>3. SessionInv'
    BY <2>1, <2>2, TokensRevoked
  <2> QED BY <2>2, <2>3, OnlyRevoked
<1>17. CASE LogoutRead(r)
  <2>1. "closing" \in Steps
    BY DEF Steps
  <2> QED BY <1>3, <1>4, <1>17, <2>1 DEF LogoutRead, At
<1>18. CASE LogoutWrite(r)
  <2> DEFINE S == {req[r].token}
  <2>1. req[r].token \in Tokens /\ token[req[r].token] # "UNUSED" /\ ~ Locked(req[r].token, r)
    BY <1>1, <1>18 DEF LogoutWrite, At, Fits
  <2>2. /\ token' = [t \in Tokens |-> IF t \in S THEN "REVOKED" ELSE token[t]]
        /\ req' = [req EXCEPT ![r] = Idle]
        /\ UNCHANGED <<account, invitation, old, chain, codes, held, faults>>
    BY <1>18, <2>1 DEF LogoutWrite, Close, SessionInv, AccountTypeOK
  <2>3. S \in SUBSET Tokens /\ \A t \in S : token[t] # "UNUSED" /\ ~ Locked(t, r)
    BY <2>1
  <2> HIDE DEF S
  <2>4. SessionInv'
    BY <2>2, <2>3, TokensRevoked
  <2> QED BY <2>2, <2>4, OnlyRevoked
<1> HIDE DEF Kept
<1>19. Kept
  BY <1>6, <1>7, <1>8, <1>9, <1>10, <1>11, <1>12, <1>13, <1>14, <1>15, <1>16, <1>17, <1>18
     DEF Serve, Kept
<1> QED BY <1>19 DEF Kept

LEMMA SendStep ==
  ASSUME SessionInv, NEW r \in Requests, NEW d \in Devices, NEW op \in Operations, Send(r, d, op)
  PROVE  SessionInv'
<1>1. PICK c \in Codes \cup {NoCode} :
        /\ IF op = "exchange" THEN c # NoCode /\ codes[c] # "NONE" ELSE c = NoCode
        /\ req' = [req EXCEPT ![r] = [op |-> op, pc |-> "sent", device |-> d, code |-> c, seen |-> {},
                       token |-> IF op \in {"refresh", "logout"} THEN held[d] ELSE NoToken]]
  BY DEF Send
<1> DEFINE v == [op |-> op, pc |-> "sent", device |-> d, code |-> c, seen |-> {},
                 token |-> IF op \in {"refresh", "logout"} THEN held[d] ELSE NoToken]
<1>2. /\ op \in {"refresh", "logout"} => held[d] # NoToken
      /\ held' = IF op = "logout" THEN [held EXCEPT ![d] = NoToken] ELSE held
      /\ UNCHANGED <<account, invitation, token, old, chain, codes>>
      /\ faults' <= MaxFaults
      /\ \/ faults' = faults + 1
         \/ faults' = faults + 0
  BY DEF Send, database, tokens
<1>3. faults' \in 0..MaxFaults
  BY <1>2, AccountsAssumption DEF SessionInv, AccountTypeOK
<1>4. /\ v \in Request /\ v.op = op /\ v.pc = "sent" /\ v.seen = {} /\ v.code = c
      /\ v.token \in Tokens \cup {NoToken}
      /\ op \in {"refresh", "logout"} => v.token \in Tokens
      /\ v.token \in Tokens => token[v.token] # "UNUSED"
  BY <1>2, AccountsAssumption DEF Request, Steps, SessionInv, AccountTypeOK
<1>5. req' = [req EXCEPT ![r] = v]
  BY <1>1
<1>6. op = "exchange" => c \in Codes
  BY <1>1
<1> HIDE DEF v
<1>7. Fits(v) /\ \A q \in Requests \ {r} : Apart(v, req[q])
  BY <1>4, <1>6 DEF Fits, Apart, Holds, Opens
<1>8. AccountTypeOK'
  BY <1>2, <1>3, <1>4, <1>5 DEF SessionInv, AccountTypeOK
<1>9. \A e \in Devices : held'[e] \in Tokens => token[held'[e]] # "UNUSED"
  BY <1>2, AccountsAssumption DEF SessionInv, AccountTypeOK
<1> QED BY <1>2, <1>4, <1>5, <1>7, <1>8, <1>9, RequestMoves

LEMMA NextInv ==
  ASSUME SessionInv, [AccountNext]_accountVars
  PROVE  /\ SessionInv'
         /\ \A x \in Chains : Ended(x) => Ended(x)'
<1> DEFINE Kept == SessionInv' /\ (\A x \in Chains : Ended(x) => Ended(x)')
<1>1. ASSUME UNCHANGED <<token, chain>>, SessionInv' PROVE Kept
  BY <1>1, OnlyRevoked
<1>2. ASSUME NEW r \in Requests, Serve(r) PROVE Kept
  BY <1>2, ServeStep
<1>3. ASSUME NEW r \in Requests, Lose(r) PROVE Kept
  <2>1. /\ Close(r) /\ UNCHANGED <<database, codes, held>>
        /\ faults < MaxFaults /\ faults' = faults + 1
    BY <1>3 DEF Lose
  <2>2. faults' \in 0..MaxFaults
    BY <2>1, AccountsAssumption DEF SessionInv, AccountTypeOK
  <2>3. SessionInv'
    BY <1>3, <2>1, <2>2, Closed
  <2> QED BY <1>1, <2>1, <2>3 DEF database, tokens
<1>4. ASSUME NEW r \in Requests, NEW d \in Devices, NEW op \in Operations, Send(r, d, op) PROVE Kept
  <2>1. UNCHANGED <<token, chain>>
    BY <1>4 DEF Send, database, tokens
  <2> QED BY <1>1, <1>4, <2>1, SendStep
<1>5. ASSUME NEW c \in Codes, OAuthCallback(c) \/ CodeExpires(c) PROVE Kept
  <2>1. UNCHANGED <<invitation, token, old, chain, held, req, faults>>
    BY <1>5 DEF OAuthCallback, CodeExpires, database, tokens
  <2>2. account' \in {account, "ACTIVE"}
    BY <1>5 DEF OAuthCallback, CodeExpires, database
  <2>3. /\ codes[c] = "NONE" /\ codes' = [codes EXCEPT ![c] = "READY"]
        \/ codes' = [codes EXCEPT ![c] = "SPENT"]
    BY <1>5 DEF OAuthCallback, CodeExpires
  <2>4. AccountTypeOK'
    BY <2>1, <2>2, <2>3 DEF SessionInv, AccountTypeOK
  <2>5. \A b \in Codes : codes'[b] # codes[b] => codes[b] = "NONE" \/ codes'[b] = "SPENT"
    BY <2>3 DEF SessionInv, AccountTypeOK
  <2>6. SessionInv'
    BY <2>1, <2>4, <2>5, Elsewhere
  <2> QED BY <1>1, <2>1, <2>6
<1>6. ASSUME NEW t \in Tokens, Expire(t) PROVE Kept
  <2>1. AccountTypeOK' /\ UNCHANGED <<token, chain, codes, held, req>>
    BY <1>6 DEF Expire, SessionInv, AccountTypeOK
  <2>2. SessionInv'
    BY <2>1, Elsewhere
  <2> QED BY <1>1, <2>1, <2>2
<1>7. CASE AcceptInvitation \/ SetStatus
  <2>1. AccountTypeOK' /\ UNCHANGED <<token, chain, codes, held, req>>
    BY <1>7 DEF AcceptInvitation, SetStatus, tokens, SessionInv, AccountTypeOK
  <2>2. SessionInv'
    BY <2>1, Elsewhere
  <2> QED BY <1>1, <2>1, <2>2
<1>8. CASE UNCHANGED accountVars
  <2>1. AccountTypeOK' /\ UNCHANGED <<token, chain, codes, held, req>>
    BY <1>8 DEF accountVars, database, tokens, SessionInv, AccountTypeOK
  <2>2. SessionInv'
    BY <2>1, Elsewhere
  <2> QED BY <1>1, <2>1, <2>2
<1>9. Kept
  <2>1. CASE \E r \in Requests : Serve(r) \/ Lose(r) \/ \E d \in Devices, op \in Operations : Send(r, d, op)
    BY <1>2, <1>3, <1>4, <2>1
  <2>2. CASE \E c \in Codes : OAuthCallback(c) \/ CodeExpires(c)
    BY <1>5, <2>2
  <2>3. CASE \E t \in Tokens : Expire(t)
    BY <1>6, <2>3
  <2> QED BY <1>7, <1>8, <2>1, <2>2, <2>3 DEF AccountNext
<1> QED BY <1>9 DEF Kept

-----------------------------------------------------------------------------

\* What the open requests rely on stays true (the rotation of iam/service.py, the exchange of
\* iam/oauth_service.py).
THEOREM SessionsCorrect == AccountSpec => []SessionInv
<1>1. SessionInv /\ [AccountNext]_accountVars => SessionInv'
  BY NextInv
<1> QED BY InitInv, <1>1, PTL DEF AccountSpec

\* Type correctness; in particular a row of refresh_tokens is never taken back.
THEOREM AccountTypeCorrect == AccountSpec => []AccountTypeOK
<1>1. SessionInv => AccountTypeOK
  BY DEF SessionInv
<1> QED BY SessionsCorrect, <1>1, PTL

\* However many requests race, answers are lost and codes are sent again, a login has at most one
\* refresh token that can be used (consume_if_active, getdel).
THEOREM NoFork == AccountSpec => []OneTokenPerChain
<1>1. SessionInv => OneTokenPerChain
  BY DEF SessionInv
<1> QED BY SessionsCorrect, <1>1, PTL

\* A login all of whose tokens are revoked has none again (logout, revoke_all_for_user).
THEOREM SessionsEndForGood == AccountSpec => EndedForGood
<1>1. SessionInv /\ [AccountNext]_accountVars => [\A x \in Chains : Ended(x) => Ended(x)']_accountVars
  BY NextInv
<1> QED BY SessionsCorrect, <1>1, PTL DEF AccountSpec, EndedForGood

-----------------------------------------------------------------------------
(* Where nothing is lost and a device sends one request at a time, nobody  *)
(* is taken for a thief.                                                   *)

\* A token that is on no device: the one an answer brings, or the one a logout took along.
Carries(v) == v.pc = "answered" \/ (v.op = "logout" /\ v.pc # "idle")

\* The answer that replaces what the device holds is on its way.
Replacing(v) == v.op = "refresh" /\ v.pc = "answered"

\* What an open request is about.
Genuine(v) ==
    /\ v.device \in Devices
    /\ v.pc \notin {"replayed", "revoking"}
    /\ v.op = "refresh" /\ v.pc # "answered" => v.token = held[v.device]
    /\ v.op = "logout" => v.pc \in {"sent", "closing"}
    /\ v.pc = "answered" => token[v.token] = "ACTIVE"
    /\ Carries(v) => v.token \in Tokens /\ \A d \in Devices : held[d] # v.token

\* Two requests are of two devices, and about two tokens.
Strangers(v, w) == v.device # w.device /\ (Carries(v) /\ Carries(w) => v.token # w.token)

\* RotationIsSafe is not inductive alone: a token could be revoked under a device by an answer that is
\* still to come, by a logout of another device that holds it too, or by a second request of its own.
QuietInv ==
    /\ \A r \in Open : Genuine(req[r])
    /\ \A r, q \in Open : r # q => Strangers(req[r], req[q])
    /\ \A d, e \in Devices : held[d] = held[e] /\ held[d] # NoToken => d = e
    /\ \A d \in Devices : held[d] # NoToken
                          => \/ token[held[d]] = "ACTIVE"
                             \/ \E r \in Open : req[r].device = d /\ Replacing(req[r])

\* A request goes on or ends; no token changes, and no device gets one.
LEMMA QuietMoves ==
  ASSUME SessionInv, QuietInv, NEW r \in Requests, NEW v \in Request,
         req' = [req EXCEPT ![r] = v], UNCHANGED <<token, held>>,
         v.pc # "idle" => Genuine(v) /\ \A q \in Open \ {r} : Strangers(v, req[q]),
         ~ Replacing(req[r])
  PROVE  QuietInv'
<1>1. \A q \in Requests : req'[q] = IF q = r THEN v ELSE req[q]
  BY DEF SessionInv, AccountTypeOK
<1>2. Open' = {q \in Requests : req'[q].pc # "idle"}
  BY DEF Open
<1>3. \A q \in Requests \ {r} : q \in Open' <=> q \in Open
  BY <1>1, <1>2 DEF Open
<1>4. r \in Open' <=> v.pc # "idle"
  BY <1>1, <1>2
<1>5. \A q \in Open' : Genuine(req'[q])
  BY <1>1, <1>2, <1>3, <1>4 DEF QuietInv
<1>6. \A q \in Open' : Genuine(req[q])'
  BY <1>5 DEF Genuine, Carries
<1>7. \A q, s \in Open' : q # s => Strangers(req'[q], req'[s])
  BY <1>1, <1>2, <1>3, <1>4 DEF QuietInv, Strangers
<1>8. \A q, s \in Open' : q # s => Strangers(req[q], req[s])'
  BY <1>7 DEF Strangers, Carries
<1>9. \A q \in Open : Replacing(req[q]) => q \in Open' /\ req'[q] = req[q]
  BY <1>1, <1>2, <1>3 DEF Open
<1>10. ASSUME NEW d \in Devices, held[d] # NoToken
       PROVE  \/ token[held[d]] = "ACTIVE"
              \/ \E q \in Open' : req'[q].device = d /\ Replacing(req'[q])
  BY <1>9, <1>10 DEF QuietInv
<1>11. ASSUME NEW d \in Devices, held[d] # NoToken
       PROVE  \/ token[held[d]] = "ACTIVE"
              \/ \E q \in Open' : (req[q].device = d /\ Replacing(req[q]))'
  BY <1>10, <1>11 DEF Replacing
<1> QED BY <1>6, <1>8, <1>11 DEF QuietInv

LEMMA QuietCloses ==
  ASSUME SessionInv, QuietInv, NEW r \in Requests, Close(r), UNCHANGED <<token, held>>,
         ~ Replacing(req[r])
  PROVE  QuietInv'
<1>1. Idle \in Request /\ Idle.pc = "idle"
  BY IdleFits DEF Idle
<1> QED BY <1>1, QuietMoves DEF Close

LEMMA QuietGoesOn ==
  ASSUME SessionInv, QuietInv, NEW r \in Open, NEW step \in {"consumed", "issuing", "closing"},
         GoTo(r, step), UNCHANGED <<token, held>>, req[r].pc # "answered",
         req[r].op = "refresh" => step \in {"consumed", "issuing"},
         req[r].op = "logout" => step = "closing"
  PROVE  QuietInv'
<1> DEFINE v == [req[r] EXCEPT !.pc = step]
<1>1. r \in Requests /\ req[r] \in Request /\ step \in Steps
  BY DEF SessionInv, AccountTypeOK, Open, Steps
<1>2. /\ req' = [req EXCEPT ![r] = v] /\ v \in Request
      /\ v.pc = step /\ v.op = req[r].op /\ v.token = req[r].token
      /\ v.code = req[r].code /\ v.seen = req[r].seen
  BY <1>1, GoToIs
<1>3. v.device = req[r].device
  BY <1>1 DEF Request
<1> HIDE DEF v
<1>4. Genuine(req[r]) /\ req[r].pc # "idle"
  BY DEF QuietInv, Open
<1>5. Carries(v) <=> Carries(req[r])
  BY <1>2, <1>4 DEF Carries
<1>6. Genuine(v)
  BY <1>2, <1>3, <1>4, <1>5 DEF Genuine
<1>7. \A q \in Open \ {r} : Strangers(v, req[q])
  BY <1>2, <1>3, <1>5 DEF QuietInv, Strangers
<1>8. ~ Replacing(req[r])
  BY DEF Replacing
<1> QED BY <1>1, <1>2, <1>6, <1>7, <1>8, QuietMoves

\* What a device that waits for no answer of a refresh holds can be used.
LEMMA HeldCanBeUsed ==
  ASSUME SessionInv, QuietInv, NEW d \in Devices, held[d] # NoToken,
         \A r \in Open : req[r].device = d => ~ Replacing(req[r])
  PROVE  held[d] \in Tokens /\ token[held[d]] = "ACTIVE"
  BY DEF QuietInv, SessionInv, AccountTypeOK

\* A token that is presented is not a replay.
LEMMA NoReplay ==
  ASSUME SessionInv, QuietInv, NEW r \in Open, req[r].op = "refresh"
  PROVE  req[r].pc # "answered" => token[req[r].token] = "ACTIVE"
<1>1. Genuine(req[r]) /\ req[r].op = "refresh"
  BY DEF QuietInv
<1>2. ASSUME req[r].pc # "answered" PROVE token[req[r].token] = "ACTIVE"
  <2>1. req[r].device \in Devices /\ req[r].token = held[req[r].device] /\ req[r].token \in Tokens
    BY <1>1, <1>2 DEF Genuine, SessionInv, Fits, Open
  <2>2. \A q \in Open : req[q].device = req[r].device => ~ Replacing(req[q])
    BY <1>2 DEF QuietInv, Strangers, Replacing
  <2> QED BY <2>1, <2>2, AccountsAssumption, HeldCanBeUsed
<1> QED BY <1>1, <1>2 DEF Genuine

\* The answer of a request that adds a token: nobody has the new token, and the one it replaces is its
\* own device's.
LEMMA QuietIssue ==
  ASSUME SessionInv, QuietInv, NEW r \in Requests, Issue(r)
  PROVE  QuietInv'
<1>1. PICK n \in Unused :
        /\ token' = [t \in Tokens |->
                        IF t = n THEN "ACTIVE"
                        ELSE IF req[r].op = "refresh" /\ t = req[r].token THEN "REVOKED"
                        ELSE token[t]]
        /\ req' = [req EXCEPT ![r].pc = "answered", ![r].token = n]
  BY DEF Issue
<1>2. /\ r \in Open /\ req[r].pc = "issuing" /\ req[r] \in Request /\ Genuine(req[r]) /\ Fits(req[r])
      /\ UNCHANGED held
  BY DEF Issue, SessionInv, AccountTypeOK, QuietInv, Open
<1>3. n \in Tokens /\ token[n] = "UNUSED"
  BY DEF Unused
<1>4. /\ \A q \in Requests : q # r => req'[q] = req[q]
      /\ req'[r] = [req[r] EXCEPT !.pc = "answered", !.token = n]
      /\ \A t \in Tokens : t # n /\ (req[r].op = "refresh" => t # req[r].token) => token'[t] = token[t]
  BY <1>1 DEF SessionInv, AccountTypeOK
<1>5. /\ req'[r].pc = "answered" /\ req'[r].token = n
      /\ req'[r].device = req[r].device /\ req'[r].op = req[r].op
  BY <1>2, <1>4 DEF Request
<1>6. Open' = Open
  BY <1>2, <1>4, <1>5 DEF Open
<1>7. req[r].op # "logout" /\ (req[r].op = "refresh" => req[r].token = held[req[r].device])
  BY <1>2 DEF Genuine
<1>8. \A d \in Devices : held[d] # n
  BY <1>3, AccountsAssumption DEF SessionInv
<1>9. \A q \in Open : req[q].token # n
  BY <1>3 DEF SessionInv, Fits, Open
<1>10. token'[n] = "ACTIVE"
  BY <1>1, <1>3
<1>11. ASSUME NEW q \in Open \ {r} PROVE Genuine(req[q])'
  <2>1. req'[q] = req[q] /\ Genuine(req[q]) /\ Strangers(req[q], req[r]) /\ q \in Requests
    BY <1>2, <1>4 DEF QuietInv, Open
  <2>2. ASSUME Carries(req[q]) PROVE req[q].token \in Tokens /\ token'[req[q].token] = token[req[q].token]
    <3>1. req[q].token \in Tokens /\ \A d \in Devices : held[d] # req[q].token
      BY <2>1, <2>2 DEF Genuine
    <3>2. req[r].op = "refresh" => req[q].token # req[r].token
      BY <1>2, <1>7, <3>1 DEF Genuine
    <3>3. req[q].token # n
      BY <1>9
    <3> QED BY <1>4, <3>1, <3>2, <3>3
  <2> QED BY <1>2, <2>1, <2>2 DEF Genuine, Carries
<1>12. Genuine(req[r])'
  BY <1>2, <1>3, <1>5, <1>7, <1>8, <1>10 DEF Genuine, Carries
<1>13. \A q \in Open' : Genuine(req[q])'
  BY <1>6, <1>11, <1>12
<1>14. \A q, s \in Open' : q # s => Strangers(req[q], req[s])'
  <2>1. \A q \in Open \ {r} : /\ req'[q] = req[q]
                              /\ Strangers(req[q], req'[r]) /\ Strangers(req'[r], req[q])
    BY <1>2, <1>4, <1>5, <1>9 DEF QuietInv, Strangers, Open
  <2>2. \A q, s \in Open : q # s => Strangers(req'[q], req'[s])
    BY <2>1 DEF QuietInv
  <2> QED BY <1>6, <2>2 DEF Strangers, Carries
<1>15. ASSUME NEW d \in Devices, held[d] # NoToken
       PROVE  \/ token'[held[d]] = "ACTIVE"
              \/ \E q \in Open' : (req[q].device = d /\ Replacing(req[q]))'
  <2>1. held[d] \in Tokens /\ held[d] # n
    BY <1>8, <1>15 DEF SessionInv, AccountTypeOK
  <2>2. CASE req[r].op = "refresh" /\ held[d] = req[r].token
    <3>1. req[r].device = d
      BY <1>2, <1>7, <1>15, <2>2 DEF QuietInv, Genuine
    <3> QED BY <1>2, <1>5, <1>6, <2>2, <3>1 DEF Replacing
  <2>3. CASE ~ (req[r].op = "refresh" /\ held[d] = req[r].token)
    <3>1. token'[held[d]] = token[held[d]]
      BY <1>1, <2>1, <2>3
    <3>2. \A q \in Open : Replacing(req[q]) => req'[q] = req[q]
      BY <1>2, <1>4 DEF Replacing, Open
    <3> QED BY <1>6, <1>15, <3>1, <3>2 DEF QuietInv, Replacing
  <2> QED BY <2>2, <2>3
<1>16. \A d, e \in Devices : held'[d] = held'[e] /\ held'[d] # NoToken => d = e
  BY <1>2 DEF QuietInv
<1> QED BY <1>2, <1>13, <1>14, <1>15, <1>16 DEF QuietInv

LEMMA QuietDeliver ==
  ASSUME SessionInv, QuietInv, NEW r \in Requests, Deliver(r)
  PROVE  QuietInv'
<1>1. /\ req' = [req EXCEPT ![r] = Idle] /\ held' = [held EXCEPT ![req[r].device] = req[r].token]
      /\ UNCHANGED token /\ r \in Open /\ req[r].pc = "answered"
  BY DEF Deliver, Close, database, tokens, Open
<1>2. /\ req[r].device \in Devices /\ token[req[r].token] = "ACTIVE"
      /\ \A d \in Devices : held[d] # req[r].token
      /\ Carries(req[r])
  BY <1>1 DEF QuietInv, Genuine, Carries
<1>3. /\ \A q \in Requests : req'[q] = IF q = r THEN Idle ELSE req[q]
      /\ \A d \in Devices : held'[d] = IF d = req[r].device THEN req[r].token ELSE held[d]
  BY <1>1, <1>2 DEF SessionInv, AccountTypeOK
<1>4. Open' = Open \ {r}
  BY <1>1, <1>3 DEF Open, Idle
<1>5. ASSUME NEW q \in Open \ {r} PROVE Genuine(req[q])'
  <2>1. req'[q] = req[q] /\ Genuine(req[q]) /\ Strangers(req[q], req[r])
    BY <1>1, <1>3 DEF QuietInv, Open
  <2>2. held'[req[q].device] = held[req[q].device]
    BY <1>3, <2>1 DEF Strangers, Genuine
  <2>3. ASSUME Carries(req[q]) PROVE \A d \in Devices : held'[d] # req[q].token
    BY <1>2, <1>3, <2>1, <2>3 DEF Strangers, Genuine
  <2> QED BY <1>1, <2>1, <2>2, <2>3 DEF Genuine, Carries
<1>6. \A q, s \in Open' : q # s => Strangers(req[q], req[s])'
  <2>1. \A q, s \in Open \ {r} : q # s => Strangers(req'[q], req'[s])
    BY <1>3 DEF QuietInv, Open
  <2> QED BY <1>4, <2>1 DEF Strangers, Carries
<1>7. \A d, e \in Devices : held'[d] = held'[e] /\ held'[d] # NoToken => d = e
  BY <1>2, <1>3 DEF QuietInv
<1>8. ASSUME NEW d \in Devices, held'[d] # NoToken
      PROVE  \/ token'[held'[d]] = "ACTIVE"
             \/ \E q \in Open' : (req[q].device = d /\ Replacing(req[q]))'
  <2>1. CASE d = req[r].device
    BY <1>1, <1>2, <1>3, <2>1
  <2>2. CASE d # req[r].device
    <3>1. held'[d] = held[d]
      BY <1>3, <2>2
    <3>2. \A q \in Open : req[q].device = d => q \in Open \ {r} /\ req'[q] = req[q]
      BY <1>3, <2>2 DEF Open
    <3> QED BY <1>1, <1>4, <1>8, <3>1, <3>2 DEF QuietInv, Replacing
  <2> QED BY <2>1, <2>2
<1> QED BY <1>4, <1>5, <1>6, <1>7, <1>8 DEF QuietInv

\* A logout revokes the token it took along, which nobody else has.
LEMMA QuietLogout ==
  ASSUME SessionInv, QuietInv, NEW r \in Requests, LogoutWrite(r)
  PROVE  QuietInv'
<1>1. /\ req' = [req EXCEPT ![r] = Idle] /\ token' = [token EXCEPT ![req[r].token] = "REVOKED"]
      /\ UNCHANGED held /\ r \in Open /\ req[r].op = "logout" /\ req[r].pc = "closing"
  BY DEF LogoutWrite, Close, Open, At
<1>2. Carries(req[r]) /\ req[r].token \in Tokens /\ \A d \in Devices : held[d] # req[r].token
  BY <1>1 DEF QuietInv, Genuine, Carries
<1>3. /\ \A q \in Requests : req'[q] = IF q = r THEN Idle ELSE req[q]
      /\ \A t \in Tokens : t # req[r].token => token'[t] = token[t]
  BY <1>1, <1>2 DEF SessionInv, AccountTypeOK
<1>4. Open' = Open \ {r}
  BY <1>1, <1>3 DEF Open, Idle
<1>5. ASSUME NEW q \in Open \ {r} PROVE Genuine(req[q])'
  <2>1. req'[q] = req[q] /\ Genuine(req[q]) /\ Strangers(req[q], req[r])
    BY <1>1, <1>3 DEF QuietInv, Open
  <2>2. Carries(req[q]) => token'[req[q].token] = token[req[q].token]
    BY <1>2, <1>3, <2>1 DEF Strangers, Genuine
  <2> QED BY <1>1, <2>1, <2>2 DEF Genuine, Carries
<1>6. \A q, s \in Open' : q # s => Strangers(req[q], req[s])'
  <2>1. \A q, s \in Open \ {r} : q # s => Strangers(req'[q], req'[s])
    BY <1>3 DEF QuietInv, Open
  <2> QED BY <1>4, <2>1 DEF Strangers, Carries
<1>7. ASSUME NEW d \in Devices, held'[d] # NoToken
      PROVE  \/ token'[held'[d]] = "ACTIVE"
             \/ \E q \in Open' : (req[q].device = d /\ Replacing(req[q]))'
  <2>1. held[d] \in Tokens /\ held'[d] = held[d] /\ token'[held[d]] = token[held[d]]
    BY <1>1, <1>2, <1>3, <1>7 DEF SessionInv, AccountTypeOK
  <2>2. \A q \in Open : Replacing(req[q]) => q \in Open \ {r} /\ req'[q] = req[q]
    BY <1>1, <1>3 DEF Replacing, Open
  <2> QED BY <1>4, <1>7, <2>1, <2>2 DEF QuietInv, Replacing
<1>8. \A d, e \in Devices : held'[d] = held'[e] /\ held'[d] # NoToken => d = e
  BY <1>1 DEF QuietInv
<1> QED BY <1>4, <1>5, <1>6, <1>7, <1>8 DEF QuietInv

\* A device sends something while it waits for nothing.
LEMMA QuietSend ==
  ASSUME SessionInv, QuietInv, NEW r \in Requests, NEW d \in Devices, NEW op \in Operations,
         Send(r, d, op), faults = 0, faults' = 0
  PROVE  QuietInv'
<1>1. PICK c \in Codes \cup {NoCode} :
        req' = [req EXCEPT ![r] = [op |-> op, pc |-> "sent", device |-> d, code |-> c, seen |-> {},
                       token |-> IF op \in {"refresh", "logout"} THEN held[d] ELSE NoToken]]
  BY DEF Send
<1> DEFINE v == [op |-> op, pc |-> "sent", device |-> d, code |-> c, seen |-> {},
                 token |-> IF op \in {"refresh", "logout"} THEN held[d] ELSE NoToken]
<1>2. /\ r \in Requests \ Open /\ ~ Replacing(req[r])
      /\ op \in {"refresh", "logout"} => held[d] # NoToken
      /\ held' = IF op = "logout" THEN [held EXCEPT ![d] = NoToken] ELSE held
      /\ UNCHANGED token
      /\ \A q \in Open : req[q].device # d
  BY DEF Send, Open, database, tokens, Replacing
<1>3. /\ v \in Request /\ v.op = op /\ v.pc = "sent" /\ v.device = d
      /\ op \in {"refresh", "logout"} => v.token = held[d] /\ held[d] \in Tokens
  BY <1>2 DEF Request, Steps, SessionInv, AccountTypeOK
<1>4. req' = [req EXCEPT ![r] = v]
  BY <1>1
<1> HIDE DEF v
<1>5. CASE op # "logout"
  <2>1. ~ Carries(v)
    BY <1>3, <1>5 DEF Carries
  <2>2. Genuine(v) /\ \A q \in Open \ {r} : Strangers(v, req[q])
    BY <1>2, <1>3, <1>5, <2>1 DEF Genuine, Strangers
  <2> QED BY <1>2, <1>3, <1>4, <1>5, <2>2, QuietMoves
<1>6. CASE op = "logout"
  <2>1. /\ \A q \in Requests : req'[q] = IF q = r THEN v ELSE req[q]
        /\ \A e \in Devices : held'[e] = IF e = d THEN NoToken ELSE held[e]
    BY <1>2, <1>4, <1>6 DEF SessionInv, AccountTypeOK
  <2>2. Open' = Open \cup {r}
    BY <1>2, <1>3, <2>1 DEF Open
  <2>3. held[d] \in Tokens /\ v.token = held[d] /\ v.op = "logout" /\ held[d] # NoToken
    BY <1>2, <1>3, <1>6
  <2>4. \A e \in Devices : held'[e] # held[d]
    BY <2>1, <2>3 DEF QuietInv
  <2>5. ASSUME NEW q \in Open PROVE Genuine(req[q])' /\ Strangers(v, req[q])
    <3>1. req'[q] = req[q] /\ Genuine(req[q]) /\ req[q].device # d
      BY <1>2, <2>1 DEF QuietInv, Open
    <3>2. held'[req[q].device] = held[req[q].device]
      BY <2>1, <3>1 DEF Genuine
    <3>3. Carries(req[q]) => req[q].token # held[d] /\ \A e \in Devices : held'[e] # req[q].token
      BY <2>1, <3>1, AccountsAssumption DEF Genuine
    <3>4. Genuine(req[q])'
      BY <1>2, <3>1, <3>2, <3>3 DEF Genuine, Carries
    <3> QED BY <1>3, <2>3, <3>1, <3>3, <3>4 DEF Strangers
  <2>6. Genuine(req[r])'
    <3>1. req'[r] = v
      BY <2>1
    <3> QED BY <1>3, <2>3, <2>4, <3>1 DEF Genuine, Carries
  <2>7. \A q, s \in Open' : q # s => Strangers(req[q], req[s])'
    <3>1. \A q, s \in Open' : q # s => Strangers(req'[q], req'[s])
      BY <1>2, <2>1, <2>2, <2>5 DEF QuietInv, Strangers, Open
    <3> QED BY <3>1 DEF Strangers, Carries
  <2>8. ASSUME NEW e \in Devices, held'[e] # NoToken
        PROVE  \/ token'[held'[e]] = "ACTIVE"
               \/ \E q \in Open' : (req[q].device = e /\ Replacing(req[q]))'
    <3>1. held'[e] = held[e]
      BY <2>1, <2>8
    <3>2. \A q \in Open : q \in Open' /\ req'[q] = req[q]
      BY <1>2, <2>1, <2>2 DEF Open
    <3> QED BY <1>2, <2>8, <3>1, <3>2 DEF QuietInv, Replacing
  <2>9. \A e, g \in Devices : held'[e] = held'[g] /\ held'[e] # NoToken => e = g
    BY <2>1 DEF QuietInv
  <2> QED BY <2>2, <2>5, <2>6, <2>7, <2>8, <2>9 DEF QuietInv
<1> QED BY <1>5, <1>6

LEMMA QuietServe ==
  ASSUME SessionInv, QuietInv, NEW r \in Requests, Serve(r)
  PROVE  QuietInv'
<1>1. ASSUME req[r].pc # "idle" PROVE r \in Open
  BY <1>1 DEF Open
<1>2. CASE CheckEmail(r)
  <2>1. req[r].op = "register" /\ req[r].pc = "sent" /\ UNCHANGED <<token, held>>
    BY <1>2 DEF CheckEmail, At, database, tokens
  <2> QED BY <1>1, <1>2, <2>1, QuietCloses, QuietGoesOn DEF CheckEmail, Replacing
<1>3. CASE EmailTaken(r)
  <2>1. req[r].op = "register" /\ UNCHANGED <<token, held>>
    BY <1>3 DEF EmailTaken, At, database, tokens
  <2> QED BY <1>3, <2>1, QuietCloses DEF EmailTaken, Replacing
<1>4. CASE CheckPassword(r)
  <2>1. req[r].op = "login" /\ req[r].pc = "sent" /\ UNCHANGED <<token, held>>
    BY <1>4 DEF CheckPassword, At, database, tokens
  <2> QED BY <1>1, <1>4, <2>1, QuietCloses, QuietGoesOn DEF CheckPassword, Replacing
<1>5. CASE Exchange(r)
  <2>1. req[r].op = "exchange" /\ req[r].pc = "sent" /\ UNCHANGED <<token, held>>
    BY <1>5 DEF Exchange, At, database, tokens
  <2> QED BY <1>1, <1>5, <2>1, QuietCloses, QuietGoesOn DEF Exchange, Replacing
<1>6. CASE Consume(r)
  <2>1. req[r].op = "refresh" /\ req[r].pc = "sent" /\ UNCHANGED <<token, held>>
    BY <1>6 DEF Consume, At, database, tokens
  <2> QED BY <1>1, <1>6, <2>1, QuietGoesOn DEF Consume
<1>7. CASE CheckStatus(r)
  <2>1. req[r].op = "refresh" /\ req[r].pc = "consumed" /\ UNCHANGED <<token, held>>
    BY <1>7 DEF CheckStatus, At, database, tokens
  <2> QED BY <1>1, <1>7, <2>1, QuietCloses, QuietGoesOn DEF CheckStatus, Replacing
<1>8. CASE Replay(r) \/ LoadActive(r) \/ RevokeAll(r)
  BY <1>1, <1>8, NoReplay DEF Replay, LoadActive, RevokeAll, At, QuietInv, Genuine
<1>9. CASE LogoutRead(r)
  <2>1. req[r].op = "logout" /\ req[r].pc = "sent" /\ UNCHANGED <<token, held>>
    BY <1>9 DEF LogoutRead, At, database, tokens
  <2> QED BY <1>1, <1>9, <2>1, QuietCloses, QuietGoesOn DEF LogoutRead, Replacing
<1> QED BY <1>2, <1>3, <1>4, <1>5, <1>6, <1>7, <1>8, <1>9, QuietIssue, QuietDeliver, QuietLogout
        DEF Serve

\* Faults are never forgotten: an execution in which there were none had none before.
LEMMA QuietNext ==
  ASSUME SessionInv, faults = 0 => QuietInv, [AccountNext]_accountVars, faults' = 0
  PROVE  QuietInv'
<1>1. faults \in Nat /\ (faults' = faults + 1 => FALSE)
  BY AccountsAssumption DEF SessionInv, AccountTypeOK
<1>2. ASSUME UNCHANGED <<token, held, req, faults>> PROVE QuietInv'
  BY <1>2 DEF QuietInv, Open, Genuine, Strangers, Carries, Replacing
<1>3. ASSUME NEW r \in Requests, Serve(r) PROVE QuietInv'
  <2>1. UNCHANGED faults
    BY <1>3 DEF Serve, CheckEmail, EmailTaken, CheckPassword, Exchange, Issue, Deliver, Consume,
                CheckStatus, Replay, LoadActive, RevokeAll, LogoutRead, LogoutWrite
  <2> QED BY <1>3, <2>1, QuietServe
<1>4. ASSUME NEW r \in Requests, Lose(r) PROVE QuietInv'
  BY <1>1, <1>4 DEF Lose
<1>5. ASSUME NEW r \in Requests, NEW d \in Devices, NEW op \in Operations, Send(r, d, op) PROVE QuietInv'
  <2>1. faults' = faults + 1 \/ faults' = faults + 0
    BY <1>5 DEF Send
  <2>2. faults = 0
    BY <1>1, <2>1
  <2> QED BY <1>5, <2>2, QuietSend
<1>6. ASSUME NEW c \in Codes, OAuthCallback(c) \/ CodeExpires(c) PROVE QuietInv'
  BY <1>2, <1>6 DEF OAuthCallback, CodeExpires, database, tokens
<1>7. ASSUME NEW t \in Tokens, Expire(t) PROVE QuietInv'
  BY <1>2, <1>7 DEF Expire
<1>8. CASE AcceptInvitation \/ SetStatus
  BY <1>2, <1>8 DEF AcceptInvitation, SetStatus, tokens
<1>9. CASE UNCHANGED accountVars
  BY <1>2, <1>9 DEF accountVars, database, tokens
<1>10. CASE \E r \in Requests : Serve(r) \/ Lose(r) \/ \E d \in Devices, op \in Operations : Send(r, d, op)
  BY <1>3, <1>4, <1>5, <1>10
<1>11. CASE \E c \in Codes : OAuthCallback(c) \/ CodeExpires(c)
  BY <1>6, <1>11
<1>12. CASE \E t \in Tokens : Expire(t)
  BY <1>7, <1>12
<1> QED BY <1>8, <1>9, <1>10, <1>11, <1>12 DEF AccountNext

\* While no answer is lost and each device sends one request at a time, no request is ever taken for a
\* replay, and every device that waits for nothing can refresh, whatever registrations, logins, codes,
\* logouts and suspensions come between (refresh and _issue_tokens of iam/service.py).
THEOREM NobodyIsTakenForAThief == AccountSpec => []RotationIsSafe
<1>1. AccountInit => (faults = 0 => QuietInv)
  <2>1. AccountInit => Open = {} /\ \A d \in Devices : held[d] = NoToken
    BY DEF AccountInit, Open, Idle
  <2> QED BY <2>1 DEF QuietInv
<1>2. SessionInv /\ (faults = 0 => QuietInv) /\ [AccountNext]_accountVars => (faults = 0 => QuietInv)'
  BY QuietNext
<1>3. SessionInv /\ (faults = 0 => QuietInv) => RotationIsSafe
  <2> SUFFICES ASSUME SessionInv, QuietInv PROVE RotationIsSafe
    BY DEF RotationIsSafe
  <2>1. ASSUME NEW r \in Requests PROVE req[r].pc \notin {"replayed", "revoking"}
    <3>1. CASE r \notin Open
      BY <3>1 DEF Open
    <3>2. CASE r \in Open
      BY <3>2 DEF QuietInv, Genuine
    <3> QED BY <3>1, <3>2
  <2>2. ASSUME NEW d \in Devices, held[d] # NoToken, \A r \in Open : req[r].device # d
        PROVE  token[held[d]] = "ACTIVE"
    BY <2>2, HeldCanBeUsed
  <2> QED BY <2>1, <2>2 DEF RotationIsSafe
<1> QED BY <1>1, <1>2, <1>3, SessionsCorrect, PTL DEF AccountSpec

-----------------------------------------------------------------------------
(* The life of a mentor.                                                   *)

Started == {"ACTIVE", "SUSPENDED"}
Writes(c) == call[c].op \in Visibility
Transitions == {"respond", "plan", "complete", "cancel"}

Rows ==
    /\ mentor \in [Emails -> MentorAccountStatus \cup {"NONE"}]
    /\ listed \in [Emails -> BOOLEAN]
    /\ invite \in [Applications -> MentorInvitationStatus \cup {"NONE"}]
    /\ ask \in [Asks -> MentorRequest]
    /\ \A e \in Emails : listed[e] => mentor[e] # "NONE"
    /\ \A q \in Asks : ask[q].status # "ABSENT" => ask[q].mentor \in Emails

\* What a call has loaded may be old, but not what never goes back: there is an account, its
\* activation, an invitation, a request with its date.
Remembers(k) ==
    /\ k.op \in {"approve", "reject"} => k.on \in Applications
    /\ k.op = "accept_invitation" =>
         /\ k.on \in Applications /\ invite[k.on] # "NONE"
         /\ k.seen \in Started => mentor[EmailOf[k.on]] \in Started
    /\ k.op \in Visibility =>
         k.on \in Emails /\ mentor[k.on] # "NONE" /\ (k.seen \in Started => mentor[k.on] \in Started)
    /\ k.op = "update_profile" => k.seen = "ACTIVE"
    /\ k.op = "request" => k.on \in Emails /\ mentor[k.on] # "NONE"
    /\ k.op \in Transitions =>
         k.on \in Asks /\ ask[k.on].status # "ABSENT" /\ (k.seen = "SESSION_PLANNED" => ask[k.on].session_at)
CallsRemember == call \in [Calls -> MentorCall] /\ \A c \in Calls : Remembers(call[c])

\* A call that writes is_active, and that nothing crossed, is alone with its mentor and knows the
\* state it will change.
Knows(k) ==
    /\ k.seen = "ACTIVE" => mentor[k.on] = "ACTIVE"
    /\ k.profile # "unread" => (k.profile = "TRUE" <=> listed[k.on])
VisibilityIsKnown ==
    \A c \in Calls : Writes(c) /\ call[c].on \notin crossed =>
        /\ Knows(call[c])
        /\ \A d \in Calls : Writes(d) /\ call[d].on = call[c].on => d = c

MentorInv ==
    /\ Rows /\ CallsRemember /\ OneInvitation /\ InvitedCanActivate /\ SessionIsDated
    /\ VisibilityIsKnown /\ SuspendedIsHidden

USE DEF MentorAccountStatus, MentorInvitationStatus

-----------------------------------------------------------------------------
(* What no step takes back.                                                *)

Grows ==
    /\ \A e \in Emails : mentor[e] # "NONE" => mentor'[e] # "NONE"
    /\ \A e \in Emails : mentor[e] \in Started => mentor'[e] \in Started
    /\ \A a \in Applications : invite[a] # "NONE" => invite'[a] # "NONE"
    /\ \A q \in Asks : ask[q].status # "ABSENT" => ask'[q].status # "ABSENT" /\ (ask[q].session_at => ask'[q].session_at)

LEMMA StillRemembers ==
    ASSUME Grows, MentorshipAssumption, NEW k, Remembers(k)
    PROVE  Remembers(k)'
BY DEF Grows, MentorshipAssumption, Remembers, Transitions

\* A call that ends remembers nothing, and the others remember what is still so.
LEMMA ClosedCalls ==
    ASSUME CallsRemember, Grows, NEW c \in Calls, CloseCall(c)
    PROVE  CallsRemember' /\ crossed' = crossed /\ (\A d \in Calls : call'[d] = IF d = c THEN NoCall ELSE call[d])
<1>1. NoCall \in MentorCall /\ Remembers(NoCall)'
  BY DEF NoCall, MentorCall, MentorOperations, Visibility, Remembers, Transitions
<1>2. crossed' = crossed /\ \A d \in Calls : call'[d] = IF d = c THEN NoCall ELSE call[d]
  BY DEF CloseCall, CallsRemember
<1>3. call' \in [Calls -> MentorCall]
  BY <1>1 DEF CloseCall, CallsRemember
<1>4. ASSUME NEW d \in Calls PROVE Remembers(call[d])'
  <2>1. CASE d = c
    BY <1>1, <1>2, <2>1 DEF Remembers
  <2>2. CASE d # c
    <3>1. Remembers(call[d])
      BY DEF CallsRemember
    <3>2. call'[d] = call[d]
      BY <1>2, <2>2
    <3> QED BY <3>1, <3>2, MentorshipAssumption DEF Grows, MentorshipAssumption, Remembers, Transitions
  <2> QED BY <2>1, <2>2
<1> QED BY <1>2, <1>3, <1>4 DEF CallsRemember

LEMMA OpenedCalls ==
    ASSUME CallsRemember, UNCHANGED <<onboarding, ask>>, NEW c \in Calls, NEW k \in MentorCall, Remembers(k),
           call' = [call EXCEPT ![c] = k]
    PROVE  CallsRemember' /\ (\A d \in Calls : call'[d] = IF d = c THEN k ELSE call[d])
<1>1. \A d \in Calls : call'[d] = IF d = c THEN k ELSE call[d]
  BY DEF CallsRemember
<1>2. \A d \in Calls : Remembers(call'[d])
  BY <1>1 DEF CallsRemember
<1>3. call' \in [Calls -> MentorCall]
  BY DEF CallsRemember
<1> QED BY <1>1, <1>2, <1>3 DEF CallsRemember, Remembers, onboarding

\* A call that opens changes no row, and one that writes is_active is alone, or crosses another.
LEMMA Opened ==
    ASSUME MentorInv, UNCHANGED <<onboarding, ask>>, NEW c \in Calls, NEW k \in MentorCall, Remembers(k),
           call' = [call EXCEPT ![c] = k], crossed \subseteq crossed',
           k.op \in Visibility /\ k.on \notin crossed' =>
             Knows(k) /\ \A d \in Calls : Writes(d) /\ call[d].on = k.on => d = c
    PROVE  MentorInv'
<1>1. CallsRemember' /\ (\A d \in Calls : call'[d] = IF d = c THEN k ELSE call[d])
  BY OpenedCalls DEF MentorInv
<1>2. VisibilityIsKnown'
  <2> SUFFICES ASSUME NEW b \in Calls, call'[b].op \in Visibility, call'[b].on \notin crossed'
               PROVE  /\ Knows(call[b])'
                      /\ \A d \in Calls : call'[d].op \in Visibility /\ call'[d].on = call'[b].on => d = b
    BY DEF VisibilityIsKnown, Writes
  <2>1. CASE b = c
    BY <1>1, <2>1 DEF Knows, Writes, onboarding
  <2>2. CASE b # c
    <3>1. call'[b] = call[b] /\ call[b].on \notin crossed /\ Writes(b)
      BY <1>1, <2>2 DEF Writes
    <3>2. Knows(call[b]) /\ \A d \in Calls : Writes(d) /\ call[d].on = call[b].on => d = b
      BY <3>1 DEF MentorInv, VisibilityIsKnown
    <3>3. ~ (k.op \in Visibility /\ k.on = call[b].on)
      BY <2>2, <3>1 DEF Writes
    <3> QED BY <1>1, <2>2, <3>1, <3>2, <3>3 DEF Knows, Writes, onboarding
  <2> QED BY <2>1, <2>2
<1> QED BY <1>1, <1>2 DEF MentorInv, Rows, OneInvitation, InvitedCanActivate, SessionIsDated, SuspendedIsHidden, Marketplace, onboarding

\* What a call that writes knows of a mentor, after the end of another that left him as he was,
\* or active if he was active.
LEMMA StillKnown ==
    ASSUME VisibilityIsKnown, NEW c \in Calls, crossed' = crossed,
           \A d \in Calls : call'[d] = IF d = c THEN NoCall ELSE call[d],
           \A d \in Calls : d # c /\ Writes(d) /\ call[d].on \notin crossed =>
             /\ mentor[call[d].on] = "ACTIVE" => mentor'[call[d].on] = "ACTIVE"
             /\ listed'[call[d].on] = listed[call[d].on]
    PROVE  VisibilityIsKnown'
<1> SUFFICES ASSUME NEW b \in Calls, call'[b].op \in Visibility, call'[b].on \notin crossed'
             PROVE  /\ Knows(call[b])'
                    /\ \A d \in Calls : call'[d].op \in Visibility /\ call'[d].on = call'[b].on => d = b
  BY DEF VisibilityIsKnown, Writes
<1>1. NoCall.op \notin Visibility
  BY DEF NoCall, Visibility
<1>2. b # c /\ call'[b] = call[b] /\ Writes(b) /\ call[b].on \notin crossed
  BY <1>1 DEF Writes
<1>3. Knows(call[b]) /\ \A d \in Calls : Writes(d) /\ call[d].on = call[b].on => d = b
  BY <1>2 DEF VisibilityIsKnown
<1> QED BY <1>1, <1>2, <1>3 DEF Knows, Writes
LEMMA AloneKept ==
    ASSUME VisibilityIsKnown, NEW c \in Calls, UNCHANGED <<mentor, listed, crossed>>,
           \A d \in Calls : call'[d] = IF d = c THEN NoCall ELSE call[d]
    PROVE  VisibilityIsKnown'
BY StillKnown

-----------------------------------------------------------------------------
(* The steps.                                                              *)

LEMMA MentorInitiallySound == MentorInit => MentorInv
<1> SUFFICES ASSUME MentorInit PROVE MentorInv
  OBVIOUS
<1>1. Rows /\ OneInvitation /\ InvitedCanActivate /\ SessionIsDated /\ SuspendedIsHidden
  BY MentorshipAssumption
  DEF MentorInit, Rows, OneInvitation, InvitedCanActivate, SessionIsDated, SuspendedIsHidden, Marketplace,
      MentorshipAssumption, MentorRequest
<1>2. CallsRemember /\ VisibilityIsKnown
  BY DEF MentorInit, CallsRemember, VisibilityIsKnown, Writes, NoCall, MentorCall, MentorOperations, Visibility, Remembers, Transitions
<1> QED BY <1>1, <1>2 DEF MentorInv

LEMMA ApplicationStep ==
    ASSUME MentorInv, NEW a \in Applications, Apply(a) \/ Lapse(a)
    PROVE  MentorInv'
BY DEF Apply, Lapse, MentorInv, Rows, CallsRemember, Remembers, OneInvitation, InvitedCanActivate, SessionIsDated,
       VisibilityIsKnown, Knows, Writes, SuspendedIsHidden, Marketplace

LEMMA OpenStep ==
    ASSUME MentorInv, NEW c \in Calls,
           \/ \E a \in Applications : OpenInvitation(c, a) \/ \E op \in MentorOperations : OpenReview(c, a, op)
           \/ \E e \in Emails : OpenRequest(c, e) \/ OpenProfile(c, e) \/ \E op \in MentorOperations : OpenMentor(c, e, op)
           \/ \E q \in Asks, op \in MentorOperations : OpenAsk(c, q, op)
    PROVE  MentorInv'
<1> USE DEF OpenCall
<1>1. ASSUME NEW a \in Applications, NEW op \in MentorOperations, OpenReview(c, a, op) PROVE MentorInv'
  <2> DEFINE k == [op |-> op, on |-> a, seen |-> "PENDING", profile |-> "unread"]
  <2>1. k \in MentorCall /\ Remembers(k) /\ k.op \notin Visibility
    BY <1>1 DEF OpenReview, MentorCall, MentorApplication, MentorApplicationStatus, Remembers, Visibility, Transitions
  <2>2. call' = [call EXCEPT ![c] = k] /\ crossed \subseteq crossed' /\ UNCHANGED <<onboarding, ask>>
    BY <1>1 DEF OpenReview
  <2> HIDE DEF k
  <2> QED BY <2>1, <2>2, Opened
<1>2. ASSUME NEW a \in Applications, OpenInvitation(c, a) PROVE MentorInv'
  <2> DEFINE k == [op |-> "accept_invitation", on |-> a, seen |-> mentor[EmailOf[a]], profile |-> "unread"]
  <2>1. mentor[EmailOf[a]] \in MentorAccountStatus
    <3>1. EmailOf[a] \in Emails /\ invite[a] # "NONE"
      BY <1>2, MentorshipAssumption DEF OpenInvitation, MentorshipAssumption
    <3>2. mentor[EmailOf[a]] # "NONE"
      BY <3>1 DEF MentorInv, OneInvitation
    <3> QED BY <3>1, <3>2 DEF MentorInv, Rows
  <2>2. k \in MentorCall /\ Remembers(k) /\ k.op \notin Visibility
    BY <1>2, <2>1 DEF OpenInvitation, MentorCall, MentorOperations, Visibility, Remembers, Transitions
  <2>3. call' = [call EXCEPT ![c] = k] /\ crossed \subseteq crossed' /\ UNCHANGED <<onboarding, ask>>
    BY <1>2 DEF OpenInvitation
  <2> HIDE DEF k
  <2> QED BY <2>2, <2>3, Opened
<1>3. ASSUME NEW e \in Emails, OpenRequest(c, e) PROVE MentorInv'
  <2> DEFINE k == [op |-> "request", on |-> e, seen |-> "none", profile |-> "unread"]
  <2>1. k \in MentorCall /\ Remembers(k) /\ k.op \notin Visibility
    BY <1>3 DEF OpenRequest, Marketplace, MentorInv, Rows, MentorCall, MentorOperations, Visibility, Remembers, Transitions
  <2>2. call' = [call EXCEPT ![c] = k] /\ crossed \subseteq crossed' /\ UNCHANGED <<onboarding, ask>>
    BY <1>3 DEF OpenRequest
  <2> HIDE DEF k
  <2> QED BY <2>1, <2>2, Opened
<1>4. ASSUME NEW e \in Emails, NEW op \in MentorOperations, OpenMentor(c, e, op) PROVE MentorInv'
  <2> DEFINE k == [op |-> op, on |-> e, seen |-> mentor[e], profile |-> "unread"]
  <2>1. mentor[e] \in MentorAccountStatus
    BY <1>4 DEF OpenMentor, MentorInv, Rows
  <2>2. k \in MentorCall /\ Remembers(k) /\ k.on = e /\ k.op = op /\ k.seen = mentor[e] /\ k.profile = "unread"
    BY <1>4, <2>1 DEF OpenMentor, MentorCall, MentorOperations, Visibility, Remembers, Transitions
  <2>3. call' = [call EXCEPT ![c] = k] /\ UNCHANGED <<onboarding, ask>> /\ crossed' = crossed \cup {x \in {e} : Crossing(op, x)}
    BY <1>4 DEF OpenMentor
  <2>4. op \in Visibility
    BY <1>4 DEF OpenMentor, Visibility
  <2> HIDE DEF k
  <2>5. e \notin crossed' => ~ Crossing(op, e)
    BY <2>3
  <2>6. k.on \notin crossed' => Knows(k) /\ \A d \in Calls : Writes(d) /\ call[d].on = k.on => d = c
    BY <2>2, <2>4, <2>5 DEF Crossing, Knows, Writes
  <2> QED BY <2>2, <2>3, <2>6, Opened
<1>5. ASSUME NEW q \in Asks, NEW op \in MentorOperations, OpenAsk(c, q, op) PROVE MentorInv'
  <2> DEFINE k == [op |-> op, on |-> q, seen |-> ask[q].status, profile |-> "unread"]
  <2>1. ask[q].status \in MentorRequestStatus /\ (ask[q].status = "SESSION_PLANNED" => ask[q].session_at)
    BY <1>5 DEF OpenAsk, MentorInv, Rows, MentorRequest, SessionIsDated
  <2>2. k \in MentorCall /\ Remembers(k) /\ k.op \notin Visibility
    BY <1>5, <2>1 DEF OpenAsk, MentorCall, Remembers, Visibility, Transitions
  <2>3. call' = [call EXCEPT ![c] = k] /\ crossed \subseteq crossed' /\ UNCHANGED <<onboarding, ask>>
    BY <1>5 DEF OpenAsk
  <2> HIDE DEF k
  <2> QED BY <2>2, <2>3, Opened
<1>6. ASSUME NEW e \in Emails, OpenProfile(c, e) PROVE MentorInv'
  <2> DEFINE k == [op |-> "update_profile", on |-> e, seen |-> mentor[e], profile |-> "unread"]
  <2>1. mentor[e] \in MentorAccountStatus
    BY <1>6 DEF OpenProfile, MentorInv, Rows
  <2>2. k \in MentorCall /\ Remembers(k) /\ k.on = e /\ k.op = "update_profile" /\ k.seen = mentor[e] /\ k.profile = "unread"
    BY <1>6, <2>1 DEF OpenProfile, MentorCall, MentorOperations, Visibility, Remembers, Transitions
  <2>3. call' = [call EXCEPT ![c] = k] /\ UNCHANGED <<onboarding, ask>> /\ crossed' = crossed \cup {x \in {e} : Crossing("update_profile", x)}
    BY <1>6 DEF OpenProfile
  <2>4. "update_profile" \in Visibility
    BY <1>6 DEF OpenProfile, Visibility
  <2> HIDE DEF k
  <2>5. e \notin crossed' => ~ Crossing("update_profile", e)
    BY <2>3
  <2>6. k.on \notin crossed' => Knows(k) /\ \A d \in Calls : Writes(d) /\ call[d].on = k.on => d = c
    BY <2>2, <2>4, <2>5 DEF Crossing, Knows, Writes
  <2> QED BY <2>2, <2>3, <2>6, Opened
<1> QED BY <1>1, <1>2, <1>3, <1>4, <1>5, <1>6

LEMMA ApproveStep ==
    ASSUME MentorInv, NEW c \in Calls, Approve(c)
    PROVE  MentorInv'
<1> DEFINE a == call[c].on
           e == EmailOf[a]
<1>1. a \in Applications /\ e \in Emails
  BY MentorshipAssumption DEF Approve, MentorInv, CallsRemember, Remembers, MentorshipAssumption
<1>2. ask' = ask /\ CloseCall(c)
  BY DEF Approve
<1>3. CASE NewAccount(a)
  <2>1. /\ mentor[e] = "NONE" /\ mentor' = [mentor EXCEPT ![e] = "INVITED"]
        /\ listed' = [listed EXCEPT ![e] = TRUE] /\ invite' = [invite EXCEPT ![a] = "PENDING"]
    BY <1>3 DEF NewAccount
  <2> HIDE DEF a, e
  <2>2. Rows'
    BY <1>1, <1>2, <2>1 DEF MentorInv, Rows
  <2>3. Grows
    BY <1>1, <1>2, <2>1 DEF MentorInv, Rows, Grows, Started
  <2>4. CallsRemember' /\ crossed' = crossed /\ (\A d \in Calls : call'[d] = IF d = c THEN NoCall ELSE call[d])
    BY <1>2, <2>3, ClosedCalls DEF MentorInv
  <2>5. \A x \in Applications : EmailOf[x] = e => invite[x] = "NONE"
    BY <1>1, <2>1 DEF MentorInv, OneInvitation
  <2>6. OneInvitation'
    BY <1>1, <2>1, <2>5, MentorshipAssumption DEF e, MentorInv, Rows, OneInvitation, MentorshipAssumption
  <2>7. InvitedCanActivate'
    BY <1>1, <2>1, <2>5, MentorshipAssumption DEF MentorInv, Rows, InvitedCanActivate, MentorshipAssumption
  <2>8. SessionIsDated'
    BY <1>1, <1>2, <2>1 DEF MentorInv, Rows, SessionIsDated, MentorRequest
  <2>9. SuspendedIsHidden'
    BY <1>1, <2>1, <2>4 DEF MentorInv, Rows, SuspendedIsHidden, Marketplace
  <2>10. \A d \in Calls : Writes(d) => call[d].on \in Emails /\ call[d].on # e
    BY <2>1 DEF MentorInv, CallsRemember, Remembers, Writes
  <2>11. VisibilityIsKnown'
    <3>1. \A x \in Emails : x # e => mentor'[x] = mentor[x] /\ listed'[x] = listed[x]
      BY <1>1, <2>1 DEF MentorInv, Rows
    <3> QED BY <2>4, <2>10, <3>1, StillKnown DEF MentorInv
  <2> QED BY <2>2, <2>4, <2>6, <2>7, <2>8, <2>9, <2>11 DEF MentorInv
<1>4. CASE UNCHANGED <<mentor, listed, invite>>
  <2>1. Grows
    BY <1>2, <1>4 DEF Grows
  <2>2. CallsRemember' /\ crossed' = crossed /\ (\A d \in Calls : call'[d] = IF d = c THEN NoCall ELSE call[d])
    BY <1>2, <2>1, ClosedCalls DEF MentorInv
  <2>3. VisibilityIsKnown'
    BY <1>4, <2>2, AloneKept DEF MentorInv
  <2> QED BY <1>2, <1>4, <2>2, <2>3 DEF MentorInv, Rows, OneInvitation, InvitedCanActivate, SessionIsDated, SuspendedIsHidden, Marketplace
<1> QED BY <1>3, <1>4 DEF Approve

LEMMA RejectStep ==
    ASSUME MentorInv, NEW c \in Calls, Reject(c)
    PROVE  MentorInv'
<1>1. UNCHANGED <<mentor, listed, invite, ask>> /\ CloseCall(c)
  BY DEF Reject
<1>2. Grows
  BY <1>1 DEF Grows
<1>3. CallsRemember' /\ crossed' = crossed /\ (\A d \in Calls : call'[d] = IF d = c THEN NoCall ELSE call[d])
  BY <1>1, <1>2, ClosedCalls DEF MentorInv
<1>4. VisibilityIsKnown'
  BY <1>1, <1>3, AloneKept DEF MentorInv
<1> QED BY <1>1, <1>3, <1>4 DEF MentorInv, Rows, OneInvitation, InvitedCanActivate, SessionIsDated, SuspendedIsHidden, Marketplace

LEMMA ActivateStep ==
    ASSUME MentorInv, NEW c \in Calls, ActivateMentor(c)
    PROVE  MentorInv'
<1> DEFINE a == call[c].on
           e == EmailOf[a]
           new == Column(call[c].seen, "ACTIVE", mentor[e])
<1>1. a \in Applications /\ e \in Emails /\ invite[a] # "NONE" /\ mentor[e] # "NONE"
  BY MentorshipAssumption DEF ActivateMentor, MentorInv, CallsRemember, Remembers, MentorshipAssumption, OneInvitation
<1>2. new \in Started /\ (new = "SUSPENDED" => mentor[e] = "SUSPENDED") /\ (mentor[e] = "ACTIVE" => new = "ACTIVE")
  BY <1>1 DEF ActivateMentor, MentorInv, CallsRemember, Remembers, Started, Column
<1>3. /\ mentor' = [mentor EXCEPT ![e] = new] /\ invite' = [invite EXCEPT ![a] = "ACCEPTED"]
      /\ listed' = listed /\ ask' = ask /\ CloseCall(c)
  BY DEF ActivateMentor
<1> HIDE DEF new, a, e
<1>4. Rows'
  BY <1>1, <1>2, <1>3 DEF MentorInv, Rows, Started
<1>5. Grows
  BY <1>1, <1>2, <1>3 DEF MentorInv, Rows, Grows, Started
<1>6. CallsRemember' /\ crossed' = crossed /\ (\A d \in Calls : call'[d] = IF d = c THEN NoCall ELSE call[d])
  BY <1>3, <1>5, ClosedCalls DEF MentorInv
<1>7. (\A x \in Emails : mentor'[x] # "NONE" <=> mentor[x] # "NONE") /\ (\A x \in Applications : invite'[x] # "NONE" <=> invite[x] # "NONE")
  BY <1>1, <1>2, <1>3 DEF MentorInv, Rows, Started
<1>8. OneInvitation'
  BY <1>7 DEF MentorInv, OneInvitation
<1>9. InvitedCanActivate'
  BY <1>1, <1>2, <1>3, MentorshipAssumption DEF e, MentorInv, Rows, InvitedCanActivate, Started, MentorshipAssumption
<1>10. SessionIsDated'
  BY <1>3, <1>7 DEF MentorInv, Rows, SessionIsDated, MentorRequest
<1>11. SuspendedIsHidden'
  BY <1>1, <1>2, <1>3, <1>6 DEF MentorInv, Rows, SuspendedIsHidden, Marketplace
<1>12. \A d \in Calls : Writes(d) => call[d].on \in Emails
  BY DEF MentorInv, CallsRemember, Remembers, Writes
<1>13. \A x \in Emails : mentor[x] = "ACTIVE" => mentor'[x] = "ACTIVE"
  BY <1>1, <1>2, <1>3 DEF MentorInv, Rows
<1>14. VisibilityIsKnown'
  BY <1>3, <1>6, <1>12, <1>13, StillKnown DEF MentorInv
<1> QED BY <1>4, <1>6, <1>8, <1>9, <1>10, <1>11, <1>14 DEF MentorInv

LEMMA ReadProfileStep ==
    ASSUME MentorInv, NEW c \in Calls, ReadProfile(c)
    PROVE  MentorInv'
<1> DEFINE k == [call[c] EXCEPT !.profile = IF listed[call[c].on] THEN "TRUE" ELSE "FALSE"]
<1>1. call[c] \in MentorCall /\ Remembers(call[c]) /\ Writes(c)
  BY DEF ReadProfile, MentorInv, CallsRemember, Writes
<1>2. /\ k \in MentorCall /\ k.op = call[c].op /\ k.on = call[c].on /\ k.seen = call[c].seen
      /\ k.profile = "TRUE" <=> listed[k.on]
  BY <1>1 DEF MentorCall
<1>3. Remembers(k)
  BY <1>1, <1>2 DEF Remembers
<1>4. call' = [call EXCEPT ![c] = k] /\ UNCHANGED <<onboarding, ask, crossed>>
  BY DEF ReadProfile
<1>5. k.on \notin crossed => Knows(k) /\ \A d \in Calls : Writes(d) /\ call[d].on = k.on => d = c
  BY <1>1, <1>2 DEF MentorInv, VisibilityIsKnown, Knows
<1> HIDE DEF k
<1> QED BY <1>2, <1>3, <1>4, <1>5, Opened

LEMMA SetStatusStep ==
    ASSUME MentorInv, NEW c \in Calls, SetMentorStatus(c)
    PROVE  MentorInv'
<1> DEFINE e == call[c].on
           suspend == call[c].op = "suspend"
           new == Column(call[c].seen, IF suspend THEN "SUSPENDED" ELSE "ACTIVE", mentor[e])
           shown == Column(call[c].profile = "TRUE", ~ suspend, listed[e])
<1>1. /\ e \in Emails /\ mentor[e] # "NONE" /\ Writes(c) /\ listed[e] \in BOOLEAN
      /\ call[c].seen \in Started => mentor[e] \in Started
      /\ e \notin crossed => (call[c].profile = "TRUE" <=> listed[e]) /\ (call[c].seen = "ACTIVE" => mentor[e] = "ACTIVE")
      /\ e \notin crossed => \A d \in Calls : Writes(d) /\ call[d].on = e => d = c
  BY DEF SetMentorStatus, MentorInv, Rows, CallsRemember, Remembers, Writes, Visibility, VisibilityIsKnown, Knows
<1>2. new \in Started /\ (~ suspend /\ e \notin crossed => new = "ACTIVE")
  BY <1>1 DEF Started, Column
<1>3. shown \in BOOLEAN /\ (e \notin crossed => shown = ~ suspend)
  BY <1>1 DEF Column
<1>4. /\ mentor' = [mentor EXCEPT ![e] = new] /\ listed' = [listed EXCEPT ![e] = shown]
      /\ invite' = invite /\ ask' = ask /\ CloseCall(c)
  BY DEF SetMentorStatus
<1> HIDE DEF e, suspend, new, shown
<1>5. new = "SUSPENDED" => shown = FALSE \/ e \in crossed
  BY <1>2, <1>3
<1>6. shown \in BOOLEAN
  BY <1>3
<1>7. Rows'
  BY <1>1, <1>2, <1>4, <1>6 DEF MentorInv, Rows, Started
<1>8. Grows
  BY <1>1, <1>2, <1>4 DEF MentorInv, Rows, Grows, Started
<1>9. CallsRemember' /\ crossed' = crossed /\ (\A d \in Calls : call'[d] = IF d = c THEN NoCall ELSE call[d])
  BY <1>4, <1>8, ClosedCalls DEF MentorInv
<1>10. \A x \in Emails : (mentor'[x] # "NONE" <=> mentor[x] # "NONE") /\ (mentor[x] \in Started => mentor'[x] \in Started)
  BY <1>1, <1>2, <1>4 DEF MentorInv, Rows, Started
<1>11. OneInvitation'
  BY <1>4, <1>10 DEF MentorInv, OneInvitation
<1>12. InvitedCanActivate'
  BY <1>4, <1>10, MentorshipAssumption DEF MentorInv, InvitedCanActivate, Started, MentorshipAssumption
<1>13. SessionIsDated'
  BY <1>4, <1>10 DEF MentorInv, Rows, SessionIsDated, MentorRequest
<1>14. SuspendedIsHidden'
  BY <1>1, <1>4, <1>5, <1>9 DEF MentorInv, Rows, SuspendedIsHidden, Marketplace
<1>15. \A d \in Calls : d # c /\ Writes(d) /\ call[d].on \notin crossed => call[d].on \in Emails /\ call[d].on # e
  BY <1>1 DEF MentorInv, CallsRemember, Remembers, Writes
<1>16. \A x \in Emails : x # e => mentor'[x] = mentor[x] /\ listed'[x] = listed[x]
  BY <1>1, <1>4 DEF MentorInv, Rows
<1>17. VisibilityIsKnown'
  BY <1>9, <1>15, <1>16, StillKnown DEF MentorInv
<1> QED BY <1>7, <1>9, <1>11, <1>12, <1>13, <1>14, <1>17 DEF MentorInv

\* A mentor who writes his own profile, and whom no suspension crosses, is still active.
LEMMA UpdateProfileStep ==
    ASSUME MentorInv, NEW c \in Calls, UpdateMyProfile(c)
    PROVE  MentorInv'
<1> DEFINE e == call[c].on
<1>1. PICK available \in BOOLEAN :
        listed' = [listed EXCEPT ![e] = Column(call[c].profile = "TRUE", available, listed[e])]
  BY DEF UpdateMyProfile
<1> DEFINE shown == Column(call[c].profile = "TRUE", available, listed[e])
<1>2. /\ e \in Emails /\ mentor[e] # "NONE" /\ Writes(c) /\ listed[e] \in BOOLEAN
      /\ e \notin crossed => mentor[e] = "ACTIVE" /\ \A d \in Calls : Writes(d) /\ call[d].on = e => d = c
  BY DEF UpdateMyProfile, MentorInv, Rows, CallsRemember, Remembers, Writes, Visibility, VisibilityIsKnown, Knows
<1>3. shown \in BOOLEAN
  BY <1>2 DEF Column
<1>4. /\ listed' = [listed EXCEPT ![e] = shown]
      /\ mentor' = mentor /\ invite' = invite /\ ask' = ask /\ CloseCall(c)
  BY <1>1 DEF UpdateMyProfile
<1> HIDE DEF e, shown
<1>5. Rows' /\ Grows
  BY <1>2, <1>3, <1>4 DEF MentorInv, Rows, Grows
<1>6. CallsRemember' /\ crossed' = crossed /\ (\A d \in Calls : call'[d] = IF d = c THEN NoCall ELSE call[d])
  BY <1>4, <1>5, ClosedCalls DEF MentorInv
<1>7. OneInvitation' /\ InvitedCanActivate' /\ SessionIsDated'
  BY <1>4 DEF MentorInv, OneInvitation, InvitedCanActivate, SessionIsDated
<1>8. \A x \in Emails : x # e => listed'[x] = listed[x]
  BY <1>2, <1>4 DEF MentorInv, Rows
<1>9. SuspendedIsHidden'
  BY <1>2, <1>4, <1>6, <1>8 DEF MentorInv, SuspendedIsHidden, Marketplace
<1>10. \A d \in Calls : d # c /\ Writes(d) /\ call[d].on \notin crossed => call[d].on \in Emails /\ call[d].on # e
  BY <1>2 DEF MentorInv, CallsRemember, Remembers, Writes
<1>11. VisibilityIsKnown'
  BY <1>4, <1>6, <1>8, <1>10, StillKnown DEF MentorInv
<1> QED BY <1>5, <1>6, <1>7, <1>9, <1>11 DEF MentorInv

\* A request that is made or moves; a date stays.
LEMMA AskStep ==
    ASSUME MentorInv, NEW c \in Calls, NEW q \in Asks, NEW row \in MentorRequest, CloseCall(c), UNCHANGED onboarding,
           ask' = [ask EXCEPT ![q] = row],
           row.status # "ABSENT" /\ row.mentor \in Emails /\ mentor[row.mentor] # "NONE",
           row.status \in {"SESSION_PLANNED", "DONE"} => row.session_at,
           ask[q].status # "ABSENT" /\ ask[q].session_at => row.session_at
    PROVE  MentorInv'
<1>1. Grows /\ Rows'
  BY DEF Grows, onboarding, MentorInv, Rows
<1>2. CallsRemember' /\ crossed' = crossed /\ (\A d \in Calls : call'[d] = IF d = c THEN NoCall ELSE call[d])
  BY <1>1, ClosedCalls DEF MentorInv
<1>3. VisibilityIsKnown'
  BY <1>2, AloneKept DEF MentorInv, onboarding
<1>4. SessionIsDated'
  BY DEF MentorInv, Rows, SessionIsDated, onboarding
<1> QED BY <1>1, <1>2, <1>3, <1>4 DEF MentorInv, OneInvitation, InvitedCanActivate, SuspendedIsHidden, Marketplace, onboarding

LEMMA RequestStep ==
    ASSUME MentorInv, NEW c \in Calls, NEW q \in Asks, RequestMentor(c, q)
    PROVE  MentorInv'
<1> DEFINE row == [status |-> "REQUESTED", mentor |-> call[c].on, session_at |-> FALSE]
<1>1. call[c].on \in Emails /\ mentor[call[c].on] # "NONE"
  BY DEF RequestMentor, MentorInv, CallsRemember, Remembers
<1>2. row \in MentorRequest /\ row.status = "REQUESTED" /\ row.mentor = call[c].on
  BY <1>1 DEF MentorRequest, MentorRequestStatus
<1>3. CloseCall(c) /\ UNCHANGED onboarding /\ ask' = [ask EXCEPT ![q] = row] /\ ask[q].status = "ABSENT"
  BY DEF RequestMentor
<1> HIDE DEF row
<1> QED BY <1>1, <1>2, <1>3, AskStep

LEMMA TransitionStep ==
    ASSUME MentorInv, NEW c \in Calls,
           RespondRequest(c) \/ PlanSession(c) \/ CompleteRequest(c) \/ CancelRequest(c)
    PROVE  MentorInv'
<1> DEFINE q == call[c].on
<1>1. PICK op \in Transitions, dated \in BOOLEAN :
          TransitionRequest(c, op, dated) /\ (op = "plan" => dated)
  BY DEF RespondRequest, PlanSession, CompleteRequest, CancelRequest, Transitions
<1>2. call[c].op = op /\ q \in Asks /\ ask[q].status # "ABSENT" /\ (call[c].seen = "SESSION_PLANNED" => ask[q].session_at)
  BY <1>1 DEF TransitionRequest, MentorInv, CallsRemember, Remembers
<1>3. PICK target \in Targets(op, call[c].seen) :
          ask' = [ask EXCEPT ![q] = [status |-> target, mentor |-> @.mentor, session_at |-> @.session_at \/ dated]]
  BY <1>1 DEF TransitionRequest
<1>4. /\ target \in MentorRequestStatus
      /\ target = "SESSION_PLANNED" => op = "plan"
      /\ target = "DONE" => call[c].seen = "SESSION_PLANNED"
  BY <1>1, <1>3 DEF Targets, Transitions, MentorRequestStatus, MENTOR_TRANSITIONS, FOUNDER_TRANSITIONS
<1>5. ask[q] \in MentorRequest /\ ask[q].mentor \in Emails /\ mentor[ask[q].mentor] # "NONE"
  BY <1>2 DEF MentorInv, Rows, SessionIsDated
<1> DEFINE row == [status |-> target, mentor |-> ask[q].mentor, session_at |-> ask[q].session_at \/ dated]
<1>6. row \in MentorRequest
  BY <1>4, <1>5 DEF MentorRequest
<1>7. ask' = [ask EXCEPT ![q] = row]
  BY <1>3
<1>8. row.status \in {"SESSION_PLANNED", "DONE"} => row.session_at
  BY <1>1, <1>2, <1>4
<1>9. row.status # "ABSENT" /\ row.mentor = ask[q].mentor /\ (ask[q].session_at => row.session_at)
  BY <1>4 DEF MentorRequestStatus
<1>10. CloseCall(c) /\ UNCHANGED onboarding
  BY <1>1 DEF TransitionRequest
<1> HIDE DEF row, q
<1> QED BY <1>2, <1>5, <1>6, <1>7, <1>8, <1>9, <1>10, AskStep

LEMMA MentorStep ==
    ASSUME MentorInv, [MentorNext]_mentorVars
    PROVE  MentorInv'
<1>1. CASE MentorNext
  BY <1>1, ApplicationStep, OpenStep, ApproveStep, RejectStep, ActivateStep, ReadProfileStep, SetStatusStep, UpdateProfileStep,
     RequestStep, TransitionStep DEF MentorNext
<1>2. CASE UNCHANGED mentorVars
  BY <1>2 DEF mentorVars, onboarding, MentorInv, Rows, CallsRemember, Remembers, OneInvitation, InvitedCanActivate,
              SessionIsDated, VisibilityIsKnown, Knows, Writes, SuspendedIsHidden, Marketplace
<1> QED BY <1>1, <1>2

\* However reviews, activations, suspensions, profiles and requests overlap, with any number of each,
\* the tables of the mentors agree: one invitation and one account for an email, and a session that
\* is planned has its date (mentors/service.py).  A suspended mentor is hidden, unless two calls
\* that write is_active of him overlapped.
THEOREM MentorshipHolds == MentorSpec => []MentorshipIsSound
<1>1. MentorInv => MentorshipIsSound
  BY DEF MentorInv, MentorshipIsSound, OnboardingAgrees
<1>2. MentorInv /\ [MentorNext]_mentorVars => MentorInv'
  BY MentorStep
<1> QED BY <1>1, <1>2, MentorInitiallySound, PTL DEF MentorSpec

-----------------------------------------------------------------------------
(* The guided modules.                                                     *)

Measured == Reported \cup Measures \cup {None}
GuidedRow == [dimension : DIMENSION_MODULES \cap Asked, phase : {"context", "form", "fiches"},
              turns : Seq(0..MaxMessages), form_data : Forms,
              before : Measured, after : Measured]
Visit == [op : AcademyOperations, on : Modules, row : GuidedRow \cup [dimension : DIMENSION_MODULES \cap Asked],
          note : (0..MaxMessages) \cup Measured]

\* The rows, and what the calls have loaded.
AcademyTypes ==
    /\ radar \in [Asked -> Reported \cup {None}]
    /\ guided \in [Modules -> GuidedRow \cup {NoModule}]
    /\ fiche \in [Fiches -> NeedFiche \cup {NoFiche}]
    /\ \A f \in Fiches : fiche[f] # NoFiche => Exists(fiche[f].session)
    /\ links \subseteq Links
    /\ messages \in 0..MaxMessages
    /\ nulled \subseteq Modules
    /\ visit \in [Visits -> Visit \cup {NoVisit}]

OnlyVisit(v, op) ==
    \A w \in Visits : visit[w] # NoVisit /\ visit[w].on = visit[v].on /\ visit[w].op = op => w = v

\* The call that creates a session.
StartInv ==
    \A v \in Visits : visit[v] # NoVisit /\ visit[v].op = "start" =>
        /\ ~ Exists(visit[v].on) /\ visit[v].row \in [dimension : DIMENSION_MODULES \cap Asked]
        /\ \A w \in Visits : visit[w] # NoVisit /\ visit[w].on = visit[v].on => w = v

\* A session that had left the conversation when it was loaded has not come back to it, and what is
\* served one at a time is still as it was loaded.
Held(v) ==
    LET mine == visit[v]  now == guided[visit[v].on] IN
    /\ Exists(mine.on) /\ mine.row \in GuidedRow
    /\ mine.row.phase = "context" => mine.row.form_data = None
    /\ mine.row.form_data = None => mine.row.phase = "context" \/ mine.on \in nulled
    /\ mine.row.phase # "context" => now.phase # "context"
    /\ mine.op \in {"generate", "rescore"} => mine.row.form_data # None
    /\ mine.op = "turn" =>
        /\ mine.note \in 0..MaxMessages
        /\ "turn" \in OneAtATime => mine.row.turns = now.turns /\ OnlyVisit(v, "turn")
    /\ mine.op = "rescore" =>
        /\ mine.note \in Measured /\ (mine.row.after # None => mine.note = mine.row.after)
        /\ "rescore" \in OneAtATime =>
            mine.row.before = now.before /\ mine.row.after = now.after /\ OnlyVisit(v, "rescore")
VisitInv == \A v \in Visits : visit[v] # NoVisit /\ visit[v].op # "start" => Held(v)

AcademyInv == AcademyTypes /\ StartInv /\ VisitInv /\ FormMatchesPhase

LEMMA NoVisitIsNone == NoVisit \notin Visit /\ NoVisit.op \notin AcademyOperations
  BY NoneIsNothing DEF NoVisit, Visit

LEMMA NoModuleIsNone == NoModule \notin GuidedRow /\ NoFiche \notin NeedFiche
  BY DEF NoModule, GuidedRow, NoFiche, NeedFiche

LEMMA AcademyStarts == AcademyInit => AcademyInv
<1> SUFFICES ASSUME AcademyInit PROVE AcademyInv
  OBVIOUS
<1>1. /\ radar \in [Asked -> Reported \cup {None}] /\ links = {} /\ messages = 0 /\ nulled = {}
      /\ guided \in [Modules -> GuidedRow \cup {NoModule}] /\ \A s \in Modules : guided[s] = NoModule
      /\ fiche \in [Fiches -> NeedFiche \cup {NoFiche}] /\ \A f \in Fiches : fiche[f] = NoFiche
      /\ visit \in [Visits -> Visit \cup {NoVisit}] /\ \A v \in Visits : visit[v] = NoVisit
  BY DEF AcademyInit
<1>2. AcademyTypes
  BY <1>1, AcademyAssumption DEF AcademyTypes
<1>3. StartInv /\ VisitInv
  BY <1>1 DEF StartInv, VisitInv
<1>4. FormMatchesPhase
  BY <1>1 DEF FormMatchesPhase, Exists
<1> QED BY <1>2, <1>3, <1>4 DEF AcademyInv

\* Calls only leave, and the sessions stay.
LEMMA VisitsLeave ==
  ASSUME AcademyInv, UNCHANGED <<guided, nulled>>, visit' \in [Visits -> Visit \cup {NoVisit}],
         \A v \in Visits : visit'[v] = NoVisit \/ visit'[v] = visit[v]
  PROVE  StartInv' /\ VisitInv'
<1>1. StartInv'
  BY DEF AcademyInv, StartInv, Exists
<1>2. VisitInv'
  BY DEF AcademyInv, VisitInv, Held, OnlyVisit, Exists
<1> QED BY <1>1, <1>2

\* What is done to the sheets and to the report.
LEMMA SheetsMove ==
  ASSUME AcademyInv, UNCHANGED <<guided, nulled>>, visit' \in [Visits -> Visit \cup {NoVisit}],
         \A v \in Visits : visit'[v] = NoVisit \/ visit'[v] = visit[v],
         radar' \in [Asked -> Reported \cup {None}], links' \subseteq Links, messages' \in 0..MaxMessages,
         fiche' \in [Fiches -> NeedFiche \cup {NoFiche}],
         \A f \in Fiches : fiche'[f] # NoFiche => fiche[f] # NoFiche /\ fiche'[f].session = fiche[f].session
  PROVE  AcademyInv'
<1>1. AcademyTypes'
  BY DEF AcademyInv, AcademyTypes, Exists
<1>2. FormMatchesPhase'
  BY DEF AcademyInv, FormMatchesPhase, Exists
<1> QED BY <1>1, <1>2, VisitsLeave DEF AcademyInv

LEMMA SheetStep ==
  ASSUME AcademyInv, \/ NewRadar \/ (\E v \in Visits : GiveUp(v))
                     \/ (\E f \in Fiches : ValidateFiche(f) \/ ShareFiche(f) \/ UnshareFiche(f))
  PROVE  AcademyInv'
<1>1. /\ radar \in [Asked -> Reported \cup {None}] /\ links \subseteq Links /\ messages \in 0..MaxMessages
      /\ fiche \in [Fiches -> NeedFiche \cup {NoFiche}] /\ visit \in [Visits -> Visit \cup {NoVisit}]
  BY DEF AcademyInv, AcademyTypes
<1>2. CASE NewRadar
  <2>1. radar' \in [Asked -> Reported \cup {None}] /\ UNCHANGED <<guided, fiche, links, visit, messages, nulled>>
    BY <1>2 DEF NewRadar
  <2> QED BY <1>1, <2>1, SheetsMove
<1>3. ASSUME NEW v \in Visits, GiveUp(v) PROVE AcademyInv'
  <2>1. visit' = [visit EXCEPT ![v] = NoVisit] /\ UNCHANGED <<radar, guided, fiche, links, messages, nulled>>
    BY <1>3 DEF GiveUp, Left
  <2> QED BY <1>1, <2>1, SheetsMove
<1>4. ASSUME NEW f \in Fiches, ValidateFiche(f) \/ ShareFiche(f) \/ UnshareFiche(f) PROVE AcademyInv'
  <2>1. UNCHANGED <<radar, guided, visit, messages, nulled>> /\ links' \subseteq Links
    BY <1>1, <1>4 DEF ValidateFiche, ShareFiche, UnshareFiche
  <2>2. PICK row : row \in NeedFiche /\ row.session = fiche[f].session /\ fiche' = [fiche EXCEPT ![f] = row]
                     /\ fiche[f] # NoFiche
    <3>1. fiche[f] # NoFiche /\ fiche[f] \in NeedFiche
      BY <1>1, <1>4 DEF ValidateFiche, ShareFiche, UnshareFiche, SetFiche
    <3>2. CASE ValidateFiche(f)
      <4>1. [fiche[f] EXCEPT !.is_validated = TRUE] \in NeedFiche
        BY <3>1 DEF NeedFiche
      <4> QED BY <3>1, <3>2, <4>1 DEF ValidateFiche, SetFiche, NeedFiche
    <3>3. CASE ShareFiche(f)
      <4>1. PICK page \in Links : fiche' = [fiche EXCEPT ![f] = [fiche[f] EXCEPT !.link = page]]
        BY <3>3 DEF ShareFiche, SetFiche
      <4>2. [fiche[f] EXCEPT !.link = page] \in NeedFiche
        BY <3>1 DEF NeedFiche
      <4> QED BY <3>1, <4>1, <4>2 DEF NeedFiche
    <3>4. CASE UnshareFiche(f)
      <4>1. [fiche[f] EXCEPT !.link = None] \in NeedFiche
        BY <3>1 DEF NeedFiche
      <4> QED BY <3>1, <3>4, <4>1 DEF UnshareFiche, SetFiche, NeedFiche
    <3> QED BY <1>4, <3>2, <3>3, <3>4
  <2>3. fiche' \in [Fiches -> NeedFiche \cup {NoFiche}]
    BY <1>1, <2>2
  <2>4. \A g \in Fiches : fiche'[g] # NoFiche => fiche[g] # NoFiche /\ fiche'[g].session = fiche[g].session
    BY <1>1, <2>2
  <2> QED BY <1>1, <2>1, <2>3, <2>4, SheetsMove
<1> QED BY <1>2, <1>3, <1>4

\* A call arrives, with what it has read of its session.
LEMMA VisitArrives ==
  ASSUME AcademyInv, NEW v \in Visits, NEW mine \in Visit,
         visit[v] = NoVisit, visit' = [visit EXCEPT ![v] = mine],
         UNCHANGED <<radar, guided, fiche, links, nulled>>, messages' \in 0..MaxMessages,
         mine.op = "start" =>
            /\ ~ Exists(mine.on) /\ mine.row \in [dimension : DIMENSION_MODULES \cap Asked]
            /\ \A w \in Visits : visit[w] # NoVisit => visit[w].on # mine.on,
         mine.op # "start" =>
            /\ Exists(mine.on) /\ mine.row = guided[mine.on]
            /\ mine.op \in {"generate", "rescore"} => mine.row.form_data # None
            /\ mine.op = "turn" => mine.note \in 0..MaxMessages
            /\ mine.op = "rescore" => mine.note \in Measured /\ (mine.row.after # None => mine.note = mine.row.after)
            /\ mine.op \in OneAtATime =>
                \A w \in Visits : visit[w] # NoVisit => ~ (visit[w].op = mine.op /\ visit[w].on = mine.on)
  PROVE  AcademyInv'
<1>1. /\ visit \in [Visits -> Visit \cup {NoVisit}] /\ visit' \in [Visits -> Visit \cup {NoVisit}]
      /\ visit'[v] = mine /\ \A w \in Visits : w # v => visit'[w] = visit[w]
      /\ guided \in [Modules -> GuidedRow \cup {NoModule}] /\ mine.on \in Modules
  BY DEF AcademyInv, AcademyTypes, Visit
<1>2. AcademyTypes'
  BY <1>1 DEF AcademyInv, AcademyTypes, Exists
<1>3. FormMatchesPhase'
  BY DEF AcademyInv, FormMatchesPhase, Exists
<1>4. mine # NoVisit
  BY NoVisitIsNone
<1>5. \A w \in Visits : visit[w] # NoVisit /\ visit[w].op # "start" => Exists(visit[w].on)
  BY DEF AcademyInv, VisitInv, Held
<1>6. \A w \in Visits : visit[w] # NoVisit /\ visit[w].op = "start" => ~ Exists(visit[w].on)
  BY DEF AcademyInv, StartInv
<1>7. StartInv'
  <2> SUFFICES ASSUME NEW w \in Visits, visit'[w] # NoVisit, visit'[w].op = "start"
               PROVE  /\ ~ Exists(visit'[w].on) /\ visit'[w].row \in [dimension : DIMENSION_MODULES \cap Asked]
                      /\ \A u \in Visits : visit'[u] # NoVisit /\ visit'[u].on = visit'[w].on => u = w
    BY DEF StartInv, Exists
  <2>1. CASE w = v
    BY <1>1, <2>1
  <2>2. CASE w # v
    <3>1. visit'[w] = visit[w]
      BY <1>1, <2>2
    <3>2. /\ ~ Exists(visit[w].on) /\ visit[w].row \in [dimension : DIMENSION_MODULES \cap Asked]
          /\ \A u \in Visits : visit[u] # NoVisit /\ visit[u].on = visit[w].on => u = w
      BY <3>1 DEF AcademyInv, StartInv
    <3>3. mine.on # visit[w].on
      BY <3>1, <3>2
    <3> QED BY <1>1, <3>1, <3>2, <3>3
  <2> QED BY <2>1, <2>2
<1>8. VisitInv'
  <2> SUFFICES ASSUME NEW w \in Visits, visit'[w] # NoVisit, visit'[w].op # "start"
               PROVE  Held(w)'
    BY DEF VisitInv
  <2>1. CASE w = v
    <3>1. visit'[w] = mine /\ mine.op # "start"
      BY <1>1, <2>1
    <3>2. Exists(mine.on) /\ guided[mine.on] \in GuidedRow /\ mine.row = guided[mine.on]
      BY <1>1, <3>1 DEF Exists
    <3>3. /\ mine.row.phase = "context" => mine.row.form_data = None
          /\ mine.row.form_data = None => mine.row.phase = "context" \/ mine.on \in nulled
      BY <1>1, <3>2 DEF AcademyInv, FormMatchesPhase
    <3>4. mine.op \in OneAtATime => \A u \in Visits : visit'[u] # NoVisit /\ visit'[u].on = mine.on /\ visit'[u].op = mine.op => u = v
      BY <1>1, <3>1
    <3> QED BY <2>1, <3>1, <3>2, <3>3, <3>4 DEF Held, OnlyVisit, Exists
  <2>2. CASE w # v
    <3>1. visit'[w] = visit[w] /\ Held(w)
      BY <1>1, <2>2 DEF AcademyInv, VisitInv
    <3>2. (visit[w].op = "turn" \/ visit[w].op = "rescore") /\ visit[w].op \in OneAtATime => OnlyVisit(w, visit[w].op)'
      <4> SUFFICES ASSUME visit[w].op = "turn" \/ visit[w].op = "rescore", visit[w].op \in OneAtATime,
                          NEW u \in Visits, visit'[u] # NoVisit, visit'[u].on = visit'[w].on, visit'[u].op = visit[w].op
                   PROVE  u = w
        BY <3>1 DEF OnlyVisit
      <4>1. CASE u = v
        <5>1. mine.op = visit[w].op /\ mine.on = visit[w].on /\ mine.op # "start" /\ visit[w] # NoVisit
          BY <1>1, <3>1, <4>1
        <5> QED BY <5>1
      <4>2. CASE u # v
        BY <1>1, <3>1, <4>2 DEF Held, OnlyVisit
      <4> QED BY <4>1, <4>2
    <3> QED BY <3>1, <3>2 DEF Held, OnlyVisit, Exists
  <2> QED BY <2>1, <2>2
<1> QED BY <1>2, <1>3, <1>7, <1>8 DEF AcademyInv

LEMMA StartModuleStep ==
  ASSUME AcademyInv, NEW v \in Visits, NEW d \in Asked, StartModule(v, d)
  PROVE  AcademyInv'
<1>1. PICK s \in Modules :
        /\ \A t \in Modules : Exists(t) \/ (\E w \in Visits : visit[w].on = t) => t < s
        /\ Visited(v, "start", s, [dimension |-> d], None)
  BY DEF StartModule
<1> DEFINE mine == [op |-> "start", on |-> s, row |-> [dimension |-> d], note |-> None]
<1>2. visit[v] = NoVisit /\ visit' = [visit EXCEPT ![v] = mine]
  BY <1>1 DEF Visited
<1>3. d \in DIMENSION_MODULES \cap Asked /\ UNCHANGED <<radar, guided, fiche, links, nulled>>
  BY DEF StartModule
<1>4. mine \in Visit
  BY <1>3 DEF Visit, AcademyOperations, Measured
<1>5. ~ (s < s)
  BY DEF Modules
<1>6. ~ Exists(s) /\ \A w \in Visits : visit[w].on # s
  BY <1>1, <1>5
<1>7. messages' \in 0..MaxMessages
  BY DEF StartModule, AcademyInv, AcademyTypes
<1>8. mine.op = "start" /\ mine.on = s /\ mine.row \in [dimension : DIMENSION_MODULES \cap Asked]
  BY <1>3
<1> HIDE DEF mine
<1> QED BY <1>2, <1>3, <1>4, <1>6, <1>7, <1>8, VisitArrives

LEMMA LoadOwnedSessionStep ==
  ASSUME AcademyInv, NEW v \in Visits, NEW s \in Modules, NEW op \in AcademyOperations, LoadOwnedSession(v, op, s)
  PROVE  AcademyInv'
<1> DEFINE row == guided[s]
           note == CASE op = "turn" -> messages' [] op = "rescore" -> ScoreBefore(row) [] OTHER -> None
           mine == [op |-> op, on |-> s, row |-> row, note |-> note]
<1>1. op # "start" /\ Exists(s) /\ Accepts(op, row) /\ UNCHANGED <<radar, guided, fiche, links, nulled>>
  BY DEF LoadOwnedSession
<1>2. row \in GuidedRow /\ messages \in 0..MaxMessages /\ radar \in [Asked -> Reported \cup {None}]
  BY <1>1 DEF AcademyInv, AcademyTypes, Exists
<1>3. messages' \in 0..MaxMessages
  <2>1. op = "turn" => messages < MaxMessages
    BY <1>1 DEF Accepts
  <2> QED BY <1>2, <2>1, AcademyAssumption DEF LoadOwnedSession
<1>4. Visited(v, op, s, row, note)
  BY DEF LoadOwnedSession
<1>5. /\ visit[v] = NoVisit /\ visit' = [visit EXCEPT ![v] = mine]
      /\ op \in OneAtATime => \A w \in Visits : <<visit[w].op, visit[w].on>> # <<op, s>>
  BY <1>4 DEF Visited
<1>6. ScoreBefore(row) \in Measured /\ (row.after # None => ScoreBefore(row) = row.after)
  BY <1>2 DEF ScoreBefore, GuidedRow, Measured
<1>7. /\ op = "turn" => note = messages'
      /\ op = "rescore" => note = ScoreBefore(row)
      /\ op # "turn" /\ op # "rescore" => note = None
  OBVIOUS
<1>8. op \in {"generate", "rescore"} => row.form_data # None
  BY <1>1, NoneIsNothing DEF Accepts, Filled
<1> HIDE DEF note
<1>9. note \in (0..MaxMessages) \cup Measured
  BY <1>3, <1>6, <1>7 DEF Measured
<1>10. mine \in Visit
  BY <1>2, <1>9 DEF Visit
<1>11. mine.op = op /\ mine.on = s /\ mine.row = row /\ mine.note = note
  OBVIOUS
<1> HIDE DEF mine, row
<1>12. op \in OneAtATime => \A w \in Visits : visit[w] # NoVisit => ~ (visit[w].op = mine.op /\ visit[w].on = mine.on)
  BY <1>5, <1>11
<1>13. mine.op = "rescore" => mine.note \in Measured /\ (mine.row.after # None => mine.note = mine.row.after)
  BY <1>6, <1>7, <1>11
<1>14. mine.op = "turn" => mine.note \in 0..MaxMessages
  BY <1>3, <1>7, <1>11
<1>15. mine.row = guided[mine.on]
  BY <1>11 DEF row
<1> QED BY <1>1, <1>3, <1>5, <1>8, <1>10, <1>11, <1>12, <1>13, <1>14, <1>15, VisitArrives

\* A call writes its session and is over.
LEMMA Committed ==
  ASSUME AcademyInv, NEW v \in Visits, visit[v] # NoVisit, NEW new \in GuidedRow,
         guided' = [guided EXCEPT ![visit[v].on] = new], visit' = [visit EXCEPT ![v] = NoVisit],
         UNCHANGED <<radar, links, messages>>,
         nulled \subseteq nulled', nulled' \subseteq Modules,
         new.phase = "context" => new.form_data = None /\ new.after = None,
         new.form_data = None => new.phase = "context" \/ visit[v].on \in nulled',
         visit[v].op # "start" =>
            /\ guided[visit[v].on].phase # "context" => new.phase # "context"
            /\ visit[v].op # "turn" => new.turns = guided[visit[v].on].turns
            /\ visit[v].op # "rescore" =>
                new.before = guided[visit[v].on].before /\ new.after = guided[visit[v].on].after,
         fiche' \in [Fiches -> NeedFiche \cup {NoFiche}],
         \A f \in Fiches : fiche'[f] # NoFiche =>
            fiche'[f] = fiche[f] \/ (fiche'[f].session = visit[v].on /\ new.phase # "context")
  PROVE  AcademyInv'
<1> DEFINE on == visit[v].on
<1>1. /\ visit \in [Visits -> Visit \cup {NoVisit}] /\ guided \in [Modules -> GuidedRow \cup {NoModule}]
      /\ fiche \in [Fiches -> NeedFiche \cup {NoFiche}]
      /\ \A f \in Fiches : fiche[f] # NoFiche => Exists(fiche[f].session)
  BY DEF AcademyInv, AcademyTypes
<1>2. on \in Modules /\ new # NoModule
  BY <1>1, NoModuleIsNone DEF Visit
<1>3. guided'[on] = new /\ \A s \in Modules : s # on => guided'[s] = guided[s]
  BY <1>1, <1>2
<1>4. visit'[v] = NoVisit /\ \A w \in Visits : w # v => visit'[w] = visit[w]
  BY <1>1
<1>5. \A f \in Fiches : fiche[f] # NoFiche => fiche[f].session \in Modules
  BY <1>1 DEF NeedFiche
<1>6. guided' \in [Modules -> GuidedRow \cup {NoModule}] /\ visit' \in [Visits -> Visit \cup {NoVisit}]
  BY <1>1, <1>2
<1>7. \A w \in Visits : visit[w] # NoVisit => visit[w].on \in Modules
  BY <1>1 DEF Visit
<1> HIDE DEF on
<1>8. AcademyTypes'
  <2>1. \A f \in Fiches : fiche'[f] # NoFiche => guided'[fiche'[f].session] # NoModule
    BY <1>1, <1>2, <1>3, <1>5 DEF on, Exists
  <2> QED BY <1>6, <2>1 DEF AcademyInv, AcademyTypes, Exists
<1>9. FormMatchesPhase'
  <2>1. ASSUME NEW s \in Modules, guided'[s] # NoModule
        PROVE  /\ guided'[s].phase = "context" => guided'[s].form_data = None /\ guided'[s].after = None
               /\ guided'[s].form_data = None => guided'[s].phase = "context" \/ s \in nulled'
    BY <1>2, <1>3, <2>1 DEF on, AcademyInv, FormMatchesPhase, Exists
  <2>2. ASSUME NEW f \in Fiches, fiche'[f] # NoFiche PROVE guided'[fiche'[f].session].phase # "context"
    <3>1. CASE fiche'[f] = fiche[f]
      <4>1. guided[fiche[f].session].phase # "context" /\ Exists(fiche[f].session) /\ fiche[f].session \in Modules
        BY <1>1, <1>5, <2>2, <3>1 DEF AcademyInv, FormMatchesPhase
      <4>2. CASE fiche[f].session = on
        <5>1. visit[v].op # "start"
          BY <4>1, <4>2 DEF on, AcademyInv, StartInv
        <5> QED BY <1>3, <3>1, <4>1, <4>2, <5>1 DEF on
      <4> QED BY <1>3, <3>1, <4>1, <4>2
    <3>2. CASE fiche'[f].session = on /\ new.phase # "context"
      BY <1>3, <3>2
    <3> QED BY <2>2, <3>1, <3>2 DEF on
  <2> QED BY <2>1, <2>2 DEF FormMatchesPhase, Exists
<1>10. StartInv'
  <2> SUFFICES ASSUME NEW w \in Visits, visit'[w] # NoVisit, visit'[w].op = "start"
               PROVE  /\ guided'[visit'[w].on] = NoModule /\ visit'[w].row \in [dimension : DIMENSION_MODULES \cap Asked]
                      /\ \A u \in Visits : visit'[u] # NoVisit /\ visit'[u].on = visit'[w].on => u = w
    BY DEF StartInv, Exists
  <2>1. w # v /\ visit'[w] = visit[w]
    BY <1>4
  <2>2. /\ ~ Exists(visit[w].on) /\ visit[w].row \in [dimension : DIMENSION_MODULES \cap Asked]
        /\ \A u \in Visits : visit[u] # NoVisit /\ visit[u].on = visit[w].on => u = w
    BY <2>1 DEF AcademyInv, StartInv
  <2>3. visit[w].on # on /\ visit[w].on \in Modules
    BY <1>7, <2>1, <2>2 DEF on
  <2> QED BY <1>3, <1>4, <2>1, <2>2, <2>3 DEF Exists
<1>11. VisitInv'
  <2> SUFFICES ASSUME NEW w \in Visits, visit'[w] # NoVisit, visit'[w].op # "start" PROVE Held(w)'
    BY DEF VisitInv
  <2>1. w # v /\ visit'[w] = visit[w] /\ Held(w) /\ visit[w].on \in Modules
    BY <1>4, <1>7 DEF AcademyInv, VisitInv
  <2>2. OnlyVisit(w, "turn") => OnlyVisit(w, "turn")'
    BY <1>4, <2>1 DEF OnlyVisit
  <2>3. OnlyVisit(w, "rescore") => OnlyVisit(w, "rescore")'
    BY <1>4, <2>1 DEF OnlyVisit
  <2>4. Exists(visit[w].on)
    BY <2>1 DEF Held
  <2>5. CASE visit[w].on # on
    <3>1. guided'[visit'[w].on] = guided[visit[w].on]
      BY <1>3, <2>1, <2>5
    <3> QED BY <2>1, <2>2, <2>3, <3>1 DEF Held, Exists
  <2>6. CASE visit[w].on = on
    <3>1. visit[v].op # "start"
      BY <2>4, <2>6 DEF on, AcademyInv, StartInv
    <3>2. guided'[visit'[w].on] = new
      BY <1>3, <2>1, <2>6
    <3>3. OnlyVisit(w, "turn") => visit[v].op # "turn" \/ visit[w].op # "turn"
      BY <2>1, <2>6 DEF on, OnlyVisit
    <3>4. OnlyVisit(w, "rescore") => visit[v].op # "rescore" \/ visit[w].op # "rescore"
      BY <2>1, <2>6 DEF on, OnlyVisit
    <3>5. guided'[visit'[w].on] # NoModule
      BY <1>2, <3>2
    <3>6. visit[w].row.phase # "context" => new.phase # "context"
      BY <2>1, <2>6, <3>1 DEF on, Held
    <3>7. visit[w].op = "turn" => /\ visit[w].note \in 0..MaxMessages
                                  /\ "turn" \in OneAtATime => visit[w].row.turns = new.turns /\ OnlyVisit(w, "turn")'
      BY <2>1, <2>2, <2>6, <3>1, <3>3 DEF on, Held
    <3>8. visit[w].op = "rescore" =>
            /\ visit[w].note \in Measured /\ (visit[w].row.after # None => visit[w].note = visit[w].row.after)
            /\ "rescore" \in OneAtATime =>
                visit[w].row.before = new.before /\ visit[w].row.after = new.after /\ OnlyVisit(w, "rescore")'
      BY <2>1, <2>3, <2>6, <3>1, <3>4 DEF on, Held
    <3>9. /\ visit[w].row \in GuidedRow /\ visit[w].row.phase = "context" => visit[w].row.form_data = None
          /\ visit[w].row.form_data = None => visit[w].row.phase = "context" \/ visit[w].on \in nulled'
          /\ visit[w].op \in {"generate", "rescore"} => visit[w].row.form_data # None
      BY <2>1 DEF Held
    <3> QED BY <2>1, <3>2, <3>5, <3>6, <3>7, <3>8, <3>9 DEF Held, Exists
  <2> QED BY <2>5, <2>6
<1> QED BY <1>8, <1>9, <1>10, <1>11 DEF AcademyInv

LEMMA CreateSessionStep == ASSUME AcademyInv, NEW v \in Visits, CreateSession(v) PROVE AcademyInv'
<1> DEFINE new == [dimension |-> visit[v].row.dimension, phase |-> "context", turns |-> <<Opener>>,
                   form_data |-> None, before |-> None, after |-> None]
<1>1. visit[v].op = "start" /\ guided' = [guided EXCEPT ![visit[v].on] = new] /\ UNCHANGED <<radar, fiche, links, messages, nulled>>
  BY DEF CreateSession
<1>2. visit[v] # NoVisit /\ visit' = [visit EXCEPT ![v] = NoVisit]
  BY <1>1, NoVisitIsNone DEF CreateSession, Left, AcademyOperations
<1>3. visit[v].row \in [dimension : DIMENSION_MODULES \cap Asked]
  BY <1>1, <1>2 DEF AcademyInv, StartInv
<1>4. <<Opener>> \in Seq(0..MaxMessages)
  BY AcademyAssumption DEF Opener
<1>5. new \in GuidedRow
  BY <1>3, <1>4 DEF GuidedRow, Forms, Measured
<1>6. new.phase = "context" /\ new.form_data = None /\ new.after = None
  OBVIOUS
<1>7. fiche' \in [Fiches -> NeedFiche \cup {NoFiche}] /\ nulled' \subseteq Modules
  BY <1>1 DEF AcademyInv, AcademyTypes
<1> HIDE DEF new
<1> QED BY <1>1, <1>2, <1>5, <1>6, <1>7, Committed

\* A call that writes has loaded its session, which is still there.
LEMMA Working ==
  ASSUME AcademyInv, NEW v \in Visits, visit[v].op \in AcademyOperations, visit[v].op # "start"
  PROVE  /\ visit[v] # NoVisit /\ Held(v) /\ visit[v].on \in Modules
         /\ visit[v].row \in GuidedRow /\ guided[visit[v].on] \in GuidedRow
         /\ guided[visit[v].on].phase = "context" => guided[visit[v].on].form_data = None /\ guided[visit[v].on].after = None
         /\ guided[visit[v].on].form_data = None => guided[visit[v].on].phase = "context" \/ visit[v].on \in nulled
         /\ nulled \subseteq Modules /\ fiche \in [Fiches -> NeedFiche \cup {NoFiche}] /\ guided \in [Modules -> GuidedRow \cup {NoModule}]
<1>1. visit[v] # NoVisit
  BY NoVisitIsNone
<1>2. Held(v) /\ visit[v].on \in Modules /\ guided \in [Modules -> GuidedRow \cup {NoModule}]
  BY <1>1 DEF AcademyInv, VisitInv, AcademyTypes, Visit
<1>3. visit[v].row \in GuidedRow /\ Exists(visit[v].on)
  BY <1>2 DEF Held
<1>4. guided[visit[v].on] \in GuidedRow
  BY <1>2, <1>3 DEF Exists
<1>5. fiche \in [Fiches -> NeedFiche \cup {NoFiche}] /\ nulled \subseteq Modules
  BY DEF AcademyInv, AcademyTypes
<1>6. /\ guided[visit[v].on].phase = "context" => guided[visit[v].on].form_data = None /\ guided[visit[v].on].after = None
      /\ guided[visit[v].on].form_data = None => guided[visit[v].on].phase = "context" \/ visit[v].on \in nulled
  BY <1>2, <1>3 DEF AcademyInv, FormMatchesPhase
<1> QED BY <1>1, <1>2, <1>3, <1>4, <1>5, <1>6

LEMMA ModuleTurnStep == ASSUME AcademyInv, NEW v \in Visits, ModuleTurn(v) PROVE AcademyInv'
<1>1. CommitModule(v, "turn", [guided[visit[v].on] EXCEPT !.turns = Append(visit[v].row.turns, visit[v].note)])
  BY DEF ModuleTurn
<1> DEFINE prior == guided[visit[v].on]
           new == [prior EXCEPT !.turns = Append(visit[v].row.turns, visit[v].note)]
<1>2. /\ visit[v].op = "turn" /\ guided' = [guided EXCEPT ![visit[v].on] = new]
      /\ visit' = [visit EXCEPT ![v] = NoVisit] /\ UNCHANGED <<radar, fiche, links, messages, nulled>>
  BY <1>1 DEF CommitModule, Left, ModuleTurn
<1>3. /\ visit[v] # NoVisit /\ Held(v) /\ visit[v].row \in GuidedRow /\ prior \in GuidedRow
      /\ prior.phase = "context" => prior.form_data = None /\ prior.after = None
      /\ prior.form_data = None => prior.phase = "context" \/ visit[v].on \in nulled
      /\ nulled \subseteq Modules
      /\ fiche' \in [Fiches -> NeedFiche \cup {NoFiche}]
  BY <1>2, Working DEF AcademyOperations
<1>4. visit[v].row.turns \in Seq(0..MaxMessages) /\ visit[v].note \in 0..MaxMessages
  BY <1>2, <1>3 DEF Held, GuidedRow
<1>5. Append(visit[v].row.turns, visit[v].note) \in Seq(0..MaxMessages)
  BY <1>4
<1>6. new \in GuidedRow
  BY <1>3, <1>5 DEF GuidedRow
<1>7. /\ new.phase = prior.phase /\ new.form_data = prior.form_data
      /\ new.before = prior.before /\ new.after = prior.after
  BY <1>3 DEF GuidedRow
<1> HIDE DEF new
<1> QED BY <1>2, <1>3, <1>6, <1>7, Committed

LEMMA PrefillFormStep == ASSUME AcademyInv, NEW v \in Visits, PrefillForm(v) PROVE AcademyInv'
<1>1. PICK form \in Prefilled :
        /\ CommitModule(v, "prefill", [guided[visit[v].on] EXCEPT
               !.form_data = Column(visit[v].row.form_data, form, @),
               !.phase = Column(visit[v].row.phase, "form", @)])
        /\ nulled' = IF form = None THEN nulled \cup {visit[v].on} ELSE nulled
  BY DEF PrefillForm
<1> DEFINE prior == guided[visit[v].on]
           new == [prior EXCEPT !.form_data = Column(visit[v].row.form_data, form, @),
                              !.phase = Column(visit[v].row.phase, "form", @)]
<1>2. /\ visit[v].op = "prefill" /\ guided' = [guided EXCEPT ![visit[v].on] = new]
      /\ visit' = [visit EXCEPT ![v] = NoVisit] /\ UNCHANGED <<radar, fiche, links, messages>>
  BY <1>1 DEF CommitModule, Left, PrefillForm
<1>3. /\ visit[v] # NoVisit /\ Held(v) /\ visit[v].row \in GuidedRow /\ prior \in GuidedRow /\ visit[v].on \in Modules
      /\ prior.phase = "context" => prior.form_data = None /\ prior.after = None
      /\ prior.form_data = None => prior.phase = "context" \/ visit[v].on \in nulled
      /\ nulled \subseteq Modules
      /\ fiche' \in [Fiches -> NeedFiche \cup {NoFiche}]
  BY <1>2, Working DEF AcademyOperations
<1>4. /\ visit[v].row.phase = "context" => visit[v].row.form_data = None
      /\ visit[v].row.phase # "context" => prior.phase # "context"
  BY <1>3 DEF Held
<1>5. form \in Forms /\ (form = None => visit[v].on \in nulled') /\ nulled \subseteq nulled' /\ nulled' \subseteq Modules
  BY <1>1, <1>3 DEF Forms, Prefilled
<1>6. /\ new.form_data = IF visit[v].row.form_data = form THEN prior.form_data ELSE form
      /\ new.phase = IF visit[v].row.phase = "form" THEN prior.phase ELSE "form"
      /\ new.before = prior.before /\ new.after = prior.after /\ new.turns = prior.turns
  BY <1>3 DEF GuidedRow, Column
<1>7. new \in GuidedRow
  BY <1>3, <1>5 DEF GuidedRow, Column
<1> HIDE DEF new, prior
<1>8. new.phase # "context" /\ (new.form_data = None => visit[v].on \in nulled')
  BY <1>3, <1>4, <1>5, <1>6
<1>9. /\ new.turns = guided[visit[v].on].turns
      /\ new.before = guided[visit[v].on].before /\ new.after = guided[visit[v].on].after
  BY <1>6, <1>8 DEF prior
<1> QED BY <1>2, <1>3, <1>5, <1>7, <1>8, <1>9, Committed

LEMMA SaveModuleFormStep == ASSUME AcademyInv, NEW v \in Visits, SaveModuleForm(v) PROVE AcademyInv'
<1>1. PICK form \in {"empty", "saved"} :
        CommitModule(v, "save", [guided[visit[v].on] EXCEPT
            !.form_data = Column(visit[v].row.form_data, form, @),
            !.phase = IF visit[v].row.phase = "context" THEN "form" ELSE @])
  BY DEF SaveModuleForm
<1> DEFINE prior == guided[visit[v].on]
           new == [prior EXCEPT !.form_data = Column(visit[v].row.form_data, form, @),
                              !.phase = IF visit[v].row.phase = "context" THEN "form" ELSE @]
<1>2. /\ visit[v].op = "save" /\ guided' = [guided EXCEPT ![visit[v].on] = new]
      /\ visit' = [visit EXCEPT ![v] = NoVisit] /\ UNCHANGED <<radar, fiche, links, messages, nulled>>
  BY <1>1 DEF CommitModule, Left, SaveModuleForm
<1>3. /\ visit[v] # NoVisit /\ Held(v) /\ visit[v].row \in GuidedRow /\ prior \in GuidedRow /\ visit[v].on \in Modules
      /\ prior.phase = "context" => prior.form_data = None /\ prior.after = None
      /\ prior.form_data = None => prior.phase = "context" \/ visit[v].on \in nulled
      /\ nulled \subseteq Modules
      /\ fiche' \in [Fiches -> NeedFiche \cup {NoFiche}]
  BY <1>2, Working DEF AcademyOperations
<1>4. /\ visit[v].row.phase = "context" => visit[v].row.form_data = None
      /\ visit[v].row.phase # "context" => prior.phase # "context"
  BY <1>3 DEF Held
<1>5. form \in Forms \ {None}
  BY NoneIsNothing DEF Forms
<1>6. /\ new.form_data = IF visit[v].row.form_data = form THEN prior.form_data ELSE form
      /\ new.phase = IF visit[v].row.phase = "context" THEN "form" ELSE prior.phase
      /\ new.before = prior.before /\ new.after = prior.after /\ new.turns = prior.turns
  BY <1>3 DEF GuidedRow, Column
<1>7. new \in GuidedRow
  BY <1>3, <1>5 DEF GuidedRow, Column
<1> HIDE DEF new, prior
<1>8. new.phase # "context" /\ (new.form_data = None => visit[v].on \in nulled')
  BY <1>2, <1>3, <1>4, <1>5, <1>6
<1>9. /\ new.turns = guided[visit[v].on].turns
      /\ new.before = guided[visit[v].on].before /\ new.after = guided[visit[v].on].after
  BY <1>6, <1>8 DEF prior
<1> QED BY <1>2, <1>3, <1>7, <1>8, <1>9, Committed

LEMMA GenerateFichesStep == ASSUME AcademyInv, NEW v \in Visits, GenerateFiches(v) PROVE AcademyInv'
<1> DEFINE prior == guided[visit[v].on]
           new == [prior EXCEPT !.phase = Column(visit[v].row.phase, "fiches", @)]
           sheet == [session |-> visit[v].on, is_validated |-> FALSE, link |-> None]
<1>1. /\ visit[v].op = "generate" /\ guided' = [guided EXCEPT ![visit[v].on] = new]
      /\ visit' = [visit EXCEPT ![v] = NoVisit] /\ UNCHANGED <<radar, links, messages, nulled>>
  BY DEF CommitModule, Left, GenerateFiches
<1>2. PICK made \in SUBSET {f \in Fiches : fiche[f] = NoFiche} :
        fiche' = [f \in Fiches |-> IF f \in made THEN sheet ELSE fiche[f]]
  BY DEF GenerateFiches
<1>3. /\ visit[v] # NoVisit /\ Held(v) /\ visit[v].row \in GuidedRow /\ prior \in GuidedRow /\ visit[v].on \in Modules
      /\ prior.phase = "context" => prior.form_data = None /\ prior.after = None
      /\ prior.form_data = None => prior.phase = "context" \/ visit[v].on \in nulled
      /\ nulled \subseteq Modules
      /\ fiche \in [Fiches -> NeedFiche \cup {NoFiche}]
  BY <1>1, Working DEF AcademyOperations
<1>4. prior.phase # "context"
  BY <1>1, <1>3 DEF Held
<1>5. /\ new.form_data = prior.form_data
      /\ new.phase = IF visit[v].row.phase = "fiches" THEN prior.phase ELSE "fiches"
      /\ new.before = prior.before /\ new.after = prior.after /\ new.turns = prior.turns
  BY <1>3 DEF GuidedRow, Column
<1>6. new \in GuidedRow
  BY <1>3 DEF GuidedRow, Column
<1>7. sheet \in NeedFiche /\ sheet.session = visit[v].on
  BY <1>3 DEF NeedFiche
<1> HIDE DEF new, prior, sheet
<1>8. new.phase # "context" /\ (new.form_data = None => visit[v].on \in nulled')
  BY <1>1, <1>3, <1>4, <1>5
<1>9. fiche' \in [Fiches -> NeedFiche \cup {NoFiche}]
  BY <1>2, <1>3, <1>7
<1>10. \A f \in Fiches : fiche'[f] # NoFiche =>
            fiche'[f] = fiche[f] \/ (fiche'[f].session = visit[v].on /\ new.phase # "context")
  BY <1>2, <1>7, <1>8
<1>11. /\ new.turns = guided[visit[v].on].turns
       /\ new.before = guided[visit[v].on].before /\ new.after = guided[visit[v].on].after
  BY <1>5, <1>8 DEF prior
<1> QED BY <1>1, <1>3, <1>6, <1>8, <1>9, <1>10, <1>11, Committed

LEMMA RescoreAxisStep == ASSUME AcademyInv, NEW v \in Visits, RescoreAxis(v) PROVE AcademyInv'
<1>1. PICK after \in Measures :
        CommitModule(v, "rescore", [guided[visit[v].on] EXCEPT
            !.before = Column(visit[v].row.before, visit[v].note, @),
            !.after = Column(visit[v].row.after, after, @)])
  BY DEF RescoreAxis
<1> DEFINE prior == guided[visit[v].on]
           new == [prior EXCEPT !.before = Column(visit[v].row.before, visit[v].note, @),
                              !.after = Column(visit[v].row.after, after, @)]
<1>2. /\ visit[v].op = "rescore" /\ guided' = [guided EXCEPT ![visit[v].on] = new]
      /\ visit' = [visit EXCEPT ![v] = NoVisit] /\ UNCHANGED <<radar, fiche, links, messages, nulled>>
  BY <1>1 DEF CommitModule, Left, RescoreAxis
<1>3. /\ visit[v] # NoVisit /\ Held(v) /\ visit[v].row \in GuidedRow /\ prior \in GuidedRow
      /\ prior.phase = "context" => prior.form_data = None /\ prior.after = None
      /\ prior.form_data = None => prior.phase = "context" \/ visit[v].on \in nulled
      /\ nulled \subseteq Modules
      /\ fiche' \in [Fiches -> NeedFiche \cup {NoFiche}]
  BY <1>2, Working DEF AcademyOperations
<1>4. prior.phase # "context" /\ visit[v].note \in Measured /\ after \in Measured
  BY <1>2, <1>3 DEF Held, Measured
<1>5. /\ new.form_data = prior.form_data /\ new.phase = prior.phase /\ new.turns = prior.turns
  BY <1>3 DEF GuidedRow
<1>6. new \in GuidedRow
  BY <1>3, <1>4 DEF GuidedRow, Column
<1> HIDE DEF new
<1> QED BY <1>2, <1>3, <1>4, <1>5, <1>6, Committed

LEMMA AcademyStep == AcademyInv /\ [AcademyNext]_academyVars => AcademyInv'
<1> SUFFICES ASSUME AcademyInv, [AcademyNext]_academyVars PROVE AcademyInv'
  OBVIOUS
<1>1. CASE UNCHANGED academyVars
  <2>1. UNCHANGED <<radar, guided, fiche, links, visit, messages, nulled>>
    BY <1>1 DEF academyVars
  <2>2. /\ radar \in [Asked -> Reported \cup {None}] /\ links \subseteq Links /\ messages \in 0..MaxMessages
        /\ fiche \in [Fiches -> NeedFiche \cup {NoFiche}] /\ visit \in [Visits -> Visit \cup {NoVisit}]
    BY DEF AcademyInv, AcademyTypes
  <2> QED BY <2>1, <2>2, SheetsMove
<1>2. CASE \E v \in Visits, d \in Asked : StartModule(v, d)
  BY <1>2, StartModuleStep
<1>3. CASE \E v \in Visits, s \in Modules, op \in AcademyOperations : LoadOwnedSession(v, op, s)
  BY <1>3, LoadOwnedSessionStep
<1>4. CASE \E v \in Visits :
        GiveUp(v) \/ CreateSession(v) \/ ModuleTurn(v) \/ PrefillForm(v) \/ SaveModuleForm(v)
            \/ GenerateFiches(v) \/ RescoreAxis(v)
  BY <1>4, SheetStep, CreateSessionStep, ModuleTurnStep, PrefillFormStep, SaveModuleFormStep,
     GenerateFichesStep, RescoreAxisStep
<1>5. CASE NewRadar \/ \E f \in Fiches : ValidateFiche(f) \/ ShareFiche(f) \/ UnshareFiche(f)
  BY <1>5, SheetStep
<1> QED BY <1>1, <1>2, <1>3, <1>4, <1>5 DEF AcademyNext

\* However the calls on a session overlap, in any number, one that is in its conversation has no form,
\* sheet or measure, and one that has left it has a form, if the model never answered null to a prefill
\* of it (prefill_form, save_module_form, generate_fiches, rescore_axis).
THEOREM TheConversationComesFirst == AcademySpec => []FormMatchesPhase
<1>1. AcademyInv => FormMatchesPhase
  BY DEF AcademyInv
<1> QED BY <1>1, AcademyStarts, AcademyStep, PTL DEF AcademySpec

\* What a step does to the transcript and to the measures of a session.
LEMMA SessionMoves ==
  ASSUME AcademyInv, AcademyNext, NEW s \in Modules, Exists(s)
  PROVE  LET now == guided[s]  next == guided'[s] IN
         \/ next.turns = now.turns /\ next.before = now.before /\ next.after = now.after
         \/ \E v \in Visits :
             /\ visit[v].op = "turn" /\ visit[v].on = s /\ Held(v)
             /\ next.turns = Append(visit[v].row.turns, visit[v].note)
             /\ next.before = now.before /\ next.after = now.after
         \/ \E v \in Visits, after \in Measures :
             /\ visit[v].op = "rescore" /\ visit[v].on = s /\ Held(v)
             /\ next.turns = now.turns
             /\ next.before = Column(visit[v].row.before, visit[v].note, now.before)
             /\ next.after = Column(visit[v].row.after, after, now.after)
<1> DEFINE now == guided[s]
           next == guided'[s]
           Same == next.turns = now.turns /\ next.before = now.before /\ next.after = now.after
           Turned(v) == /\ visit[v].op = "turn" /\ visit[v].on = s /\ Held(v)
                        /\ next.turns = Append(visit[v].row.turns, visit[v].note)
                        /\ next.before = now.before /\ next.after = now.after
           Remeasured(v, after) ==
               /\ visit[v].op = "rescore" /\ visit[v].on = s /\ Held(v)
               /\ next.turns = now.turns
               /\ next.before = Column(visit[v].row.before, visit[v].note, now.before)
               /\ next.after = Column(visit[v].row.after, after, now.after)
<1> SUFFICES Same \/ (\E v \in Visits : Turned(v)) \/ \E v \in Visits, after \in Measures : Remeasured(v, after)
  OBVIOUS
<1>1. guided \in [Modules -> GuidedRow \cup {NoModule}] /\ now \in GuidedRow
  BY DEF AcademyInv, AcademyTypes, Exists
<1>2. CASE UNCHANGED guided
  BY <1>2
<1>3. ASSUME NEW v \in Visits, CreateSession(v) PROVE Same
  <2>1. visit[v].op = "start" /\ visit[v] # NoVisit
    BY <1>3, NoVisitIsNone DEF CreateSession, AcademyOperations
  <2>2. visit[v].on # s
    BY <2>1 DEF AcademyInv, StartInv
  <2>3. guided' = [guided EXCEPT ![visit[v].on] =
           [dimension |-> visit[v].row.dimension, phase |-> "context", turns |-> <<Opener>>,
            form_data |-> None, before |-> None, after |-> None]]
    BY <1>3 DEF CreateSession
  <2>4. guided'[s] = guided[s]
    BY <1>1, <2>2, <2>3
  <2> QED BY <2>4
<1>4. ASSUME NEW v \in Visits, NEW op \in AcademyOperations \ {"start"}, NEW row, CommitModule(v, op, row)
      PROVE  /\ Held(v) /\ visit[v].op = op
             /\ visit[v].on # s => Same
             /\ visit[v].on = s => guided'[s] = row
  <2>1. Held(v)
    BY <1>4, Working DEF CommitModule
  <2>2. guided' = [guided EXCEPT ![visit[v].on] = row] /\ visit[v].op = op
    BY <1>4 DEF CommitModule
  <2> QED BY <1>1, <2>1, <2>2
<1>5. ASSUME NEW v \in Visits, ModuleTurn(v) PROVE Same \/ Turned(v)
  <2>1. CommitModule(v, "turn", [guided[visit[v].on] EXCEPT !.turns = Append(visit[v].row.turns, visit[v].note)])
    BY <1>5 DEF ModuleTurn
  <2>2. /\ Held(v) /\ visit[v].op = "turn"
        /\ visit[v].on # s => Same
        /\ visit[v].on = s => next = [guided[visit[v].on] EXCEPT
              !.turns = Append(visit[v].row.turns, visit[v].note)]
    BY <1>4, <2>1 DEF AcademyOperations
  <2> QED BY <1>1, <2>2 DEF GuidedRow, Column
<1>6. ASSUME NEW v \in Visits, PrefillForm(v) PROVE Same
  <2>1. PICK form \in Prefilled :
          CommitModule(v, "prefill", [guided[visit[v].on] EXCEPT
              !.form_data = Column(visit[v].row.form_data, form, @),
              !.phase = Column(visit[v].row.phase, "form", @)])
    BY <1>6 DEF PrefillForm
  <2>2. /\ visit[v].on # s => Same
        /\ visit[v].on = s => next = [guided[visit[v].on] EXCEPT
              !.form_data = Column(visit[v].row.form_data, form, @),
              !.phase = Column(visit[v].row.phase, "form", @)]
    BY <1>4, <2>1 DEF AcademyOperations
  <2>3. CASE visit[v].on = s
    <3>1. next.turns = now.turns /\ next.before = now.before /\ next.after = now.after
      BY <1>1, <2>2, <2>3 DEF GuidedRow
    <3> QED BY <3>1
  <2> QED BY <2>2, <2>3
<1>7. ASSUME NEW v \in Visits, SaveModuleForm(v) PROVE Same
  <2>1. PICK form \in {"empty", "saved"} :
          CommitModule(v, "save", [guided[visit[v].on] EXCEPT
              !.form_data = Column(visit[v].row.form_data, form, @),
              !.phase = IF visit[v].row.phase = "context" THEN "form" ELSE @])
    BY <1>7 DEF SaveModuleForm
  <2>2. /\ visit[v].on # s => Same
        /\ visit[v].on = s => next = [guided[visit[v].on] EXCEPT
              !.form_data = Column(visit[v].row.form_data, form, @),
              !.phase = IF visit[v].row.phase = "context" THEN "form" ELSE @]
    BY <1>4, <2>1 DEF AcademyOperations
  <2>3. CASE visit[v].on = s
    <3>1. next.turns = now.turns /\ next.before = now.before /\ next.after = now.after
      BY <1>1, <2>2, <2>3 DEF GuidedRow
    <3> QED BY <3>1
  <2> QED BY <2>2, <2>3
<1>8. ASSUME NEW v \in Visits, GenerateFiches(v) PROVE Same
  <2>1. CommitModule(v, "generate", [guided[visit[v].on] EXCEPT !.phase = Column(visit[v].row.phase, "fiches", @)])
    BY <1>8 DEF GenerateFiches
  <2>2. /\ visit[v].on # s => Same
        /\ visit[v].on = s => next = [guided[visit[v].on] EXCEPT !.phase = Column(visit[v].row.phase, "fiches", @)]
    BY <1>4, <2>1 DEF AcademyOperations
  <2>3. CASE visit[v].on = s
    <3>1. next.turns = now.turns /\ next.before = now.before /\ next.after = now.after
      BY <1>1, <2>2, <2>3 DEF GuidedRow
    <3> QED BY <3>1
  <2> QED BY <2>2, <2>3
<1>9. ASSUME NEW v \in Visits, RescoreAxis(v) PROVE Same \/ \E after \in Measures : Remeasured(v, after)
  <2>1. PICK after \in Measures :
          CommitModule(v, "rescore", [guided[visit[v].on] EXCEPT
              !.before = Column(visit[v].row.before, visit[v].note, @),
              !.after = Column(visit[v].row.after, after, @)])
    BY <1>9 DEF RescoreAxis
  <2>2. /\ Held(v) /\ visit[v].op = "rescore"
        /\ visit[v].on # s => Same
        /\ visit[v].on = s => next = [guided[visit[v].on] EXCEPT
              !.before = Column(visit[v].row.before, visit[v].note, @),
              !.after = Column(visit[v].row.after, after, @)]
    BY <1>4, <2>1 DEF AcademyOperations
  <2>3. visit[v].on = s => Remeasured(v, after)
    BY <1>1, <2>2 DEF GuidedRow, Column
  <2> QED BY <2>2, <2>3
<1> HIDE DEF Same, Turned, Remeasured
<1>10. \/ UNCHANGED guided
       \/ \E v \in Visits : CreateSession(v) \/ ModuleTurn(v) \/ PrefillForm(v) \/ SaveModuleForm(v)
                                \/ GenerateFiches(v) \/ RescoreAxis(v)
  BY DEF AcademyNext, StartModule, LoadOwnedSession, GiveUp, NewRadar, ValidateFiche, ShareFiche, UnshareFiche
<1> QED BY <1>2, <1>3, <1>5, <1>6, <1>7, <1>8, <1>9, <1>10

LEMMA TranscriptStep ==
  ASSUME AcademyInv, [AcademyNext]_academyVars, "turn" \in OneAtATime
  PROVE  [\A s \in Modules : Exists(s) => IsPrefix(guided[s].turns, guided'[s].turns)]_guided
<1> SUFFICES ASSUME AcademyNext, guided' # guided, NEW s \in Modules, Exists(s)
             PROVE  IsPrefix(guided[s].turns, guided'[s].turns)
  BY DEF academyVars
<1>1. guided \in [Modules -> GuidedRow \cup {NoModule}] /\ guided[s] \in GuidedRow
  BY DEF AcademyInv, AcademyTypes, Exists
<1>2. guided[s].turns \in Seq(0..MaxMessages)
  BY <1>1 DEF GuidedRow
<1>3. CASE guided'[s].turns = guided[s].turns
  BY <1>2, <1>3 DEF IsPrefix
<1>4. ASSUME NEW v \in Visits, visit[v].op = "turn", visit[v].on = s, Held(v),
             guided'[s].turns = Append(visit[v].row.turns, visit[v].note)
      PROVE  IsPrefix(guided[s].turns, guided'[s].turns)
  <2>1. guided'[s].turns = Append(guided[s].turns, visit[v].note) /\ visit[v].note \in 0..MaxMessages
    BY <1>4 DEF Held
  <2> DEFINE t == guided[s].turns
             u == Append(t, visit[v].note)
  <2>2. Len(u) = Len(t) + 1 /\ u \in Seq(0..MaxMessages) /\ \A i \in 1..Len(t) : u[i] = t[i]
    BY <1>2, <2>1
  <2> HIDE DEF u
  <2>3. SubSeq(t, 1, Len(t)) = SubSeq(u, 1, Len(t)) /\ Len(t) <= Len(u)
    BY <1>2, <2>2
  <2> QED BY <2>1, <2>3 DEF IsPrefix, u
<1> QED BY <1>3, <1>4, SessionMoves

LEMMA MeasureStep ==
  ASSUME AcademyInv, [AcademyNext]_academyVars, "rescore" \in OneAtATime
  PROVE  [\A s \in Modules : Exists(s) /\ guided[s].after # None
            /\ <<guided'[s].before, guided'[s].after>> # <<guided[s].before, guided[s].after>>
            => guided'[s].before = guided[s].after]_guided
<1> SUFFICES ASSUME AcademyNext, guided' # guided, NEW s \in Modules, Exists(s), guided[s].after # None,
                    <<guided'[s].before, guided'[s].after>> # <<guided[s].before, guided[s].after>>
             PROVE  guided'[s].before = guided[s].after
  BY DEF academyVars
<1>1. PICK v \in Visits, after \in Measures :
         /\ visit[v].op = "rescore" /\ visit[v].on = s /\ Held(v)
         /\ guided'[s].before = Column(visit[v].row.before, visit[v].note, guided[s].before)
  BY SessionMoves
<1>2. visit[v].row.before = guided[s].before /\ visit[v].note = guided[s].after
  BY <1>1 DEF Held
<1> QED BY <1>1, <1>2 DEF Column

\* With one message and one new measure at a time on a session, what the founder told the coach is
\* kept, and each measure starts from the one before (module_turn, rescore_axis).
THEOREM CoachingKeepsItsHistory ==
  ASSUME {"turn", "rescore"} \subseteq OneAtATime
  PROVE  AcademySpec => CoachingIsSound
<1>1. "turn" \in OneAtATime /\ "rescore" \in OneAtATime
  OBVIOUS
<1>2. AcademyInv /\ [AcademyNext]_academyVars =>
        [\A s \in Modules : Exists(s) => IsPrefix(guided[s].turns, guided'[s].turns)]_guided
  BY <1>1, TranscriptStep
<1>3. AcademyInv /\ [AcademyNext]_academyVars =>
        [\A s \in Modules : Exists(s) /\ guided[s].after # None
            /\ <<guided'[s].before, guided'[s].after>> # <<guided[s].before, guided[s].after>>
            => guided'[s].before = guided[s].after]_guided
  BY <1>1, MeasureStep
<1>4. AcademySpec => TranscriptGrows
  BY <1>2, AcademyStarts, AcademyStep, PTL DEF AcademySpec, TranscriptGrows
<1>5. AcademySpec => MeasuresChain
  BY <1>3, AcademyStarts, AcademyStep, PTL DEF AcademySpec, MeasuresChain
<1> QED BY <1>4, <1>5 DEF CoachingIsSound

-----------------------------------------------------------------------------
(* The types of the rows, with no condition on what overlaps.              *)

\* The types alone are not inductive: a call could load the status of an account that is not there, or
\* move a request that has no mentor.
RowsStay ==
    /\ \A q \in Asks : ask[q].status # "ABSENT" => ask[q].mentor # None
    /\ \A a \in Applications : invite[a] # "NONE" => mentor[EmailOf[a]] # "NONE"
    /\ \A c \in Calls : call[c].op = "accept_invitation" => invite[call[c].on] # "NONE"

LEMMA OpenKeepsTypes ==
  ASSUME MentorTypeOK, RowsStay, NEW c \in Calls, NEW op \in MentorOperations, NEW on,
         NEW seen \in MentorApplication \cup MentorAccountStatus \cup MentorRequestStatus \cup {"none"},
         OpenCall(c, op, on, seen), UNCHANGED <<onboarding, ask>>,
         op \in {"approve", "reject", "accept_invitation"} => on \in Applications,
         op = "accept_invitation" => invite[on] # "NONE",
         op \in Visibility \cup {"request"} => on \in Emails,
         op \in Transitions => on \in Asks /\ ask[on].mentor # None
  PROVE  MentorTypeOK' /\ RowsStay'
<1> DEFINE k == [op |-> op, on |-> on, seen |-> seen, profile |-> "unread"]
<1>1. op \in {"approve", "reject", "accept_invitation"} \cup Visibility \cup {"request"} \cup Transitions
  BY DEF MentorOperations, Transitions
<1>2. on \in Applications \cup Emails \cup Asks
  BY <1>1
<1>3. k \in MentorCall /\ k.op = op /\ k.on = on
  BY <1>2 DEF MentorCall
<1>4. call' = [call EXCEPT ![c] = k]
  BY DEF OpenCall
<1> HIDE DEF k
<1>5. UNCHANGED <<application, mentor, listed, invite, lapsed, ask>>
  BY DEF onboarding
<1>6. call' \in [Calls -> MentorCall] /\ \A d \in Calls : call'[d] = IF d = c THEN k ELSE call[d]
  BY <1>3, <1>4 DEF MentorTypeOK
<1>7. crossed' \subseteq Emails
  BY DEF OpenCall, Crossing, MentorTypeOK
<1> QED BY <1>3, <1>5, <1>6, <1>7 DEF MentorTypeOK, RowsStay, Transitions, Visibility

\* A call that ends, and rows that keep their types.
LEMMA CloseKeepsTypes ==
  ASSUME MentorTypeOK, RowsStay, NEW c \in Calls, CloseCall(c),
         application' \in [Applications -> MentorApplication],
         mentor' \in [Emails -> MentorAccountStatus \cup {"NONE"}], listed' \in [Emails -> BOOLEAN],
         invite' \in [Applications -> MentorInvitationStatus \cup {"NONE"}], lapsed' = lapsed,
         ask' \in [Asks -> MentorRequest],
         \A q \in Asks : ask'[q].status # "ABSENT" => ask'[q].mentor # None,
         \A q \in Asks : ask[q].mentor # None => ask'[q].mentor # None,
         \A a \in Applications : invite'[a] # "NONE" => mentor'[EmailOf[a]] # "NONE",
         \A a \in Applications : invite[a] # "NONE" => invite'[a] # "NONE"
  PROVE  MentorTypeOK' /\ RowsStay'
<1>1. NoCall \in MentorCall /\ NoCall.op = "none"
  BY DEF NoCall, MentorCall
<1>2. call' \in [Calls -> MentorCall] /\ crossed' \subseteq Emails /\ \A d \in Calls : call'[d] = IF d = c THEN NoCall ELSE call[d]
  BY <1>1 DEF CloseCall, MentorTypeOK
<1> QED BY <1>1, <1>2 DEF MentorTypeOK, MentorProfile, RowsStay, Visibility

LEMMA MentorTypesStart == MentorInit => MentorTypeOK /\ RowsStay
BY DEF MentorInit, MentorTypeOK, RowsStay, MentorApplication, MentorProfile, MentorRequest, MentorCall, NoCall, Visibility

LEMMA MentorOpensTypes ==
  ASSUME MentorTypeOK, RowsStay, NEW c \in Calls,
         \/ \E a \in Applications : OpenInvitation(c, a) \/ \E op \in MentorOperations : OpenReview(c, a, op)
         \/ \E e \in Emails : OpenRequest(c, e) \/ OpenProfile(c, e) \/ \E op \in MentorOperations : OpenMentor(c, e, op)
         \/ \E q \in Asks, op \in MentorOperations : OpenAsk(c, q, op)
  PROVE  MentorTypeOK' /\ RowsStay'
<1>1. {"accept_invitation", "request", "update_profile"} \subseteq MentorOperations
  BY DEF MentorOperations, Visibility
<1>2. ASSUME NEW a \in Applications, NEW op \in MentorOperations, OpenReview(c, a, op)
      PROVE  MentorTypeOK' /\ RowsStay'
  <2>1. op \in {"approve", "reject"} /\ OpenCall(c, op, a, "PENDING") /\ UNCHANGED <<onboarding, ask>>
    BY <1>2 DEF OpenReview
  <2>2. "PENDING" \in MentorApplication
    BY DEF MentorApplication, MentorApplicationStatus
  <2> QED BY <2>1, <2>2, OpenKeepsTypes DEF Transitions, Visibility
<1>3. ASSUME NEW a \in Applications, OpenInvitation(c, a) PROVE MentorTypeOK' /\ RowsStay'
  <2>1. OpenCall(c, "accept_invitation", a, mentor[EmailOf[a]]) /\ UNCHANGED <<onboarding, ask>>
    BY <1>3 DEF OpenInvitation
  <2>2. invite[a] # "NONE" /\ mentor[EmailOf[a]] \in MentorAccountStatus
    <3>1. EmailOf[a] \in Emails
      BY MentorshipAssumption
    <3>2. invite[a] # "NONE" /\ mentor[EmailOf[a]] # "NONE"
      BY <1>3 DEF OpenInvitation, RowsStay
    <3> QED BY <3>1, <3>2 DEF MentorTypeOK
  <2> QED BY <1>1, <2>1, <2>2, OpenKeepsTypes DEF Transitions, Visibility
<1>4. ASSUME NEW e \in Emails, OpenRequest(c, e) PROVE MentorTypeOK' /\ RowsStay'
  BY <1>1, <1>4, OpenKeepsTypes DEF OpenRequest, Transitions, Visibility
<1>5. ASSUME NEW e \in Emails, NEW op \in MentorOperations, OpenMentor(c, e, op) PROVE MentorTypeOK' /\ RowsStay'
  <2>1. mentor[e] \in MentorAccountStatus
    BY <1>5 DEF OpenMentor, MentorTypeOK
  <2> QED BY <1>5, <2>1, OpenKeepsTypes DEF OpenMentor, Transitions, Visibility
<1>6. ASSUME NEW q \in Asks, NEW op \in MentorOperations, OpenAsk(c, q, op) PROVE MentorTypeOK' /\ RowsStay'
  <2>1. op \in Transitions /\ OpenCall(c, op, q, ask[q].status) /\ UNCHANGED <<onboarding, ask>> /\ ask[q].status # "ABSENT"
    BY <1>6 DEF OpenAsk, Transitions
  <2>2. ask[q].status \in MentorRequestStatus
    BY <2>1 DEF MentorTypeOK, MentorRequest
  <2> QED BY <2>1, <2>2, OpenKeepsTypes DEF Transitions, Visibility, RowsStay
<1>7. ASSUME NEW e \in Emails, OpenProfile(c, e) PROVE MentorTypeOK' /\ RowsStay'
  <2>1. mentor[e] \in MentorAccountStatus
    BY <1>7 DEF OpenProfile, MentorTypeOK
  <2> QED BY <1>1, <1>7, <2>1, OpenKeepsTypes DEF OpenProfile, Transitions, Visibility
<1> QED BY <1>2, <1>3, <1>4, <1>5, <1>6, <1>7

\* An open call changed nothing, and reads the profile of its mentor.
LEMMA ReadProfileTypes ==
  ASSUME MentorTypeOK, RowsStay, NEW c \in Calls, ReadProfile(c)
  PROVE  MentorTypeOK' /\ RowsStay'
<1> DEFINE k == [call[c] EXCEPT !.profile = IF listed[call[c].on] THEN "TRUE" ELSE "FALSE"]
<1>1. call[c] \in MentorCall
  BY DEF MentorTypeOK
<1>2. k \in MentorCall /\ k.op = call[c].op /\ k.on = call[c].on
  BY <1>1 DEF MentorCall
<1>3. call' = [call EXCEPT ![c] = k] /\ UNCHANGED <<application, mentor, listed, invite, lapsed, ask, crossed>>
  BY DEF ReadProfile, onboarding
<1> HIDE DEF k
<1>4. call' \in [Calls -> MentorCall] /\ \A d \in Calls : call'[d] = IF d = c THEN k ELSE call[d]
  BY <1>2, <1>3 DEF MentorTypeOK
<1> QED BY <1>2, <1>3, <1>4 DEF MentorTypeOK, RowsStay, Visibility

\* A decision on an application or on an account.
LEMMA DecisionTypes ==
  ASSUME MentorTypeOK, RowsStay, NEW c \in Calls,
         Approve(c) \/ Reject(c) \/ ActivateMentor(c) \/ SetMentorStatus(c) \/ UpdateMyProfile(c)
  PROVE  MentorTypeOK' /\ RowsStay'
<1>1. /\ application \in [Applications -> MentorApplication] /\ mentor \in [Emails -> MentorAccountStatus \cup {"NONE"}]
      /\ listed \in [Emails -> BOOLEAN] /\ invite \in [Applications -> MentorInvitationStatus \cup {"NONE"}]
      /\ ask \in [Asks -> MentorRequest] /\ EmailOf \in [Applications -> Emails]
      /\ \A q \in Asks : ask[q].status # "ABSENT" => ask[q].mentor # None
      /\ \A a \in Applications : invite[a] # "NONE" => mentor[EmailOf[a]] # "NONE"
  BY MentorshipAssumption DEF MentorTypeOK, MentorProfile, RowsStay
<1>2. {"APPROVED", "REJECTED"} \subseteq MentorApplication
  BY DEF MentorApplication, MentorApplicationStatus
<1>3. CASE Approve(c)
  <2>1. call[c].on \in Applications /\ CloseCall(c) /\ lapsed' = lapsed /\ ask' = ask
    BY <1>3 DEF Approve, MentorTypeOK
  <2>2. CASE NewAccount(call[c].on) /\ application' = [application EXCEPT ![call[c].on] = "APPROVED"]
    <3>1. /\ application' \in [Applications -> MentorApplication] /\ mentor' \in [Emails -> MentorAccountStatus \cup {"NONE"}]
          /\ listed' \in [Emails -> BOOLEAN] /\ invite' \in [Applications -> MentorInvitationStatus \cup {"NONE"}]
      BY <1>1, <1>2, <2>1, <2>2 DEF NewAccount
    <3>2. \A a \in Applications : invite'[a] # "NONE" => mentor'[EmailOf[a]] # "NONE"
      BY <1>1, <2>1, <2>2 DEF NewAccount
    <3>3. \A a \in Applications : invite[a] # "NONE" => invite'[a] # "NONE"
      BY <1>1, <2>1, <2>2 DEF NewAccount
    <3> QED BY <1>1, <2>1, <3>1, <3>2, <3>3, CloseKeepsTypes
  <2>3. CASE UNCHANGED <<application, mentor, listed, invite>>
    <3>1. /\ application' \in [Applications -> MentorApplication] /\ mentor' \in [Emails -> MentorAccountStatus \cup {"NONE"}]
          /\ listed' \in [Emails -> BOOLEAN] /\ invite' \in [Applications -> MentorInvitationStatus \cup {"NONE"}]
      BY <1>1, <2>3
    <3> QED BY <1>1, <2>1, <2>3, <3>1, CloseKeepsTypes
  <2> QED BY <1>3, <2>2, <2>3 DEF Approve
<1>4. CASE Reject(c)
  <2>1. CloseCall(c) /\ UNCHANGED <<mentor, listed, invite, lapsed, ask>> /\ application' \in [Applications -> MentorApplication]
    BY <1>1, <1>2, <1>4 DEF Reject
  <2> QED BY <1>1, <2>1, CloseKeepsTypes
<1>5. CASE ActivateMentor(c)
  <2>1. call[c].on \in Applications /\ CloseCall(c) /\ UNCHANGED <<application, listed, lapsed, ask>>
    BY <1>5 DEF ActivateMentor, MentorTypeOK
  <2> DEFINE a == call[c].on
             new == Column(call[c].seen, "ACTIVE", mentor[EmailOf[a]])
  <2>2. invite[a] # "NONE" /\ EmailOf[a] \in Emails
    BY <1>1, <1>5, <2>1 DEF ActivateMentor, RowsStay
  <2>3. new \in MentorAccountStatus
    BY <1>1, <2>1, <2>2 DEF Column
  <2>4. mentor' = [mentor EXCEPT ![EmailOf[a]] = new] /\ invite' = [invite EXCEPT ![a] = "ACCEPTED"] /\ a \in Applications
    BY <1>5, <2>1 DEF ActivateMentor
  <2> HIDE DEF a, new
  <2>5. mentor' \in [Emails -> MentorAccountStatus \cup {"NONE"}]
    BY <1>1, <2>2, <2>3, <2>4
  <2>6. invite' \in [Applications -> MentorInvitationStatus \cup {"NONE"}]
    BY <1>1, <2>4
  <2>7. \A b \in Applications : invite'[b] # "NONE" => mentor'[EmailOf[b]] # "NONE"
    BY <1>1, <2>2, <2>3, <2>4
  <2>8. \A b \in Applications : invite[b] # "NONE" => invite'[b] # "NONE"
    BY <1>1, <2>4
  <2> QED BY <1>1, <2>1, <2>5, <2>6, <2>7, <2>8, CloseKeepsTypes
<1>6. CASE SetMentorStatus(c)
  <2>1. call[c].on \in Emails /\ CloseCall(c) /\ UNCHANGED <<application, invite, lapsed, ask>>
    BY <1>6 DEF SetMentorStatus, MentorTypeOK, Visibility
  <2>2. /\ mentor' \in [Emails -> MentorAccountStatus \cup {"NONE"}]
        /\ \A e \in Emails : mentor[e] # "NONE" => mentor'[e] # "NONE"
    BY <1>1, <1>6, <2>1 DEF SetMentorStatus, Column
  <2>3. listed' \in [Emails -> BOOLEAN]
    <3> DEFINE shown == Column(call[c].profile = "TRUE", ~ (call[c].op = "suspend"), listed[call[c].on])
    <3>1. shown \in BOOLEAN
      BY <1>1, <2>1 DEF Column
    <3>2. listed' = [listed EXCEPT ![call[c].on] = shown]
      BY <1>6 DEF SetMentorStatus
    <3> HIDE DEF shown
    <3> QED BY <1>1, <3>1, <3>2
  <2>4. \A a \in Applications : invite'[a] # "NONE" => mentor'[EmailOf[a]] # "NONE"
    BY <1>1, <2>1, <2>2
  <2> QED BY <1>1, <2>1, <2>2, <2>3, <2>4, CloseKeepsTypes
<1>7. CASE UpdateMyProfile(c)
  <2>1. call[c].on \in Emails /\ CloseCall(c) /\ UNCHANGED <<application, mentor, invite, lapsed, ask>>
    BY <1>7 DEF UpdateMyProfile, MentorTypeOK, Visibility
  <2>2. PICK available \in BOOLEAN :
          listed' = [listed EXCEPT ![call[c].on] = Column(call[c].profile = "TRUE", available, listed[call[c].on])]
    BY <1>7 DEF UpdateMyProfile
  <2>3. Column(call[c].profile = "TRUE", available, listed[call[c].on]) \in BOOLEAN
    BY <1>1, <2>1 DEF Column
  <2>4. listed' \in [Emails -> BOOLEAN]
    BY <1>1, <2>2, <2>3
  <2> QED BY <1>1, <2>1, <2>4, CloseKeepsTypes
<1> QED BY <1>3, <1>4, <1>5, <1>6, <1>7

\* A founder's request to a mentor.
LEMMA RequestTypes ==
  ASSUME MentorTypeOK, RowsStay, NEW c \in Calls,
         \/ \E q \in Asks : RequestMentor(c, q)
         \/ RespondRequest(c) \/ PlanSession(c) \/ CompleteRequest(c) \/ CancelRequest(c)
  PROVE  MentorTypeOK' /\ RowsStay'
<1>1. PICK q \in Asks, row \in MentorRequest : ask' = [ask EXCEPT ![q] = row] /\ row.mentor # None
  <2>1. CASE \E q \in Asks : RequestMentor(c, q)
    <3>1. PICK q \in Asks : RequestMentor(c, q)
      BY <2>1
    <3> DEFINE row == [status |-> "REQUESTED", mentor |-> call[c].on, session_at |-> FALSE]
    <3>2. call[c].on \in Emails /\ call[c].on # None
      BY <3>1, MentorshipAssumption DEF RequestMentor, MentorTypeOK
    <3>3. row \in MentorRequest /\ row.mentor # None
      BY <3>2 DEF MentorRequest, MentorRequestStatus
    <3>4. ask' = [ask EXCEPT ![q] = row]
      BY <3>1 DEF RequestMentor
    <3> QED BY <3>3, <3>4
  <2>2. CASE RespondRequest(c) \/ PlanSession(c) \/ CompleteRequest(c) \/ CancelRequest(c)
    <3>1. PICK op \in Transitions, dated \in BOOLEAN : TransitionRequest(c, op, dated)
      BY <2>2 DEF RespondRequest, PlanSession, CompleteRequest, CancelRequest, Transitions
    <3> DEFINE q == call[c].on
    <3>2. q \in Asks /\ ask[q].mentor # None /\ ask[q] \in MentorRequest
      BY <3>1 DEF TransitionRequest, MentorTypeOK, Transitions
    <3>3. PICK target \in Targets(op, call[c].seen) :
            ask' = [ask EXCEPT ![q] = [status |-> target, mentor |-> @.mentor, session_at |-> @.session_at \/ dated]]
      BY <3>1 DEF TransitionRequest
    <3>4. target \in MentorRequestStatus
      BY <3>1, <3>3 DEF Targets, Transitions, MentorRequestStatus
    <3> DEFINE row == [status |-> target, mentor |-> ask[q].mentor, session_at |-> ask[q].session_at \/ dated]
    <3>5. row \in MentorRequest /\ row.mentor # None
      BY <3>2, <3>4 DEF MentorRequest
    <3>6. ask' = [ask EXCEPT ![q] = row]
      BY <3>3
    <3> QED BY <3>2, <3>5, <3>6
  <2> QED BY <2>1, <2>2
<1>2. CloseCall(c) /\ UNCHANGED <<application, mentor, listed, invite, lapsed>>
  BY DEF RequestMentor, RespondRequest, PlanSession, CompleteRequest, CancelRequest, TransitionRequest, onboarding
<1>3. /\ application \in [Applications -> MentorApplication] /\ mentor \in [Emails -> MentorAccountStatus \cup {"NONE"}]
      /\ listed \in [Emails -> BOOLEAN] /\ invite \in [Applications -> MentorInvitationStatus \cup {"NONE"}]
      /\ ask \in [Asks -> MentorRequest]
      /\ \A p \in Asks : ask[p].status # "ABSENT" => ask[p].mentor # None
      /\ \A a \in Applications : invite[a] # "NONE" => mentor[EmailOf[a]] # "NONE"
  BY DEF MentorTypeOK, MentorProfile, RowsStay
<1>4. ask' \in [Asks -> MentorRequest] /\ \A p \in Asks : ask'[p] = IF p = q THEN row ELSE ask[p]
  BY <1>1, <1>3
<1> QED BY <1>1, <1>2, <1>3, <1>4, CloseKeepsTypes

LEMMA MentorTypesStep ==
  ASSUME MentorTypeOK, RowsStay, [MentorNext]_mentorVars
  PROVE  MentorTypeOK' /\ RowsStay'
<1>1. CASE UNCHANGED mentorVars
  BY <1>1 DEF mentorVars, onboarding, MentorTypeOK, RowsStay
<1>2. CASE \E a \in Applications : Apply(a) \/ Lapse(a)
  BY <1>2 DEF Apply, Lapse, MentorTypeOK, RowsStay, MentorApplication, MentorApplicationStatus
<1>3. CASE \E c \in Calls : ReadProfile(c)
  BY <1>3, ReadProfileTypes
<1>4. CASE \E c \in Calls : Approve(c) \/ Reject(c) \/ ActivateMentor(c) \/ SetMentorStatus(c) \/ UpdateMyProfile(c)
  BY <1>4, DecisionTypes
<1>5. CASE \E c \in Calls : \/ \E q \in Asks : RequestMentor(c, q)
                            \/ RespondRequest(c) \/ PlanSession(c) \/ CompleteRequest(c) \/ CancelRequest(c)
  BY <1>5, RequestTypes
<1>6. CASE \E c \in Calls :
             \/ \E a \in Applications : OpenInvitation(c, a) \/ \E op \in MentorOperations : OpenReview(c, a, op)
             \/ \E e \in Emails : OpenRequest(c, e) \/ OpenProfile(c, e) \/ \E op \in MentorOperations : OpenMentor(c, e, op)
             \/ \E q \in Asks, op \in MentorOperations : OpenAsk(c, q, op)
  BY <1>6, MentorOpensTypes
<1> QED BY <1>1, <1>2, <1>3, <1>4, <1>5, <1>6 DEF MentorNext

\* The median of a list is between its members, so that a measure is a score.
LEMMA SmallestIsThere ==
  ASSUME NEW n \in Nat, NEW s \in [1..n -> Nat], NEW k \in 1..n
  PROVE  Smallest(s, k) \in Nat
<1> DEFINE V == {s[i] : i \in 1..n}
           Below(x) == {l \in 1..n : s[l] <= x}
           S == {s[i] : i \in {j \in 1..n : Cardinality(Below(s[j])) >= k}}
           top == Max(V)
<1>1. IsFiniteSet(1..n) /\ Cardinality(1..n) = n
  BY FS_Interval
<1>2. IsFiniteSet(V)
  BY <1>1, ValuesFinite
<1>3. V \in SUBSET Int /\ V # {} /\ V \subseteq Nat
  OBVIOUS
<1> HIDE DEF V
<1>4. top \in V /\ \A x \in V : x <= top
  BY <1>2, <1>3, ExtremaOf
<1>5. \A l \in 1..n : s[l] \in V
  BY DEF V
<1>6. Below(top) = 1..n
  BY <1>4, <1>5
<1>7. top \in S
  <2>1. PICK j \in 1..n : top = s[j]
    BY <1>4 DEF V
  <2> HIDE DEF Below, top
  <2>2. Below(s[j]) = 1..n
    BY <1>6, <2>1
  <2>3. Cardinality(Below(s[j])) >= k
    BY <1>1, <2>2
  <2> QED BY <2>1, <2>3
<1>8. S \subseteq V
  BY DEF V
<1>9. Smallest(s, k) = Min(S)
  BY DEF Smallest
<1> HIDE DEF S
<1>10. IsFiniteSet(S) /\ S \in SUBSET Int /\ S # {}
  BY <1>2, <1>3, <1>7, <1>8, FS_Subset
<1>11. Min(S) \in S
  BY <1>10, ExtremaOf
<1> QED BY <1>3, <1>8, <1>9, <1>11

LEMMA MeasuresAreScores == Measures \subseteq Nat
<1> SUFFICES ASSUME NEW n \in 1..3, NEW s \in [1..n -> Passes] PROVE RoundedMedian(s) \in Nat
  BY DEF Measures
<1>1. s \in [1..n -> Nat] /\ Len(s) = n
  <2>1. n \in Nat /\ DOMAIN s = 1..n /\ \A i \in 1..n : s[i] \in Nat
    <3>1. \A x \in Passes : x \in Nat
      BY AcademyAssumption
    <3>2. n \in Nat /\ DOMAIN s = 1..n
      OBVIOUS
    <3>3. \A i \in 1..n : s[i] \in Passes
      OBVIOUS
    <3> QED BY <3>1, <3>2, <3>3
  <2>2. s \in Seq(Nat)
    <3>1. s \in UNION {[1..k -> Nat] : k \in Nat}
      BY <2>1
    <3> QED BY <3>1, SeqDef, Zenon
  <2> QED BY <2>1, <2>2, LenProperties
<1>2. (Len(s) + 1) \div 2 \in 1..n /\ Len(s) \div 2 + 1 \in 1..n
  BY <1>1
<1>3. Smallest(s, (Len(s) + 1) \div 2) \in Nat /\ Smallest(s, Len(s) \div 2 + 1) \in Nat
  BY <1>1, <1>2, SmallestIsThere
<1>4. TwiceMedian(s) \in Nat
  BY <1>3 DEF TwiceMedian
<1> DEFINE twice == TwiceMedian(s)
<1>5. twice \in Nat /\ RoundedMedian(s) = RoundHalfEven(twice, 2)
  BY <1>4 DEF RoundedMedian
<1> HIDE DEF twice
<1> QED BY <1>5 DEF RoundHalfEven

LEMMA AcademyTypesHold == AcademyInv => AcademyTypeOK
<1> SUFFICES ASSUME AcademyInv PROVE AcademyTypeOK
  OBVIOUS
<1>1. Measured \subseteq Nat \cup {None}
  BY MeasuresAreScores, AcademyAssumption DEF Measured
<1>2. GuidedRow \subseteq GuidedSession
  BY <1>1 DEF GuidedRow, GuidedSession
<1>3. /\ radar \in [Asked -> Reported \cup {None}] /\ guided \in [Modules -> GuidedSession \cup {NoModule}] /\ nulled \subseteq Modules
      /\ fiche \in [Fiches -> NeedFiche \cup {NoFiche}] /\ links \subseteq Links /\ messages \in 0..MaxMessages
      /\ \A f \in Fiches : fiche[f] # NoFiche => Exists(fiche[f].session)
  BY <1>2 DEF AcademyInv, AcademyTypes
<1>4. ASSUME NEW v \in Visits, visit[v] # NoVisit
      PROVE  visit[v].op \in AcademyOperations /\ (visit[v].op = "start" <=> ~ Exists(visit[v].on))
  <2>1. visit[v].op \in AcademyOperations
    BY <1>4 DEF AcademyInv, AcademyTypes, Visit
  <2>2. visit[v].op = "start" => ~ Exists(visit[v].on)
    BY <1>4 DEF AcademyInv, StartInv
  <2>3. visit[v].op # "start" => Exists(visit[v].on)
    BY <1>4 DEF AcademyInv, VisitInv, Held
  <2> QED BY <2>1, <2>2, <2>3
<1> QED BY <1>3, <1>4 DEF AcademyTypeOK

\* Sessions, mentors and guided modules each run as they would alone, whatever the others do.
LEMMA PeopleRunApart == PeopleSpec => AccountSpec /\ MentorSpec /\ AcademySpec
<1>1. PeopleInit => AccountInit /\ MentorInit /\ AcademyInit
  BY DEF PeopleInit
<1>2. [PeopleNext]_peopleVars => [AccountNext]_accountVars
  BY DEF PeopleNext, peopleVars
<1>3. [PeopleNext]_peopleVars => [MentorNext]_mentorVars
  BY DEF PeopleNext, peopleVars
<1>4. [PeopleNext]_peopleVars => [AcademyNext]_academyVars
  BY DEF PeopleNext, peopleVars
<1> QED BY <1>1, <1>2, <1>3, <1>4, PTL DEF PeopleSpec, AccountSpec, MentorSpec, AcademySpec

\* Whatever sessions, suspensions and visits overlap, in any number, the rows of the three components
\* keep their types, a call is about a row that is there, and a sheet is of a session that exists: no
\* condition on OneAtATime (accounts, mentors/service.py, academy/service.py).
THEOREM ThePeopleAreTyped == PeopleSpec => []PeopleTypeOK
<1>1. MentorTypeOK /\ RowsStay /\ [MentorNext]_mentorVars => (MentorTypeOK /\ RowsStay)'
  BY MentorTypesStep
<1>2. MentorSpec => []MentorTypeOK
  BY <1>1, MentorTypesStart, PTL DEF MentorSpec
<1>3. AcademySpec => []AcademyTypeOK
  BY AcademyStarts, AcademyStep, AcademyTypesHold, PTL DEF AcademySpec
<1> QED BY <1>2, <1>3, AccountTypeCorrect, PeopleRunApart, PTL DEF PeopleTypeOK
=============================================================================

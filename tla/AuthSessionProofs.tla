------------------------- MODULE AuthSessionProofs -------------------------
(***************************************************************************)
(* What AuthSession promises for any number of accounts, tokens, links and *)
(* requests: switching an account off or giving it a new password ends     *)
(* every session that was not issued behind its back, an exchanged token   *)
(* is dead, nobody signs in before the invite is accepted, and nobody gets *)
(* past the checks of an inactive account.                                 *)
(***************************************************************************)
EXTENDS AuthSession, TLAPS

-----------------------------------------------------------------------------
(* Typing of the pieces *)

LEMMA NoneIsNothing ==
    None \notin Users /\ None \notin Passwords /\ None \notin Tokens /\ None \notin Links
BY AuthAssumption

LEMMA IdleTyped == Idle \in Request
BY DEF Idle, Request, Points, Codes

LEMMA AnswerTyped ==
    ASSUME NEW code \in Codes
    PROVE  /\ [Idle EXCEPT !.reply = code] \in Request
           /\ [Idle EXCEPT !.reply = code].pc = "idle"
           /\ Carries([Idle EXCEPT !.reply = code])
           /\ Carries([Idle EXCEPT !.reply = code])'
BY DEF Idle, Request, Points, Codes, Carries

-----------------------------------------------------------------------------
(* What steps have in common *)

\* Nothing comes to life and nothing is renamed: some live tokens may die.
TokensDie ==
    \A t \in Tokens :
        \/ tokens'[t] = tokens[t]
        \/ /\ Live(t)
           /\ \E s \in {"revoked", "expired"} : tokens'[t] = [tokens[t] EXCEPT !.state = s]

LEMMA DeadTokens ==
    ASSUME TypeOK, TokensDie, NEW t \in Tokens
    PROVE  /\ tokens'[t].user = tokens[t].user
           /\ tokens'[t].parent = tokens[t].parent
           /\ tokens'[t].proof = tokens[t].proof
           /\ tokens'[t].late = tokens[t].late
           /\ tokens[t].state # "unused" <=> tokens'[t].state # "unused"
           /\ tokens[t].state \in {"revoked", "expired"} => tokens'[t].state = tokens[t].state
           /\ tokens'[t].state = "live" => tokens[t].state = "live"
BY DEF TypeOK, TokensDie, Live, Token

\* What a request that waits relies on is not undone.
MovesOn ==
    /\ \A t \in Tokens :
         /\ tokens[t].state # "unused" => tokens'[t].state # "unused"
         /\ tokens[t].state \in {"revoked", "expired"} =>
              tokens'[t].state \in {"revoked", "expired"}
    /\ \A k \in Links : links[k].state # "unused" => links'[k].state # "unused"
    /\ \A u \in Users : users'[u].pending => users[u].pending

LEMMA StillCarries ==
    ASSUME MovesOn, NEW q \in Request, Carries(q)
    PROVE  Carries(q)'
<1>1. q.token \in Tokens \cup {None}
  BY DEF Request
<1> QED
  BY <1>1 DEF MovesOn, Carries

\* The other requests carry what they carried.
LEMMA OthersCarry ==
    ASSUME TypeOK, RequestsCarry, MovesOn,
           NEW r \in Requests, NEW q \in Request,
           req' = [req EXCEPT ![r] = q],
           Carries(q)'
    PROVE  RequestsCarry'
<1>1. ASSUME NEW x \in Requests
      PROVE  Carries(req[x])'
  <2>1. CASE x = r
    BY <2>1 DEF TypeOK
  <2>2. CASE x # r
    <3>1. req'[x] = req[x] /\ req[x] \in Request /\ Carries(req[x])
      BY <2>2 DEF TypeOK, RequestsCarry
    <3> DEFINE y == req[x]
    <3>2. y \in Request /\ Carries(y)
      BY <3>1
    <3>3. req'[x] = y
      BY <3>1
    <3> HIDE DEF y
    <3> QED
      BY <3>2, <3>3, <3>1 DEF MovesOn, Carries, Request
  <2> QED
    BY <2>1, <2>2
<1> QED
  BY <1>1 DEF RequestsCarry

\* A step of a request that is not about to revoke cancels no revocation.
LEMMA DueStays ==
    ASSUME TypeOK, interrupted \subseteq interrupted',
           NEW r \in Requests, NEW q, req' = [req EXCEPT ![r] = q],
           req[r].pc # "revoke" \/ req[r].user \in interrupted'
    PROVE  \A u : RevocationDue(u) => RevocationDue(u)'
<1>1. \A x \in Requests : x # r => req'[x] = req[x]
  BY DEF TypeOK
<1> QED
  BY <1>1 DEF RevocationDue

\* A step that changes no account and at most kills tokens.
LEMMA QuietStep ==
    ASSUME IInv, TypeOK', RequestsCarry', LinksOwned', TokensDie, UNCHANGED users,
           \A t \in Tokens :
              RevocationDue(tokens[t].user) /\ ~RevocationDue(tokens[t].user)' =>
                tokens'[t].state # "live"
    PROVE  IInv'
<1>1. TypeOK
  BY DEF IInv
<1>2. TokensOwned'
  BY <1>1, DeadTokens DEF IInv, TokensOwned
<1>3. OnlyLateSessionsSurvive'
  <2>1. ASSUME NEW t \in Tokens, Live(t)'
        PROVE  Excused(t)'
    <3>1. /\ tokens'[t].user = tokens[t].user /\ tokens'[t].proof = tokens[t].proof
          /\ tokens'[t].late = tokens[t].late /\ Live(t)
      BY <1>1, <2>1, DeadTokens DEF Live
    <3>2. Excused(t)
      BY <3>1 DEF IInv, OnlyLateSessionsSurvive
    <3>3. RevocationDue(tokens[t].user) => RevocationDue(tokens[t].user)'
      BY <2>1 DEF Live
    <3> QED
      BY <3>1, <3>2, <3>3 DEF Excused
  <2> QED
    BY <2>1 DEF OnlyLateSessionsSurvive
<1>4. SpentTokensAreDead'
  <2> SUFFICES ASSUME NEW t \in Tokens, tokens'[t].parent # None
               PROVE  tokens'[tokens'[t].parent].state \in {"revoked", "expired"}
    BY DEF SpentTokensAreDead
  <2>1. tokens'[t].parent = tokens[t].parent
    BY <1>1, DeadTokens
  <2>2. tokens[t].parent \in Tokens
    BY <1>1, <2>1 DEF TypeOK, Token
  <2>3. tokens[tokens[t].parent].state \in {"revoked", "expired"}
    BY <2>1 DEF IInv, SpentTokensAreDead
  <2> QED
    BY <1>1, <2>1, <2>2, <2>3, DeadTokens
<1>5. PendingHasNoSession'
  BY <1>1, DeadTokens DEF IInv, PendingHasNoSession
<1> QED
  BY <1>2, <1>3, <1>4, <1>5 DEF IInv

\* Only the request moves and some tokens die; the revocations due still are.
LEMMA RequestStep ==
    ASSUME IInv, UNCHANGED <<users, links>>, TokensDie, tokens' \in [Tokens -> Token],
           faults' \in Nat, interrupted \subseteq interrupted', interrupted' \subseteq Users,
           NEW r \in Requests, NEW q \in Request,
           req' = [req EXCEPT ![r] = q], Carries(q)',
           req[r].pc # "revoke" \/ req[r].user \in interrupted'
    PROVE  IInv'
<1>1. TypeOK'
  BY DEF IInv, TypeOK
<1>2. MovesOn
  BY DeadTokens DEF MovesOn, IInv
<1>3. RequestsCarry'
  BY <1>2, OthersCarry DEF IInv
<1>4. \A u : RevocationDue(u) => RevocationDue(u)'
  BY DueStays DEF IInv
<1>5. LinksOwned'
  BY DEF IInv, LinksOwned
<1>6. ASSUME NEW t \in Tokens, RevocationDue(tokens[t].user)
      PROVE  RevocationDue(tokens[t].user)'
  <2>1. tokens'[t].user = tokens[t].user
    BY DeadTokens DEF IInv
  <2> QED
    BY <1>4, <1>6, <2>1 DEF RevocationDue
<1> QED
  BY <1>1, <1>3, <1>5, <1>6, QuietStep

\* A request is answered, or moves on, and nothing else happens.
LEMMA MoveStep ==
    ASSUME IInv, UNCHANGED <<users, tokens, links, faults, interrupted>>,
           NEW r \in Requests, NEW q \in Request,
           req' = [req EXCEPT ![r] = q], Carries(q), req[r].pc # "revoke"
    PROVE  IInv'
<1>1. TokensDie /\ tokens' \in [Tokens -> Token] /\ faults' \in Nat /\ interrupted' \subseteq Users
  BY DEF IInv, TypeOK, TokensDie
<1>2. Carries(q)'
  BY DEF Carries
<1> QED
  BY <1>1, <1>2, RequestStep

LEMMA AnswerStep ==
    ASSUME IInv, UNCHANGED <<users, tokens, links, faults, interrupted>>,
           NEW r \in Requests, NEW code \in Codes, Reply(r, code),
           req[r].pc # "revoke"
    PROVE  IInv'
BY AnswerTyped, MoveStep DEF Reply

-----------------------------------------------------------------------------
(* The first step of each request *)

LEMMA BeginLoginStep ==
    ASSUME IInv, NEW r \in Requests, NEW u \in Users, NEW p \in Passwords, BeginLogin(r, u, p)
    PROVE  IInv'
<1> DEFINE q == [Idle EXCEPT !.pc = "issue", !.op = "login", !.user = u, !.password = p]
<1>1. q \in Request /\ (~users[u].pending => Carries(q))
  BY NoneIsNothing DEF Idle, Request, Points, Codes, Carries
<1>2. req[r].pc # "revoke"
  BY DEF BeginLogin, InFlight
<1>3. CASE Reply(r, "INVALID_CREDENTIALS") \/ Reply(r, "SIGN_IN_FAILED")
  BY <1>2, <1>3, AnswerStep DEF BeginLogin, Codes
<1>4. CASE ~users[u].pending /\ req' = [req EXCEPT ![r] = q]
  BY <1>1, <1>2, <1>4, MoveStep DEF BeginLogin
<1> QED
  BY <1>3, <1>4 DEF BeginLogin

LEMMA BeginRefreshStep ==
    ASSUME IInv, NEW r \in Requests, NEW t \in Tokens, BeginRefresh(r, t)
    PROVE  IInv'
<1> DEFINE q == [Idle EXCEPT !.pc = "owner", !.op = "refresh", !.token = t,
                             !.user = tokens[t].user, !.password = tokens[t].proof,
                             !.late = tokens[t].late]
<1>1. /\ tokens[t].user \in Users /\ tokens[t].proof \in Passwords
      /\ tokens[t].late \in BOOLEAN /\ ~users[tokens[t].user].pending
  BY DEF BeginRefresh, IInv, TypeOK, Token, TokensOwned, PendingHasNoSession
<1>2. q \in Request
  BY <1>1 DEF Idle, Request, Points, Codes
<1>3. Carries(q)
  BY <1>1 DEF Idle, Carries, BeginRefresh
<1>4. req[r].pc # "revoke"
  BY DEF BeginRefresh, InFlight
<1>5. CASE Reply(r, "TOKEN_INVALID")
  BY <1>4, <1>5, AnswerStep DEF BeginRefresh, Codes
<1>6. CASE req' = [req EXCEPT ![r] = q]
  BY <1>2, <1>3, <1>4, <1>6, MoveStep DEF BeginRefresh
<1> QED
  BY <1>5, <1>6 DEF BeginRefresh

LEMMA ReadOwnerStep ==
    ASSUME IInv, NEW r \in Requests, ReadOwner(r)
    PROVE  IInv'
<1> DEFINE q == [req[r] EXCEPT !.pc = "rotate"]
<1>1. req[r] \in Request /\ Carries(req[r]) /\ req[r].pc = "owner"
  BY DEF IInv, TypeOK, RequestsCarry, ReadOwner
<1>2. q \in Request /\ Carries(q)
  BY <1>1 DEF Request, Points, Carries
<1>3. CASE Reply(r, "TOKEN_INVALID")
  BY <1>1, <1>3, AnswerStep DEF ReadOwner, Codes
<1>4. CASE Goto(r, "rotate")
  <2>1. req' = [req EXCEPT ![r] = q]
    BY <1>4 DEF Goto
  <2> QED
    BY <1>1, <1>2, <2>1, MoveStep DEF ReadOwner
<1> QED
  BY <1>3, <1>4 DEF ReadOwner

LEMMA BeginChangeStep ==
    ASSUME IInv, NEW r \in Requests, NEW u \in Users,
           NEW current \in Passwords, NEW new \in Passwords, BeginChange(r, u, current, new)
    PROVE  IInv'
<1> DEFINE q == [Idle EXCEPT !.pc = "save", !.op = "change", !.user = u, !.password = new]
<1>1. q \in Request /\ Carries(q)
  BY NoneIsNothing DEF Idle, Request, Points, Codes, Carries
<1>2. req[r].pc # "revoke"
  BY DEF BeginChange, InFlight
<1>3. CASE Reply(r, "INVALID_CREDENTIALS")
  BY <1>2, <1>3, AnswerStep DEF BeginChange, Codes
<1>4. CASE req' = [req EXCEPT ![r] = q]
  BY <1>1, <1>2, <1>4, MoveStep DEF BeginChange
<1> QED
  BY <1>3, <1>4 DEF BeginChange

LEMMA BeginLinkStep ==
    ASSUME IInv, NEW r \in Requests, NEW k \in Links, NEW new \in Passwords,
           BeginLink(r, k, new)
    PROVE  IInv'
<1> DEFINE q == [Idle EXCEPT !.pc = "save", !.op = links[k].kind, !.user = links[k].user,
                             !.password = new, !.link = k]
<1>1. links[k].user \in Users /\ links[k].kind \in {"reset", "invite"} /\ links[k].state # "unused"
  BY DEF BeginLink, IInv, LinksOwned
<1>2. q \in Request
  BY <1>1 DEF Idle, Request, Points, Codes
<1>3. Carries(q)
  BY <1>1 DEF Idle, Carries
<1>4. req[r].pc # "revoke"
  BY DEF BeginLink, InFlight
<1>5. CASE Reply(r, "LINK_INVALID")
  BY <1>4, <1>5, AnswerStep DEF BeginLink, Codes
<1>6. CASE req' = [req EXCEPT ![r] = q]
  BY <1>2, <1>3, <1>4, <1>6, MoveStep DEF BeginLink
<1> QED
  BY <1>5, <1>6 DEF BeginLink

LEMMA BeginSetActiveStep ==
    ASSUME IInv, NEW r \in Requests, NEW u \in Users, NEW active \in BOOLEAN,
           BeginSetActive(r, u, active)
    PROVE  IInv'
<1> DEFINE q == [Idle EXCEPT !.pc = "flag", !.op = IF active THEN "activate" ELSE "deactivate",
                             !.user = u, !.dirty = (users[u].active # active)]
<1>1. q \in Request /\ Carries(q)
  BY DEF Idle, Request, Points, Codes, Carries
<1>2. req[r].pc # "revoke" /\ req' = [req EXCEPT ![r] = q]
  BY DEF BeginSetActive, InFlight
<1> QED
  BY <1>1, <1>2, MoveStep DEF BeginSetActive

LEMMA IssueLinkStep ==
    ASSUME IInv, NEW r \in Requests, NEW kind \in {"reset", "invite"}, NEW u \in Users,
           IssueLink(r, kind, u)
    PROVE  IInv'
<1>1. PICK k \in Links :
         /\ links[k].state = "unused"
         /\ links' = [links EXCEPT ![k] = [state |-> "issued", kind |-> kind, user |-> u]]
  BY DEF IssueLink
<1> DEFINE q == [Idle EXCEPT !.reply = "ok"]
<1>2. q \in Request /\ Carries(q)' /\ req' = [req EXCEPT ![r] = q]
  BY AnswerTyped DEF IssueLink, Reply, Codes
<1> HIDE DEF q
<1>3. TypeOK'
  BY <1>1, <1>2 DEF IInv, TypeOK, IssueLink, Link
<1>4. MovesOn /\ TokensDie
  BY <1>1 DEF MovesOn, TokensDie, IssueLink, IInv, TypeOK
<1>5. RequestsCarry'
  BY <1>2, <1>4, OthersCarry DEF IInv
<1>6. LinksOwned'
  BY <1>1 DEF LinksOwned, IInv, TypeOK
<1>7. \A v : RevocationDue(v) => RevocationDue(v)'
  BY <1>2, DueStays DEF IInv, IssueLink, InFlight
<1>8. ASSUME NEW t \in Tokens, RevocationDue(tokens[t].user)
      PROVE  RevocationDue(tokens[t].user)'
  BY <1>7, <1>8 DEF RevocationDue, IssueLink
<1> QED
  BY <1>3, <1>4, <1>5, <1>6, <1>8, QuietStep DEF IssueLink

-----------------------------------------------------------------------------
(* Steps that revoke tokens or let them expire *)

LEMMA RotateStep ==
    ASSUME IInv, NEW r \in Requests, Rotate(r)
    PROVE  IInv'
<1>1. req[r] \in Request /\ Carries(req[r]) /\ req[r].pc = "rotate"
  BY DEF IInv, TypeOK, RequestsCarry, Rotate
<1> DEFINE t == req[r].token
<1>2. t \in Tokens /\ tokens[t].state \in {"live", "revoked", "expired"}
  BY <1>1 DEF Carries, IInv, TypeOK, Token
<1>3. CASE Reply(r, "error") /\ UNCHANGED tokens
  BY <1>1, <1>3, AnswerStep DEF Rotate, Codes
<1>4. CASE /\ Goto(r, "issue")
           /\ tokens' = [tokens EXCEPT ![t].state = IF @ = "live" THEN "revoked" ELSE @]
  <2>1. PICK q \in Request : q = [req[r] EXCEPT !.pc = "issue"]
    BY <1>1 DEF Request, Points
  <2>2. TokensDie /\ tokens' \in [Tokens -> Token]
    BY <1>2, <1>4 DEF TokensDie, Live, IInv, TypeOK, Token
  <2>3. q.token = t /\ tokens'[t].state \in {"revoked", "expired"}
    BY <1>1, <1>2, <1>4, <2>1 DEF IInv, TypeOK, Request
  <2>4. Carries(q)'
    BY <1>1, <2>1, <2>3 DEF Carries, Rotate, Request
  <2>5. req' = [req EXCEPT ![r] = q]
    BY <1>4, <2>1 DEF Goto
  <2>6. faults' \in Nat /\ interrupted' = interrupted /\ interrupted \subseteq Users
    BY DEF Rotate, IInv, TypeOK
  <2> QED
    BY <1>1, <2>2, <2>4, <2>5, <2>6, RequestStep DEF Rotate
<1> QED
  BY <1>3, <1>4 DEF Rotate

LEMMA LogoutStep ==
    ASSUME IInv, NEW r \in Requests, NEW t \in Tokens, Logout(r, t)
    PROVE  IInv'
<1> DEFINE q == [Idle EXCEPT !.reply = "ok"]
<1>1. q \in Request /\ Carries(q)' /\ req' = [req EXCEPT ![r] = q] /\ req[r].pc # "revoke"
  BY AnswerTyped DEF Logout, Reply, Codes, InFlight
<1> HIDE DEF q
<1>2. TokensDie /\ tokens' \in [Tokens -> Token]
  BY DEF Logout, TokensDie, Live, IInv, TypeOK, Token
<1>3. faults' \in Nat /\ interrupted' = interrupted /\ interrupted \subseteq Users
  BY DEF Logout, IInv, TypeOK
<1> QED
  BY <1>1, <1>2, <1>3, RequestStep DEF Logout

LEMMA ExpireTokenStep ==
    ASSUME IInv, NEW t \in Tokens, ExpireToken(t)
    PROVE  IInv'
<1>1. TokensDie /\ TypeOK'
  BY DEF ExpireToken, TokensDie, Live, IInv, TypeOK, Token
<1>2. MovesOn
  BY <1>1, DeadTokens DEF MovesOn, ExpireToken, IInv
<1>3. ASSUME NEW x \in Requests
      PROVE  Carries(req[x])'
  <2> DEFINE q == req[x]
  <2>1. q \in Request /\ Carries(q) /\ req'[x] = q
    BY DEF IInv, TypeOK, RequestsCarry, ExpireToken
  <2> HIDE DEF q
  <2> QED
    BY <1>2, <2>1 DEF MovesOn, Carries, Request
<1>4. RequestsCarry' /\ LinksOwned'
  BY <1>3 DEF RequestsCarry, LinksOwned, IInv, ExpireToken
<1>5. ASSUME NEW x \in Tokens, RevocationDue(tokens[x].user)
      PROVE  RevocationDue(tokens[x].user)'
  BY <1>1, <1>5, DeadTokens DEF RevocationDue, ExpireToken, IInv
<1> QED
  BY <1>1, <1>4, <1>5, QuietStep DEF ExpireToken

LEMMA RevokeAllStep ==
    ASSUME IInv, NEW r \in Requests, RevokeAll(r)
    PROVE  IInv'
<1>1. /\ req[r] \in Request /\ Carries(req[r]) /\ req[r].pc = "revoke"
      /\ req[r].user \in Users
  BY DEF IInv, TypeOK, RequestsCarry, RevokeAll, Carries
<1>2. PICK q \in Request : req' = [req EXCEPT ![r] = q] /\ Carries(q)'
  <2>1. CASE req[r].op = "reset"
    <3>1. PICK q \in Request : q = [req[r] EXCEPT !.pc = "consume"]
      BY <1>1 DEF Request, Points
    <3>2. Carries(q)'
      BY <1>1, <2>1, <3>1 DEF Carries, RevokeAll, Request
    <3>3. req' = [req EXCEPT ![r] = q]
      BY <2>1, <3>1 DEF RevokeAll, Goto
    <3> QED
      BY <3>2, <3>3
  <2>2. CASE req[r].op # "reset"
    BY <2>2, AnswerTyped DEF RevokeAll, Reply, Codes
  <2> QED
    BY <2>1, <2>2
<1>3. TokensDie /\ tokens' \in [Tokens -> Token]
  BY DEF RevokeAll, Revocable, TokensDie, Live, IInv, TypeOK, Token
<1>4. TypeOK'
  BY <1>2, <1>3 DEF RevokeAll, IInv, TypeOK
<1>5. MovesOn
  BY <1>3, DeadTokens DEF MovesOn, RevokeAll, IInv
<1>6. RequestsCarry' /\ LinksOwned'
  BY <1>2, <1>5, OthersCarry DEF LinksOwned, IInv, RevokeAll
<1>7. ASSUME NEW t \in Tokens, RevocationDue(tokens[t].user), ~RevocationDue(tokens[t].user)'
      PROVE  tokens'[t].state # "live"
  <2>1. tokens'[t].user = tokens[t].user
    BY <1>3, DeadTokens DEF IInv
  <2>2. \A x \in Requests : x # r => req'[x] = req[x]
    BY <1>2 DEF IInv, TypeOK
  <2>3. tokens[t].user = req[r].user
    BY <1>7, <2>1, <2>2 DEF RevocationDue, RevokeAll
  <2> QED
    BY <2>3 DEF RevokeAll, Revocable, Live, IInv, TypeOK, Token
<1> QED
  BY <1>3, <1>4, <1>6, <1>7, QuietStep DEF RevokeAll

LEMMA AbortStep ==
    ASSUME IInv, NEW r \in Requests, NEW kind \in FaultKinds, Abort(r, kind)
    PROVE  IInv'
<1>1. req[r] \in Request /\ Carries(req[r]) /\ req[r].user \in Users
  BY DEF IInv, TypeOK, RequestsCarry, Abort, InFlight, Carries
<1>2. PICK q \in Request : req' = [req EXCEPT ![r] = q] /\ Carries(q)'
  BY AnswerTyped DEF Abort, Reply, Codes
<1>3. TokensDie /\ tokens' \in [Tokens -> Token] /\ faults' \in Nat
  BY DEF Abort, TokensDie, IInv, TypeOK
<1>4. /\ interrupted \subseteq interrupted' /\ interrupted' \subseteq Users
      /\ req[r].pc # "revoke" \/ req[r].user \in interrupted'
  BY <1>1 DEF Abort, IInv, TypeOK
<1> QED
  BY <1>2, <1>3, <1>4, RequestStep DEF Abort

-----------------------------------------------------------------------------
(* Steps on links *)

LEMMA ConsumeStep ==
    ASSUME IInv, NEW r \in Requests, Consume(r)
    PROVE  IInv'
<1>1. /\ req[r].link \in Links /\ links[req[r].link].state # "unused"
      /\ req[r].pc = "consume"
  BY DEF Consume, IInv, RequestsCarry, Carries
<1>2. PICK k \in Links : k = req[r].link
  BY <1>1
<1>3. links' = [links EXCEPT ![k] = [links[k] EXCEPT !.state = "consumed"]]
  BY <1>2 DEF Consume, IInv, TypeOK
<1>4. PICK q \in Request : req' = [req EXCEPT ![r] = q] /\ Carries(q)'
  BY AnswerTyped DEF Consume, Reply, Codes
<1>5. TypeOK' /\ LinksOwned'
  BY <1>1, <1>2, <1>3, <1>4 DEF IInv, TypeOK, Consume, Link, LinksOwned
<1>6. MovesOn /\ TokensDie
  BY <1>1, <1>2, <1>3 DEF MovesOn, TokensDie, Consume, IInv, TypeOK, Link
<1>7. RequestsCarry'
  BY <1>4, <1>6, OthersCarry DEF IInv
<1>8. ASSUME NEW t \in Tokens, RevocationDue(tokens[t].user)
      PROVE  RevocationDue(tokens[t].user)'
  <2>1. \A v : RevocationDue(v) => RevocationDue(v)'
    BY <1>1, <1>4, DueStays DEF IInv, Consume
  <2> QED
    BY <1>8, <2>1 DEF RevocationDue, Consume
<1> QED
  BY <1>5, <1>6, <1>7, <1>8, QuietStep DEF Consume

LEMMA ExpireLinkStep ==
    ASSUME IInv, NEW k \in Links, ExpireLink(k)
    PROVE  IInv'
<1>1. links' = [links EXCEPT ![k] = [links[k] EXCEPT !.state = "expired"]]
  BY DEF ExpireLink, IInv, TypeOK
<1>2. TypeOK' /\ LinksOwned'
  BY <1>1 DEF IInv, TypeOK, ExpireLink, Link, LinksOwned
<1>3. TokensDie
  BY DEF TokensDie, ExpireLink
<1>4. RequestsCarry'
  BY <1>1 DEF RequestsCarry, Carries, ExpireLink, IInv, TypeOK, Link, Request
<1>5. \A t \in Tokens : RevocationDue(tokens[t].user) => RevocationDue(tokens[t].user)'
  BY DEF RevocationDue, ExpireLink
<1> QED
  BY <1>2, <1>3, <1>4, <1>5, QuietStep DEF ExpireLink

-----------------------------------------------------------------------------
(* The step that makes a session, and those that should end them *)

LEMMA IssueStep ==
    ASSUME IInv, NEW r \in Requests, Issue(r)
    PROVE  IInv'
<1>1. PICK q \in Request : q = req[r] /\ Carries(q) /\ q.pc = "issue"
  BY DEF IInv, TypeOK, RequestsCarry, Issue
<1> DEFINE new == [state |-> "live", user |-> q.user, parent |-> q.token, proof |-> q.password,
                   late |-> \/ q.late
                            \/ ~users[q.user].active
                            \/ users[q.user].password # q.password]
<1>2. PICK t \in Tokens : tokens[t].state = "unused" /\ tokens' = [tokens EXCEPT ![t] = new]
  BY <1>1 DEF Issue
<1>3. q.user \in Users /\ q.password \in Passwords /\ ~users[q.user].pending
  BY <1>1 DEF Carries
<1>4. new \in Token
  BY <1>1, <1>3 DEF Token, Request
<1>5. PICK a \in Request : req' = [req EXCEPT ![r] = a] /\ Carries(a)'
  BY AnswerTyped DEF Issue, Reply, Codes
<1>6. TypeOK'
  BY <1>2, <1>4, <1>5 DEF IInv, TypeOK, Issue
<1>7. MovesOn
  BY <1>2 DEF MovesOn, Issue, IInv, TypeOK
<1>8. RequestsCarry'
  BY <1>5, <1>7, OthersCarry DEF IInv
<1>9. TokensOwned' /\ LinksOwned'
  BY <1>2, <1>3 DEF TokensOwned, LinksOwned, IInv, TypeOK, Issue
<1>10. OnlyLateSessionsSurvive'
  <2>1. \A v : RevocationDue(v) => RevocationDue(v)'
    BY <1>1, <1>5, DueStays DEF IInv, Issue
  <2>2. ASSUME NEW x \in Tokens, Live(x)'
        PROVE  Excused(x)'
    <3>1. CASE x = t
      <4>1. tokens'[x] = new
        BY <1>2, <3>1 DEF IInv, TypeOK
      <4> QED
        BY <4>1 DEF Excused, Issue
    <3>2. CASE x # t
      <4>1. tokens'[x] = tokens[x] /\ Excused(x)
        BY <1>2, <2>2, <3>2 DEF IInv, TypeOK, OnlyLateSessionsSurvive, Live
      <4> QED
        BY <2>1, <4>1 DEF Excused, Issue, RevocationDue
    <3> QED
      BY <3>1, <3>2
  <2> QED
    BY <2>2 DEF OnlyLateSessionsSurvive
<1>11. SpentTokensAreDead'
  <2> SUFFICES ASSUME NEW x \in Tokens, tokens'[x].parent # None
               PROVE  tokens'[tokens'[x].parent].state \in {"revoked", "expired"}
    BY DEF SpentTokensAreDead
  <2>1. tokens[tokens'[x].parent].state \in {"revoked", "expired"}
    BY <1>1, <1>2 DEF Carries, IInv, TypeOK, SpentTokensAreDead
  <2>2. tokens'[x].parent \in Tokens
    BY <1>6 DEF TypeOK, Token
  <2> QED
    BY <1>7, <2>1, <2>2 DEF MovesOn
<1>12. PendingHasNoSession'
  BY <1>2, <1>3 DEF PendingHasNoSession, IInv, TypeOK, Issue
<1> QED
  BY <1>6, <1>8, <1>9, <1>10, <1>11, <1>12 DEF IInv

\* An account changes under its sessions: whoever changes it goes on to revoke
\* them, or leaves them their excuse.
LEMMA AccountStep ==
    ASSUME IInv, users' \in [Users -> User],
           UNCHANGED <<tokens, links, faults, interrupted>>,
           NEW r \in Requests, NEW q \in Request,
           req' = [req EXCEPT ![r] = q], Carries(q)', req[r].pc # "revoke",
           NEW u \in Users, \A v \in Users : v # u => users'[v] = users[v],
           users'[u].pending => users[u].pending,
           \/ q.pc = "revoke" /\ q.user = u
           \/ /\ users'[u].active \/ ~users[u].active
              /\ \/ users'[u].invited
                 \/ /\ users'[u].password = users[u].password
                    /\ users'[u].invited = users[u].invited
    PROVE  IInv'
<1>1. TypeOK' /\ MovesOn /\ TokensDie
  BY DEF IInv, TypeOK, MovesOn, TokensDie
<1>2. RequestsCarry'
  BY <1>1, OthersCarry DEF IInv
<1>3. TokensOwned' /\ LinksOwned' /\ SpentTokensAreDead' /\ PendingHasNoSession'
  BY DEF IInv, TypeOK, TokensOwned, LinksOwned, SpentTokensAreDead, PendingHasNoSession
<1>4. OnlyLateSessionsSurvive'
  <2>1. \A v : RevocationDue(v) => RevocationDue(v)'
    BY DueStays DEF IInv
  <2>2. q.pc = "revoke" /\ q.user = u => RevocationDue(u)'
    BY DEF RevocationDue, IInv, TypeOK
  <2>3. ASSUME NEW t \in Tokens, Live(t)'
        PROVE  Excused(t)'
    <3>1. /\ Excused(t) /\ tokens'[t] = tokens[t]
          /\ RevocationDue(tokens[t].user) => RevocationDue(tokens[t].user)'
      BY <2>1, <2>3 DEF IInv, OnlyLateSessionsSurvive, Live, RevocationDue
    <3>2. tokens[t].user \in Users
      BY <2>3 DEF Live, IInv, TokensOwned
    <3>3. CASE tokens[t].user # u
      BY <3>1, <3>2, <3>3 DEF Excused
    <3>4. CASE tokens[t].user = u
      BY <2>2, <3>1, <3>4 DEF Excused, RevocationDue
    <3> QED
      BY <3>3, <3>4
  <2> QED
    BY <2>3 DEF OnlyLateSessionsSurvive
<1> QED
  BY <1>1, <1>2, <1>3, <1>4 DEF IInv

LEMMA SavePasswordStep ==
    ASSUME IInv, NEW r \in Requests, SavePassword(r)
    PROVE  IInv'
<1>1. PICK q \in Request : q = req[r] /\ Carries(q) /\ q.pc = "save"
  BY DEF IInv, TypeOK, RequestsCarry, SavePassword
<1>2. PICK u \in Users : u = q.user
  BY <1>1 DEF Carries
<1>3. q.password \in Passwords /\ users[u] \in User
  BY <1>1 DEF Carries, IInv, TypeOK
<1>5. /\ users' \in [Users -> User]
      /\ \A v \in Users : v # u => users'[v] = users[v]
      /\ users'[u].pending => users[u].pending
      /\ users'[u].active = users[u].active
      /\ users'[u].invited = (q.op = "invite")
  BY <1>1, <1>2, <1>3 DEF SavePassword, IInv, TypeOK, User
<1>6. PICK a \in Request : a = [q EXCEPT !.pc = IF q.op = "invite" THEN "consume" ELSE "revoke"]
  BY <1>1 DEF Request, Points
<1>7. req' = [req EXCEPT ![r] = a]
  BY <1>1, <1>6 DEF SavePassword, Goto
<1>8. Carries(a)'
  BY <1>1, <1>6 DEF Carries, SavePassword, Request
<1>9. \/ a.pc = "revoke" /\ a.user = u
      \/ users'[u].invited
  BY <1>1, <1>2, <1>5, <1>6 DEF Request
<1> QED
  BY <1>1, <1>5, <1>7, <1>8, <1>9, AccountStep DEF SavePassword

LEMMA SaveActiveStep ==
    ASSUME IInv, NEW r \in Requests, SaveActive(r)
    PROVE  IInv'
<1>1. PICK q \in Request : q = req[r] /\ Carries(q) /\ q.pc = "flag"
  BY DEF IInv, TypeOK, RequestsCarry, SaveActive
<1>2. PICK u \in Users : u = q.user
  BY <1>1 DEF Carries
<1>3. /\ users' \in [Users -> User]
      /\ \A v \in Users : v # u => users'[v] = users[v]
      /\ users'[u].pending = users[u].pending
      /\ users'[u].invited = users[u].invited
      /\ users'[u].password = users[u].password
      /\ q.op = "activate" => users'[u].active \/ ~users[u].active
  BY <1>1, <1>2 DEF SaveActive, IInv, TypeOK, User
<1>4. PICK a \in Request :
         /\ req' = [req EXCEPT ![r] = a] /\ Carries(a)'
         /\ q.op # "activate" => a.pc = "revoke" /\ a.user = u
  <2>1. CASE q.op = "activate"
    BY <1>1, <2>1, AnswerTyped DEF SaveActive, Reply, Codes
  <2>2. CASE q.op # "activate"
    <3>1. PICK a \in Request : a = [q EXCEPT !.pc = "revoke"]
      BY <1>1 DEF Request, Points
    <3>2. Carries(a)' /\ a.pc = "revoke" /\ a.user = u
      BY <1>1, <1>2, <3>1 DEF Carries, SaveActive, Request
    <3>3. req' = [req EXCEPT ![r] = a]
      BY <1>1, <2>2, <3>1 DEF SaveActive, Goto
    <3> QED
      BY <2>2, <3>2, <3>3
  <2> QED
    BY <2>1, <2>2
<1> QED
  BY <1>1, <1>3, <1>4, AccountStep DEF SaveActive

-----------------------------------------------------------------------------
(* The invariant *)

THEOREM InvariantHolds == Spec => []IInv
<1>1. Init => IInv
  <2> SUFFICES ASSUME Init PROVE IInv
    OBVIOUS
  <2>1. TypeOK
    BY AuthAssumption, IdleTyped
    DEF Init, TypeOK, User, Token, UnusedToken, Link, UnusedLink
  <2>2. RequestsCarry
    BY DEF Init, RequestsCarry, Carries, Idle
  <2>3. TokensOwned /\ LinksOwned /\ OnlyLateSessionsSurvive /\ SpentTokensAreDead
          /\ PendingHasNoSession
    BY DEF Init, TokensOwned, LinksOwned, OnlyLateSessionsSurvive, SpentTokensAreDead,
           PendingHasNoSession, UnusedToken, UnusedLink, Live
  <2> QED
    BY <2>1, <2>2, <2>3 DEF IInv
<1>2. IInv /\ [Next]_vars => IInv'
  <2> SUFFICES ASSUME IInv, [Next]_vars PROVE IInv'
    OBVIOUS
  <2>1. ASSUME NEW r \in Requests, Arrive(r) PROVE IInv'
    <3>1. CASE \E u \in Users : \/ \E p \in Passwords : BeginLogin(r, u, p)
                                \/ \E p, new \in Passwords : BeginChange(r, u, p, new)
                                \/ \E kind \in {"reset", "invite"} : IssueLink(r, kind, u)
                                \/ \E active \in BOOLEAN : BeginSetActive(r, u, active)
      BY <3>1, BeginLoginStep, BeginChangeStep, IssueLinkStep, BeginSetActiveStep
    <3>2. CASE \E t \in Tokens : BeginRefresh(r, t) \/ Logout(r, t)
      BY <3>2, BeginRefreshStep, LogoutStep
    <3>3. CASE \E k \in Links, new \in Passwords : BeginLink(r, k, new)
      BY <3>3, BeginLinkStep
    <3> QED
      BY <2>1, <3>1, <3>2, <3>3 DEF Arrive
  <2>2. ASSUME NEW r \in Requests, Advance(r) PROVE IInv'
    BY <2>2, IssueStep, ReadOwnerStep, RotateStep, SavePasswordStep, SaveActiveStep,
       RevokeAllStep, ConsumeStep DEF Advance
  <2>3. ASSUME NEW r \in Requests, NEW kind \in FaultKinds, Abort(r, kind) PROVE IInv'
    BY <2>3, AbortStep
  <2>4. ASSUME NEW t \in Tokens, ExpireToken(t) PROVE IInv'
    BY <2>4, ExpireTokenStep
  <2>5. ASSUME NEW k \in Links, ExpireLink(k) PROVE IInv'
    BY <2>5, ExpireLinkStep
  <2>6. CASE UNCHANGED vars
    BY <2>6 DEF vars, IInv, TypeOK, RequestsCarry, Carries, TokensOwned, LinksOwned,
       OnlyLateSessionsSurvive, Excused, RevocationDue, SpentTokensAreDead,
       PendingHasNoSession, Live
  <2> QED
    BY <2>1, <2>2, <2>3, <2>4, <2>5, <2>6 DEF Next
<1> QED
  BY <1>1, <1>2, PTL DEF Spec

\* Accounts, tokens, links and requests keep their shapes.
THEOREM TypeCorrect == Spec => []TypeOK
<1>1. IInv => TypeOK
  BY DEF IInv
<1> QED
  BY <1>1, InvariantHolds, PTL

\* deactivate, changePassword and confirmPasswordReset end the sessions of the
\* account: one that is left was issued by a request that overtook them, or its
\* revocation is still to come or has failed, or an invite gave the password.
THEOREM RevocationIsComplete == Spec => []OnlyLateSessionsSurvive
<1>1. IInv => OnlyLateSessionsSurvive
  BY DEF IInv
<1> QED
  BY <1>1, InvariantHolds, PTL

\* refresh: a token that has been exchanged is revoked or expired for good.
THEOREM RotationSpends == Spec => []SpentTokensAreDead
<1>1. IInv => SpentTokensAreDead
  BY DEF IInv
<1> QED
  BY <1>1, InvariantHolds, PTL

\* login: passwordSetRequired keeps an account out until its invite is accepted.
THEOREM InviteComesFirst == Spec => []PendingHasNoSession
<1>1. IInv => PendingHasNoSession
  BY DEF IInv
<1> QED
  BY <1>1, InvariantHolds, PTL

-----------------------------------------------------------------------------
(* What a step may never do *)

\* Other requests than r stay where they are; r issues to u only if it did so
\* before.
LEMMA OneRequestMoves ==
    ASSUME TypeOK, NEW r \in Requests, NEW q, req' = [req EXCEPT ![r] = q], NEW u,
           q.pc \in {"rotate", "issue"} /\ q.user = u => Issuing(r, u)
    PROVE  \A s \in Requests : Issuing(s, u)' => Issuing(s, u)
BY DEF TypeOK, Issuing

LEMMA AnswersIssueNothing ==
    ASSUME TypeOK, NEW r \in Requests, NEW code, Reply(r, code), NEW u
    PROVE  \A s \in Requests : Issuing(s, u)' => Issuing(s, u)
<1> DEFINE q == [Idle EXCEPT !.reply = code]
<1>1. q.pc = "idle" /\ req' = [req EXCEPT ![r] = q]
  BY DEF Idle, Reply
<1> HIDE DEF q
<1> QED
  BY <1>1, OneRequestMoves

LEMMA MovesIssueNothing ==
    ASSUME TypeOK, NEW r \in Requests, NEW point, Goto(r, point), NEW u,
           point \in {"rotate", "issue"} /\ req[r].user = u => Issuing(r, u)
    PROVE  \A s \in Requests : Issuing(s, u)' => Issuing(s, u)
<1> DEFINE q == [req[r] EXCEPT !.pc = point]
<1>1. q.pc = point /\ q.user = req[r].user /\ req' = [req EXCEPT ![r] = q]
  BY DEF TypeOK, Request, Goto
<1> HIDE DEF q
<1> QED
  BY <1>1, OneRequestMoves

LEMMA ArriveShutsOut ==
    ASSUME TypeOK, NEW r \in Requests, Arrive(r), NEW u \in Users, ~users[u].active
    PROVE  \A s \in Requests : Issuing(s, u)' => Issuing(s, u)
<1>1. ASSUME NEW v \in Users, NEW p \in Passwords, BeginLogin(r, v, p)
      PROVE  \A s \in Requests : Issuing(s, u)' => Issuing(s, u)
  <2>1. CASE ~Admits(v, p) \/ users[v].pending
    BY <1>1, <2>1, AnswersIssueNothing DEF BeginLogin
  <2>2. CASE Admits(v, p) /\ ~users[v].pending
    <3> DEFINE q == [Idle EXCEPT !.pc = "issue", !.op = "login", !.user = v, !.password = p]
    <3>1. q.user = v /\ v # u /\ req' = [req EXCEPT ![r] = q]
      BY <1>1, <2>2 DEF BeginLogin, Admits, Idle
    <3> HIDE DEF q
    <3> QED
      BY <3>1, OneRequestMoves
  <2> QED
    BY <2>1, <2>2
<1>2. ASSUME NEW v \in Users, NEW p \in Passwords, NEW new \in Passwords,
             BeginChange(r, v, p, new)
      PROVE  \A s \in Requests : Issuing(s, u)' => Issuing(s, u)
  <2> DEFINE q == [Idle EXCEPT !.pc = "save", !.op = "change", !.user = v, !.password = new]
  <2>1. q.pc = "save"
    BY DEF Idle
  <2>2. Reply(r, "INVALID_CREDENTIALS") \/ req' = [req EXCEPT ![r] = q]
    BY <1>2 DEF BeginChange
  <2> HIDE DEF q
  <2> QED
    BY <2>1, <2>2, AnswersIssueNothing, OneRequestMoves
<1>3. ASSUME NEW v \in Users, NEW kind \in {"reset", "invite"}, IssueLink(r, kind, v)
      PROVE  \A s \in Requests : Issuing(s, u)' => Issuing(s, u)
  BY <1>3, AnswersIssueNothing DEF IssueLink
<1>4. ASSUME NEW v \in Users, NEW active \in BOOLEAN, BeginSetActive(r, v, active)
      PROVE  \A s \in Requests : Issuing(s, u)' => Issuing(s, u)
  <2> DEFINE q == [Idle EXCEPT !.pc = "flag", !.op = IF active THEN "activate" ELSE "deactivate",
                               !.user = v, !.dirty = (users[v].active # active)]
  <2>1. q.pc = "flag" /\ req' = [req EXCEPT ![r] = q]
    BY <1>4 DEF Idle, BeginSetActive
  <2> HIDE DEF q
  <2> QED
    BY <2>1, OneRequestMoves
<1>5. ASSUME NEW t \in Tokens, BeginRefresh(r, t)
      PROVE  \A s \in Requests : Issuing(s, u)' => Issuing(s, u)
  <2> DEFINE q == [Idle EXCEPT !.pc = "owner", !.op = "refresh", !.token = t,
                               !.user = tokens[t].user, !.password = tokens[t].proof,
                               !.late = tokens[t].late]
  <2>1. q.pc = "owner"
    BY DEF Idle
  <2>2. Reply(r, "TOKEN_INVALID") \/ req' = [req EXCEPT ![r] = q]
    BY <1>5 DEF BeginRefresh
  <2> HIDE DEF q
  <2> QED
    BY <2>1, <2>2, AnswersIssueNothing, OneRequestMoves
<1>6. ASSUME NEW t \in Tokens, Logout(r, t)
      PROVE  \A s \in Requests : Issuing(s, u)' => Issuing(s, u)
  BY <1>6, AnswersIssueNothing DEF Logout
<1>7. ASSUME NEW k \in Links, NEW new \in Passwords, BeginLink(r, k, new)
      PROVE  \A s \in Requests : Issuing(s, u)' => Issuing(s, u)
  <2> DEFINE q == [Idle EXCEPT !.pc = "save", !.op = links[k].kind, !.user = links[k].user,
                               !.password = new, !.link = k]
  <2>1. q.pc = "save"
    BY DEF Idle
  <2>2. Reply(r, "LINK_INVALID") \/ req' = [req EXCEPT ![r] = q]
    BY <1>7 DEF BeginLink
  <2> HIDE DEF q
  <2> QED
    BY <2>1, <2>2, AnswersIssueNothing, OneRequestMoves
<1> QED
  BY <1>1, <1>2, <1>3, <1>4, <1>5, <1>6, <1>7 DEF Arrive

LEMMA AdvanceShutsOut ==
    ASSUME TypeOK, NEW r \in Requests, Advance(r), NEW u \in Users, ~users[u].active
    PROVE  \A s \in Requests : Issuing(s, u)' => Issuing(s, u)
<1>1. CASE Issue(r) \/ Consume(r)
  BY <1>1, AnswersIssueNothing DEF Issue, Consume
<1>2. CASE ReadOwner(r)
  <2>1. (users[req[r].user].active /\ Goto(r, "rotate")) \/ Reply(r, "TOKEN_INVALID")
    BY <1>2 DEF ReadOwner
  <2> QED
    BY <2>1, AnswersIssueNothing, MovesIssueNothing
<1>3. CASE Rotate(r)
  <2>1. req[r].pc = "rotate" /\ (Goto(r, "issue") \/ Reply(r, "error"))
    BY <1>3 DEF Rotate
  <2>2. req[r].user = u => Issuing(r, u)
    BY <2>1 DEF Issuing
  <2> QED
    BY <2>1, <2>2, AnswersIssueNothing, MovesIssueNothing
<1>4. CASE SavePassword(r) \/ SaveActive(r) \/ RevokeAll(r)
  <2>1. Goto(r, "consume") \/ Goto(r, "revoke") \/ Reply(r, "ok")
    BY <1>4 DEF SavePassword, SaveActive, RevokeAll
  <2>2. \A point : point \notin {"rotate", "issue"} /\ Goto(r, point) =>
                      \A s \in Requests : Issuing(s, u)' => Issuing(s, u)
    BY MovesIssueNothing
  <2>3. "consume" \notin {"rotate", "issue"} /\ "revoke" \notin {"rotate", "issue"}
    OBVIOUS
  <2> QED
    BY <2>1, <2>2, <2>3, AnswersIssueNothing
<1> QED
  BY <1>1, <1>2, <1>3, <1>4 DEF Advance

\* login and refresh: no step takes a request past their checks for an account
\* that is inactive at that moment.
THEOREM InactiveStaysOut == Spec => InactiveIsShutOut
<1> DEFINE Shut == \A r \in Requests, u \in Users :
                      ~users[u].active /\ Issuing(r, u)' => Issuing(r, u)
<1>1. TypeOK /\ [Next]_vars => [Shut]_vars
  <2> SUFFICES ASSUME TypeOK, Next, NEW u \in Users, ~users[u].active
               PROVE  \A s \in Requests : Issuing(s, u)' => Issuing(s, u)
    BY DEF vars
  <2>1. ASSUME NEW r \in Requests, Arrive(r)
        PROVE  \A s \in Requests : Issuing(s, u)' => Issuing(s, u)
    BY <2>1, ArriveShutsOut
  <2>2. ASSUME NEW r \in Requests, Advance(r)
        PROVE  \A s \in Requests : Issuing(s, u)' => Issuing(s, u)
    BY <2>2, AdvanceShutsOut
  <2>3. ASSUME NEW r \in Requests, NEW kind \in FaultKinds, Abort(r, kind)
        PROVE  \A s \in Requests : Issuing(s, u)' => Issuing(s, u)
    BY <2>3, AnswersIssueNothing DEF Abort
  <2>4. ASSUME NEW t \in Tokens, ExpireToken(t)
        PROVE  \A s \in Requests : Issuing(s, u)' => Issuing(s, u)
    BY <2>4 DEF ExpireToken, Issuing
  <2>5. ASSUME NEW k \in Links, ExpireLink(k)
        PROVE  \A s \in Requests : Issuing(s, u)' => Issuing(s, u)
    BY <2>5 DEF ExpireLink, Issuing
  <2> QED
    BY <2>1, <2>2, <2>3, <2>4, <2>5 DEF Next
<1> QED
  BY <1>1, TypeCorrect, PTL DEF Spec, InactiveIsShutOut


-----------------------------------------------------------------------------
(* One successor *)

\* A step that issues nothing, and comes to exchange live tokens only.
LEMMA NothingIssued ==
    ASSUME IInv, NoneBefore, OneSuccessor,
           \A x \in Tokens : tokens'[x].parent = tokens[x].parent,
           \A r \in Requests, t \in Tokens : Exchanges(r, t)' => Exchanges(r, t) \/ Live(t)
    PROVE  NoneBefore' /\ OneSuccessor'
<1>1. ASSUME NEW t \in Tokens, Live(t), NEW x \in Tokens
      PROVE  tokens[x].parent # t
  BY <1>1, NoneIsNothing DEF IInv, SpentTokensAreDead, Live
<1>2. NoneBefore'
  <2> SUFFICES ASSUME NEW r \in Requests, NEW t \in Tokens, NEW x \in Tokens, Exchanges(r, t)'
               PROVE  tokens'[x].parent # t
    BY DEF NoneBefore
  <2> QED
    BY <1>1 DEF NoneBefore
<1> QED
  BY <1>2 DEF OneSuccessor

\* A request goes on with the token it has, or ends, or comes for a live one.
LEMMA ExchangesOf ==
    ASSUME TypeOK, NEW r \in Requests, NEW q, req' = [req EXCEPT ![r] = q],
           \/ q.pc = "idle" \/ q.token = None
           \/ req[r].pc # "idle" /\ q.token = req[r].token
           \/ q.token \in Tokens /\ Live(q.token)
    PROVE  \A s \in Requests, t \in Tokens : Exchanges(s, t)' => Exchanges(s, t) \/ Live(t)
<1> SUFFICES ASSUME NEW s \in Requests, NEW t \in Tokens, Exchanges(s, t)'
             PROVE  Exchanges(s, t) \/ Live(t)
  OBVIOUS
<1>1. CASE s = r
  <2>1. q.pc # "idle" /\ q.token = t
    BY <1>1 DEF TypeOK, Exchanges, InFlight
  <2> QED
    BY <1>1, <2>1, NoneIsNothing DEF Exchanges, InFlight
<1>2. CASE s # r
  BY <1>2 DEF TypeOK, Exchanges, InFlight
<1> QED
  BY <1>1, <1>2

LEMMA ReplyEnds ==
    ASSUME TypeOK, NEW r \in Requests, NEW code, Reply(r, code)
    PROVE  \A s \in Requests, t \in Tokens : Exchanges(s, t)' => Exchanges(s, t) \/ Live(t)
<1>1. PICK q : q = [Idle EXCEPT !.reply = code]
  OBVIOUS
<1>2. q.pc = "idle" /\ req' = [req EXCEPT ![r] = q]
  BY <1>1 DEF Reply, Idle
<1> QED
  BY <1>2, ExchangesOf

LEMMA GotoGoesOn ==
    ASSUME TypeOK, NEW r \in Requests, req[r].pc # "idle", NEW point, Goto(r, point)
    PROVE  \A s \in Requests, t \in Tokens : Exchanges(s, t)' => Exchanges(s, t) \/ Live(t)
<1>1. PICK q : q = [req[r] EXCEPT !.pc = point]
  OBVIOUS
<1>2. q.token = req[r].token /\ req' = [req EXCEPT ![r] = q]
  BY <1>1 DEF Goto, TypeOK, Request
<1> QED
  BY <1>2, ExchangesOf

\* Requests that arrive without a refresh token have none to exchange.
LEMMA ArriveExchanges ==
    ASSUME TypeOK, NEW r \in Requests, Arrive(r)
    PROVE  \A s \in Requests, t \in Tokens : Exchanges(s, t)' => Exchanges(s, t) \/ Live(t)
<1> DEFINE Fine == \A s \in Requests, t \in Tokens : Exchanges(s, t)' => Exchanges(s, t) \/ Live(t)
<1> HIDE DEF Fine
<1>0. \A code : Reply(r, code) => Fine
  BY ReplyEnds DEF Fine
<1>1. ASSUME NEW u \in Users, NEW p \in Passwords, BeginLogin(r, u, p)
      PROVE  Fine
  <2> DEFINE q == [Idle EXCEPT !.pc = "issue", !.op = "login", !.user = u, !.password = p]
  <2>1. q.token = None
    BY DEF Idle
  <2>2. Fine \/ req' = [req EXCEPT ![r] = q]
    BY <1>0, <1>1 DEF BeginLogin
  <2> HIDE DEF q
  <2> QED
    BY <2>1, <2>2, ExchangesOf DEF Fine
<1>2. ASSUME NEW u \in Users, NEW p \in Passwords, NEW new \in Passwords, BeginChange(r, u, p, new)
      PROVE  Fine
  <2> DEFINE q == [Idle EXCEPT !.pc = "save", !.op = "change", !.user = u, !.password = new]
  <2>1. q.token = None
    BY DEF Idle
  <2>2. Fine \/ req' = [req EXCEPT ![r] = q]
    BY <1>0, <1>2 DEF BeginChange
  <2> HIDE DEF q
  <2> QED
    BY <2>1, <2>2, ExchangesOf DEF Fine
<1>3. ASSUME NEW u \in Users, NEW active \in BOOLEAN, BeginSetActive(r, u, active)
      PROVE  Fine
  <2> DEFINE q == [Idle EXCEPT !.pc = "flag", !.op = IF active THEN "activate" ELSE "deactivate",
                               !.user = u, !.dirty = (users[u].active # active)]
  <2>1. q.token = None /\ req' = [req EXCEPT ![r] = q]
    BY <1>3 DEF Idle, BeginSetActive
  <2> HIDE DEF q
  <2> QED
    BY <2>1, ExchangesOf DEF Fine
<1>4. ASSUME NEW t \in Tokens, BeginRefresh(r, t)
      PROVE  Fine
  <2> DEFINE q == [Idle EXCEPT !.pc = "owner", !.op = "refresh", !.token = t,
                               !.user = tokens[t].user, !.password = tokens[t].proof,
                               !.late = tokens[t].late]
  <2>1. q.token = t
    BY DEF Idle
  <2>2. Fine \/ (Live(t) /\ req' = [req EXCEPT ![r] = q])
    BY <1>0, <1>4 DEF BeginRefresh
  <2> HIDE DEF q
  <2> QED
    BY <2>1, <2>2, ExchangesOf DEF Fine
<1>5. ASSUME NEW k \in Links, NEW new \in Passwords, BeginLink(r, k, new)
      PROVE  Fine
  <2> DEFINE q == [Idle EXCEPT !.pc = "save", !.op = links[k].kind, !.user = links[k].user,
                               !.password = new, !.link = k]
  <2>1. q.token = None
    BY DEF Idle
  <2>2. Fine \/ req' = [req EXCEPT ![r] = q]
    BY <1>0, <1>5 DEF BeginLink
  <2> HIDE DEF q
  <2> QED
    BY <2>1, <2>2, ExchangesOf DEF Fine
<1>6. ASSUME NEW u \in Users, NEW kind \in {"reset", "invite"}, IssueLink(r, kind, u)
      PROVE  Fine
  BY <1>0, <1>6 DEF IssueLink
<1>7. ASSUME NEW t \in Tokens, Logout(r, t)
      PROVE  Fine
  BY <1>0, <1>7 DEF Logout
<1> QED
  BY <1>1, <1>2, <1>3, <1>4, <1>5, <1>6, <1>7 DEF Arrive, Fine

\* The steps that are no Issue.
LEMMA OthersIssueNothing ==
    ASSUME IInv, NoneBefore, OneSuccessor, [Next]_vars, \A r \in Requests : ~Issue(r)
    PROVE  NoneBefore' /\ OneSuccessor'
<1> DEFINE Fine == \A s \in Requests, t \in Tokens : Exchanges(s, t)' => Exchanges(s, t) \/ Live(t)
           Same == \A x \in Tokens : tokens'[x].parent = tokens[x].parent
<1>0. TypeOK
  BY DEF IInv
<1> HIDE DEF Fine, Same
<1>a. UNCHANGED tokens => Same
  BY DEF Same
<1>b. \A t \in Tokens : \A state : tokens' = [tokens EXCEPT ![t].state = state] => Same
  <2> SUFFICES ASSUME NEW t \in Tokens, NEW state, NEW x \in Tokens,
                      tokens' = [tokens EXCEPT ![t].state = state]
               PROVE  tokens'[x].parent = tokens[x].parent
    BY DEF Same
  <2>1. tokens[x] \in Token /\ tokens \in [Tokens -> Token]
    BY <1>0 DEF TypeOK
  <2>2. CASE x = t
    <3>1. tokens'[x] = [tokens[x] EXCEPT !.state = state]
      BY <2>1, <2>2
    <3> QED
      BY <2>1, <3>1 DEF Token
  <2>3. CASE x # t
    BY <2>1, <2>3
  <2> QED
    BY <2>2, <2>3
<1>1. ASSUME NEW r \in Requests, Arrive(r)
      PROVE  Fine /\ Same
  <2>1. Fine
    BY <1>0, <1>1, ArriveExchanges DEF Fine
  <2>2. ASSUME NEW t \in Tokens, Logout(r, t)
        PROVE  Same
    BY <1>b, <2>2 DEF Logout
  <2>3. UNCHANGED tokens \/ \E t \in Tokens : Logout(r, t)
    BY <1>1 DEF Arrive, BeginLogin, BeginChange, IssueLink, BeginSetActive, BeginRefresh, BeginLink
  <2> QED
    BY <1>a, <2>1, <2>2, <2>3
<1>2. ASSUME NEW r \in Requests, Advance(r)
      PROVE  Fine /\ Same
  <2>0. req[r].pc # "idle"
    BY <1>2 DEF Advance, ReadOwner, Rotate, SavePassword, SaveActive, RevokeAll, Consume, Issue
  <2>1. /\ \A code : Reply(r, code) => Fine
        /\ \A point : Goto(r, point) => Fine
    BY <1>0, <2>0, ReplyEnds, GotoGoesOn DEF Fine
  <2>2. CASE ReadOwner(r) \/ SavePassword(r) \/ SaveActive(r) \/ Consume(r)
    <3>1. (\E code : Reply(r, code)) \/ (\E point : Goto(r, point))
      BY <2>2 DEF ReadOwner, SavePassword, SaveActive, Consume
    <3>2. UNCHANGED tokens
      BY <2>2 DEF ReadOwner, SavePassword, SaveActive, Consume
    <3> QED
      BY <1>a, <2>1, <3>1, <3>2
  <2>3. CASE Rotate(r)
    <3>1. req[r].token \in Tokens
      BY <2>3 DEF Rotate, IInv, RequestsCarry, Carries
    <3>2. Same
      BY <1>a, <1>b, <2>3, <3>1 DEF Rotate
    <3>3. (\E code : Reply(r, code)) \/ (\E point : Goto(r, point))
      BY <2>3 DEF Rotate
    <3> QED
      BY <2>1, <3>2, <3>3
  <2>4. CASE RevokeAll(r)
    <3>1. (\E code : Reply(r, code)) \/ (\E point : Goto(r, point))
      BY <2>4 DEF RevokeAll
    <3>2. ASSUME NEW x \in Tokens
          PROVE  tokens'[x].parent = tokens[x].parent
      <4>1. tokens[x] \in Token
        BY <1>0 DEF TypeOK
      <4>2. tokens'[x] = [tokens[x] EXCEPT !.state = "revoked"] \/ tokens'[x] = tokens[x]
        BY <2>4 DEF RevokeAll
      <4> QED
        BY <4>1, <4>2 DEF Token
    <3> QED
      BY <2>1, <3>1, <3>2 DEF Same
  <2> QED
    BY <1>2, <2>2, <2>3, <2>4 DEF Advance
<1>3. ASSUME NEW r \in Requests, NEW kind \in FaultKinds, Abort(r, kind)
      PROVE  Fine /\ Same
  BY <1>0, <1>a, <1>3, ReplyEnds DEF Abort, Fine
<1>4. UNCHANGED req => Fine
  BY DEF Fine, Exchanges, InFlight
<1>5. ASSUME NEW t \in Tokens, ExpireToken(t)
      PROVE  Fine /\ Same
  BY <1>b, <1>4, <1>5 DEF ExpireToken
<1>6. ASSUME NEW k \in Links, ExpireLink(k)
      PROVE  Fine /\ Same
  BY <1>a, <1>4, <1>6 DEF ExpireLink
<1>7. Fine /\ Same
  BY <1>a, <1>1, <1>2, <1>3, <1>4, <1>5, <1>6 DEF Next, vars
<1> QED
  BY <1>7, NothingIssued DEF Fine, Same

\* The successor of a token nobody else is exchanging is its first.
LEMMA IssuesFirst ==
    ASSUME IInv, NoneShared, NoneBefore, OneSuccessor, NEW r \in Requests, Issue(r)
    PROVE  NoneBefore' /\ OneSuccessor'
<1> DEFINE p == req[r].token
<1>1. PICK n \in Tokens : /\ tokens'[n].parent = p
                          /\ \A x \in Tokens \ {n} : tokens'[x] = tokens[x]
  BY DEF Issue, IInv, TypeOK
<1>2. p # None => p \in Tokens /\ Exchanges(r, p)
  BY DEF Issue, IInv, TypeOK, Request, Exchanges, InFlight
<1>3. \A x \in Tokens : p # None => tokens[x].parent # p
  BY <1>2 DEF NoneBefore
<1>4. \A s \in Requests, t \in Tokens : Exchanges(s, t)' => s # r /\ Exchanges(s, t)
  BY DEF Issue, Reply, Idle, IInv, TypeOK, Exchanges, InFlight
<1>5. NoneBefore'
  <2> SUFFICES ASSUME NEW s \in Requests, NEW t \in Tokens, NEW x \in Tokens, Exchanges(s, t)'
               PROVE  tokens'[x].parent # t
    BY DEF NoneBefore
  <2>1. s # r /\ Exchanges(s, t)
    BY <1>4
  <2>2. CASE x = n
    <3>1. p # t
      BY <1>2, <2>1, NoneIsNothing DEF NoneShared
    <3> QED
      BY <1>1, <2>2, <3>1
  <2>3. CASE x # n
    BY <1>1, <2>1, <2>3 DEF NoneBefore
  <2> QED
    BY <2>2, <2>3
<1>6. OneSuccessor'
  <2> SUFFICES ASSUME NEW x \in Tokens, NEW y \in Tokens,
                      tokens'[x].parent # None, tokens'[x].parent = tokens'[y].parent
               PROVE  x = y
    BY DEF OneSuccessor
  <2>1. CASE x # n /\ y # n
    BY <1>1, <2>1 DEF OneSuccessor
  <2>2. CASE x = n \/ y = n
    BY <1>1, <1>3, <2>2
  <2> QED
    BY <2>1, <2>2
<1> QED
  BY <1>5, <1>6

\* refresh: as long as no token is presented while another refresh of it is in
\* flight, a session never splits in two.  auth_rotation shows it splits otherwise.
THEOREM SessionsDoNotSplit == Spec /\ []NoneShared => []OneSuccessor
<1>1. Init => NoneBefore /\ OneSuccessor
  BY DEF Init, NoneBefore, OneSuccessor, Exchanges, InFlight, Idle, UnusedToken
<1>2. IInv /\ NoneShared /\ NoneBefore /\ OneSuccessor /\ [Next]_vars
        => NoneBefore' /\ OneSuccessor'
  BY OthersIssueNothing, IssuesFirst
<1> QED
  BY <1>1, <1>2, InvariantHolds, PTL DEF Spec

=============================================================================

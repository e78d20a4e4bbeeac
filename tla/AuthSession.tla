---------------------------- MODULE AuthSession ----------------------------
(***************************************************************************)
(* AuthService and the two handlers that switch accounts on and off        *)
(* (HrService.setTenantUserActive, PlatformOperatorsService.setActive):    *)
(* accounts, refresh tokens, and the reset and invite tokens.              *)
(*                                                                         *)
(* Every element of Requests is one HTTP request at a time, cut at its     *)
(* awaits.  The awaits of bcrypt and of signing change nothing and are     *)
(* merged with the read before them: what a handler compares is the        *)
(* document it has read.  Accounts are never deleted.  The lockout of      *)
(* logins, the roles and clients of accounts and the audit log are left    *)
(* out: they do not depend on anything here.                               *)
(***************************************************************************)
EXTENDS Integers, FiniteSets

CONSTANTS
    Users,          \* accounts, of tenants and of the platform
    Platform,       \* the platform accounts
    Pending,        \* accounts that have not accepted their invite at the start
    Passwords,      \* passwords that satisfy the policy
    Initial,        \* the password of each account at the start
    Tokens,         \* pool of refresh tokens
    Links,          \* pool of reset and invite tokens
    Requests,       \* requests that may be in flight together
    None,
    DevInvites,     \* AUTH_ENABLE_DEV_INVITES
    FaultKinds,     \* bound: the kinds of faults injected, "error" and "crash"
    MaxFaults       \* bound on the number of faults

ASSUME AuthAssumption ==
    /\ Platform \subseteq Users
    /\ Pending \subseteq Users \ Platform
    /\ Initial \in [Users -> Passwords]
    /\ None \notin Users \cup Passwords \cup Tokens \cup Links
    /\ DevInvites \in BOOLEAN
    /\ MaxFaults \in Nat

VARIABLES
    users,      \* collections tenant_users and platform_users
    tokens,     \* collection refresh_tokens, by token
    links,      \* collections auth_password_reset_tokens and auth_invite_tokens
    req,        \* the requests in flight: where each is and what it has read
    faults,     \* number of faults injected so far
    interrupted \* history: accounts one of whose revocations did not take place

vars == <<users, tokens, links, req, faults, interrupted>>

-----------------------------------------------------------------------------
(* Documents *)

\* invited is a history field: the password was last set through an invite.
User == [password : Passwords, active : BOOLEAN, pending : BOOLEAN, invited : BOOLEAN]

\* "expired": its time is up, and the TTL index may have dropped it.  Three
\* history fields: the token it was exchanged for (None: a login), the password
\* that opened the session, and whether the account had already been switched
\* off or been given another password when it (or an ancestor) was issued.
Token ==
    [state  : {"unused", "live", "revoked", "expired"},
     user   : Users \cup {None},
     parent : Tokens \cup {None},
     proof  : Passwords \cup {None},
     late   : BOOLEAN]

UnusedToken ==
    [state |-> "unused", user |-> None, parent |-> None, proof |-> None, late |-> FALSE]

Link ==
    [state : {"unused", "issued", "consumed", "expired"},
     kind  : {"reset", "invite", None},
     user  : Users \cup {None}]

UnusedLink == [state |-> "unused", kind |-> None, user |-> None]

Live(t) == tokens[t].state = "live"

-----------------------------------------------------------------------------
(* Requests *)

Points == {"idle", "owner", "rotate", "issue", "flag", "save", "revoke", "consume"}

Codes == {"none", "ok", "INVALID_CREDENTIALS", "SIGN_IN_FAILED", "TOKEN_INVALID",
          "LINK_INVALID", "error", "lost"}

Request ==
    [pc       : Points,
     op       : {"none", "login", "refresh", "change", "reset", "invite",
                 "activate", "deactivate"},
     user     : Users \cup {None},
     password : Passwords \cup {None},  \* login: the one that matched; else the new one
     token    : Tokens \cup {None},
     link     : Links \cup {None},
     late     : BOOLEAN,                \* the token presented was late
     dirty    : BOOLEAN,                \* the flag read differs from the one asked for
     reply    : Codes]

Idle ==
    [pc |-> "idle", op |-> "none", user |-> None, password |-> None, token |-> None,
     link |-> None, late |-> FALSE, dirty |-> FALSE, reply |-> "none"]

InFlight(r) == req[r].pc # "idle"

Reply(r, code) == req' = [req EXCEPT ![r] = [Idle EXCEPT !.reply = code]]

Goto(r, point) == req' = [req EXCEPT ![r].pc = point]

\* Bound: a request goes for a token only if the pool holds one for it.
TokenLeft ==
    Cardinality({r \in Requests : req[r].pc \in {"owner", "rotate", "issue"}})
      < Cardinality({t \in Tokens : tokens[t].state = "unused"})

-----------------------------------------------------------------------------
(* login, refresh, logout *)

\* Mutant: a login does not look at `active`.
AdmitsAnyone(u, p) == users[u].password = p

Admits(u, p) == users[u].password = p /\ users[u].active

\* Mutant: passwordSetRequired is not looked at.
LoginBeforeInvite(r, u, p) ==
    /\ ~InFlight(r) /\ Admits(u, p) /\ TokenLeft
    /\ req' = [req EXCEPT ![r] =
          [Idle EXCEPT !.pc = "issue", !.op = "login", !.user = u, !.password = p]]
    /\ UNCHANGED <<users, tokens, links, faults, interrupted>>

BeginLogin(r, u, p) ==
    /\ ~InFlight(r)
    /\ \/ ~Admits(u, p) /\ Reply(r, "INVALID_CREDENTIALS")
       \/ Admits(u, p) /\ users[u].pending /\ Reply(r, "SIGN_IN_FAILED")
       \/ /\ Admits(u, p) /\ ~users[u].pending
          /\ TokenLeft
          /\ req' = [req EXCEPT ![r] =
                [Idle EXCEPT !.pc = "issue", !.op = "login", !.user = u, !.password = p]]
    /\ UNCHANGED <<users, tokens, links, faults, interrupted>>

\* issueTokenPair, whatever has become of the account since it was read.
Issue(r) ==
    LET q == req[r] IN
    /\ q.pc = "issue"
    /\ \E t \in Tokens :
         /\ tokens[t].state = "unused"
         /\ tokens' = [tokens EXCEPT ![t] =
               [state |-> "live", user |-> q.user, parent |-> q.token, proof |-> q.password,
                late |-> \/ q.late
                         \/ ~users[q.user].active
                         \/ users[q.user].password # q.password]]
    /\ Reply(r, "ok")
    /\ UNCHANGED <<users, links, faults, interrupted>>

BeginRefresh(r, t) ==
    /\ ~InFlight(r)
    /\ tokens[t].state # "unused"
    /\ \/ ~Live(t) /\ Reply(r, "TOKEN_INVALID")
       \/ /\ Live(t)
          /\ TokenLeft
          /\ req' = [req EXCEPT ![r] =
                [Idle EXCEPT !.pc = "owner", !.op = "refresh", !.token = t,
                             !.user = tokens[t].user, !.password = tokens[t].proof,
                             !.late = tokens[t].late]]
    /\ UNCHANGED <<users, tokens, links, faults, interrupted>>

\* findById(doc.userId)
ReadOwner(r) ==
    LET q == req[r] IN
    /\ q.pc = "owner"
    /\ \/ ~users[q.user].active /\ Reply(r, "TOKEN_INVALID")
       \/ users[q.user].active /\ Goto(r, "rotate")
    /\ UNCHANGED <<users, tokens, links, faults, interrupted>>

\* Mutant: the token is exchanged and not revoked.
RotateNothing(r) ==
    /\ req[r].pc = "rotate"
    /\ Goto(r, "issue")
    /\ UNCHANGED <<users, tokens, links, faults, interrupted>>

\* doc.revokedAt = now; doc.save(): by _id, whatever the document is now.  If
\* the TTL index has dropped it, save throws.
Rotate(r) ==
    LET t == req[r].token IN
    /\ req[r].pc = "rotate"
    /\ \/ /\ Goto(r, "issue")
          /\ tokens' = [tokens EXCEPT ![t].state = IF @ = "live" THEN "revoked" ELSE @]
       \/ /\ tokens[t].state = "expired"
          /\ Reply(r, "error")
          /\ UNCHANGED tokens
    /\ UNCHANGED <<users, links, faults, interrupted>>

Logout(r, t) ==
    /\ ~InFlight(r)
    /\ tokens[t].state # "unused"
    /\ tokens' = [tokens EXCEPT ![t].state = IF @ = "live" THEN "revoked" ELSE @]
    /\ Reply(r, "ok")
    /\ UNCHANGED <<users, links, faults, interrupted>>

-----------------------------------------------------------------------------
(* changePassword, requestPasswordReset, confirmPasswordReset, acceptInvite *)

\* JwtAuthGuard asks for an access token, and one comes with every refresh token.
SignedInOnce(u) == \E t \in Tokens : tokens[t].user = u

BeginChange(r, u, current, new) ==
    /\ ~InFlight(r)
    /\ SignedInOnce(u)
    /\ \/ users[u].password # current /\ Reply(r, "INVALID_CREDENTIALS")
       \/ /\ users[u].password = current
          /\ req' = [req EXCEPT ![r] =
                [Idle EXCEPT !.pc = "save", !.op = "change", !.user = u, !.password = new]]
    /\ UNCHANGED <<users, tokens, links, faults, interrupted>>

\* requestPasswordReset: the link goes by mail.  Accounts of tenants must be
\* active.  issueInviteForTenantUser: a route for development.
IssueLink(r, kind, u) ==
    /\ ~InFlight(r)
    /\ \/ kind = "reset" /\ (u \in Platform \/ users[u].active)
       \/ kind = "invite" /\ DevInvites /\ u \notin Platform
    /\ \E k \in Links :
         /\ links[k].state = "unused"
         /\ links' = [links EXCEPT ![k] = [state |-> "issued", kind |-> kind, user |-> u]]
    /\ Reply(r, "ok")
    /\ UNCHANGED <<users, tokens, faults, interrupted>>

\* The first reads of confirmPasswordReset and acceptInvite.
BeginLink(r, k, new) ==
    /\ ~InFlight(r)
    /\ links[k].state # "unused"
    /\ \/ links[k].state # "issued" /\ Reply(r, "LINK_INVALID")
       \/ /\ links[k].state = "issued"
          /\ req' = [req EXCEPT ![r] =
                [Idle EXCEPT !.pc = "save", !.op = links[k].kind, !.user = links[k].user,
                             !.password = new, !.link = k]]
    /\ UNCHANGED <<users, tokens, links, faults, interrupted>>

\* user.save(); only acceptInvite goes on without a revocation.
SavePassword(r) ==
    LET q == req[r] IN
    /\ q.pc = "save"
    /\ users' = [users EXCEPT ![q.user].password = q.password,
                              ![q.user].pending = @ /\ q.op # "invite",
                              ![q.user].invited = (q.op = "invite")]
    /\ Goto(r, IF q.op = "invite" THEN "consume" ELSE "revoke")
    /\ UNCHANGED <<tokens, links, faults, interrupted>>

\* Mutant: an account gets its tokens revoked only while it is active.
RevocableWhileActive(t, u) == Live(t) /\ tokens[t].user = u /\ users[u].active

\* Filter of revokeAllRefreshForUser.
Revocable(t, u) == Live(t) /\ tokens[t].user = u

\* revokeAllRefreshForUser: one updateMany.
RevokeAll(r) ==
    LET q == req[r] IN
    /\ q.pc = "revoke"
    /\ tokens' = [t \in Tokens |-> IF Revocable(t, q.user)
                                     THEN [tokens[t] EXCEPT !.state = "revoked"]
                                     ELSE tokens[t]]
    /\ interrupted' = interrupted \ {q.user}
    /\ IF q.op = "reset" THEN Goto(r, "consume") ELSE Reply(r, "ok")
    /\ UNCHANGED <<users, links, faults>>

\* doc.consumedAt = now; doc.save()
Consume(r) ==
    /\ req[r].pc = "consume"
    /\ links' = [links EXCEPT ![req[r].link].state = "consumed"]
    /\ Reply(r, "ok")
    /\ UNCHANGED <<users, tokens, faults, interrupted>>

-----------------------------------------------------------------------------
(* setTenantUserActive, setActive *)

BeginSetActive(r, u, active) ==
    /\ ~InFlight(r)
    /\ req' = [req EXCEPT ![r] =
          [Idle EXCEPT !.pc = "flag", !.op = IF active THEN "activate" ELSE "deactivate",
                       !.user = u, !.dirty = (users[u].active # active)]]
    /\ UNCHANGED <<users, tokens, links, faults, interrupted>>

\* doc.save() writes nothing when the flag that was read is the one asked for.
SaveActive(r) ==
    LET q == req[r] IN
    /\ q.pc = "flag"
    /\ users' = IF q.dirty THEN [users EXCEPT ![q.user].active = (q.op = "activate")]
                           ELSE users
    /\ IF q.op = "activate" THEN Reply(r, "ok") ELSE Goto(r, "revoke")
    /\ UNCHANGED <<tokens, links, faults, interrupted>>

-----------------------------------------------------------------------------
(* Time and faults *)

\* expiresAt passes: of a revoked token that changes nothing.  Nothing removes
\* a reset or invite token.
ExpireToken(t) ==
    /\ Live(t)
    /\ tokens' = [tokens EXCEPT ![t].state = "expired"]
    /\ UNCHANGED <<users, links, req, faults, interrupted>>

ExpireLink(k) ==
    /\ links[k].state = "issued"
    /\ links' = [links EXCEPT ![k].state = "expired"]
    /\ UNCHANGED <<users, tokens, req, faults, interrupted>>

\* The operation is rejected, or the process dies before it: nothing is caught
\* and nothing is undone.
Abort(r, kind) ==
    /\ InFlight(r)
    /\ kind \in FaultKinds /\ faults < MaxFaults
    /\ faults' = faults + 1
    /\ interrupted' = IF req[r].pc = "revoke" THEN interrupted \cup {req[r].user}
                                              ELSE interrupted
    /\ Reply(r, IF kind = "crash" THEN "lost" ELSE "error")
    /\ UNCHANGED <<users, tokens, links>>

-----------------------------------------------------------------------------
Init ==
    /\ users = [u \in Users |-> [password |-> Initial[u], active |-> TRUE,
                                 pending |-> u \in Pending, invited |-> FALSE]]
    /\ tokens = [t \in Tokens |-> UnusedToken]
    /\ links = [k \in Links |-> UnusedLink]
    /\ req = [r \in Requests |-> Idle]
    /\ faults = 0
    /\ interrupted = {}

Arrive(r) ==
    \/ \E u \in Users :
         \/ \E p \in Passwords : BeginLogin(r, u, p)
         \/ \E p, new \in Passwords : BeginChange(r, u, p, new)
         \/ \E kind \in {"reset", "invite"} : IssueLink(r, kind, u)
         \/ \E active \in BOOLEAN : BeginSetActive(r, u, active)
    \/ \E t \in Tokens : BeginRefresh(r, t) \/ Logout(r, t)
    \/ \E k \in Links, new \in Passwords : BeginLink(r, k, new)

Advance(r) ==
    \/ Issue(r) \/ ReadOwner(r) \/ Rotate(r)
    \/ SavePassword(r) \/ SaveActive(r) \/ RevokeAll(r) \/ Consume(r)

Next ==
    \/ \E r \in Requests : Arrive(r) \/ Advance(r) \/ \E kind \in FaultKinds : Abort(r, kind)
    \/ \E t \in Tokens : ExpireToken(t)
    \/ \E k \in Links : ExpireLink(k)

Spec == Init /\ [][Next]_vars

-----------------------------------------------------------------------------
(* Properties *)

\* Accounts, tokens, links and requests keep their shapes.
TypeOK ==
    /\ users \in [Users -> User]
    /\ tokens \in [Tokens -> Token]
    /\ links \in [Links -> Link]
    /\ req \in [Requests -> Request]
    /\ faults \in Nat
    /\ interrupted \subseteq Users

\* The tokens of u are about to be revoked, or should have been.
RevocationDue(u) ==
    u \in interrupted \/ \E r \in Requests : req[r].pc = "revoke" /\ req[r].user = u

\* The account of t still lets the session be; or t was issued, or descends from
\* one that was, by a request that overtook the change; or its revocation is to come.
Excused(t) ==
    LET u == users[tokens[t].user] IN
    \/ u.active /\ (tokens[t].proof = u.password \/ u.invited)
    \/ tokens[t].late
    \/ RevocationDue(tokens[t].user)

\* Switching an account off, and changing or resetting its password, ends its
\* sessions, except those of requests that overtook the change.  A password that
\* came through an invite revokes nothing.
OnlyLateSessionsSurvive == \A t \in Tokens : Live(t) => Excused(t)

\* A token that has been exchanged is not valid any more, however many refreshes
\* of it are in flight.
SpentTokensAreDead ==
    \A t \in Tokens :
        tokens[t].parent # None => tokens[tokens[t].parent].state \in {"revoked", "expired"}

\* Nobody signs in before the invite is accepted: an account that waits for its
\* first password has no session, also when links and resets race with logins.
PendingHasNoSession ==
    \A t \in Tokens : tokens[t].state # "unused" => ~users[tokens[t].user].pending

\* A token is exchanged for at most one successor.
OneSuccessor ==
    \A x, y \in Tokens :
        tokens[x].parent # None /\ tokens[x].parent = tokens[y].parent => x = y

-----------------------------------------------------------------------------
(* The inductive invariant of AuthSessionProofs *)

\* What a request in flight carries: a login or refresh, the account and the
\* password of its session, of an account past its invite; the token it
\* exchanges, spent once it is rotated; the link it was opened with.
Carries(q) ==
    /\ q.pc # "idle" => q.user \in Users
    /\ q.pc \in {"owner", "rotate", "issue", "save"} => q.password \in Passwords
    /\ q.pc \in {"owner", "rotate", "issue"} => ~users[q.user].pending
    /\ q.pc \in {"owner", "rotate"} =>
          q.token \in Tokens /\ tokens[q.token].state # "unused"
    /\ q.pc = "issue" /\ q.token # None =>
          tokens[q.token].state \in {"revoked", "expired"}
    /\ q.pc = "consume" => q.op \in {"reset", "invite"}
    /\ q.op \in {"reset", "invite"} =>
          q.link \in Links /\ links[q.link].state # "unused"

RequestsCarry == \A r \in Requests : Carries(req[r])

TokensOwned ==
    \A t \in Tokens : tokens[t].state # "unused" =>
        tokens[t].user \in Users /\ tokens[t].proof \in Passwords

LinksOwned ==
    \A k \in Links : links[k].state # "unused" =>
        links[k].user \in Users /\ links[k].kind \in {"reset", "invite"}

IInv ==
    /\ TypeOK
    /\ RequestsCarry
    /\ TokensOwned
    /\ LinksOwned
    /\ OnlyLateSessionsSurvive
    /\ SpentTokensAreDead
    /\ PendingHasNoSession

-----------------------------------------------------------------------------
(* Refreshes that do not overlap *)

\* r is a refresh of t in flight.
Exchanges(r, t) == InFlight(r) /\ req[r].token = t

\* No token is presented while another refresh of it is in flight.
NoneShared ==
    \A r, s \in Requests, t \in Tokens : Exchanges(r, t) /\ Exchanges(s, t) => r = s

\* What is being exchanged has no successor yet.
NoneBefore == \A r \in Requests, t, x \in Tokens : Exchanges(r, t) => tokens[x].parent # t

-----------------------------------------------------------------------------
(* What a step may never do *)

\* r will issue a token to u unless it fails.
Issuing(r, u) == req[r].pc \in {"rotate", "issue"} /\ req[r].user = u

\* An account that is switched off can neither sign in nor refresh: no step takes
\* a request past the checks of either.
InactiveIsShutOut ==
    [][\A r \in Requests, u \in Users :
         ~users[u].active /\ Issuing(r, u)' => Issuing(r, u)]_vars

=============================================================================

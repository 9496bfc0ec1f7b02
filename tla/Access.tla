---------------------------------- MODULE Access ----------------------------------
(***************************************************************************)
(* Who may use an instance: the first user, invitations, the ways to sign  *)
(* in (password, TOTP, passkey, recovery code), sessions, devices and the  *)
(* link to a Discord account.  Many of these are things that may be used   *)
(* once, by requests that run side by side; a request is a worker that     *)
(* goes through the separate transactions of its handler, with other       *)
(* requests, or the end of the process, between them.                      *)
(*                                                                         *)
(* A user is an email address (users.email is unique).  Passwords, TOTP    *)
(* codes and authenticator answers are right or wrong, by choice.          *)
(***************************************************************************)
EXTENDS Integers

CONSTANTS
    Worker,       \* requests that may run at the same time
    User,         \* email addresses
    Invite,       \* registration_invites
    Challenge,    \* auth_challenges
    Code,         \* the recovery codes of one user
    Session,
    Device,
    Discord,      \* Discord accounts
    None,
    MaxPasskeys,  \* bound: passkeys of one user
    MaxRequests   \* bound: requests the clients make

VARIABLES
    mode,         \* REGISTRATION_MODE of the instance
    claimed,      \* instance_state has the row first_user_claim
    user,         \* [admin, by] of each registered user, or None
    invite,       \* "none", "open", "used" or "revoked" (or expired)
    challenge,    \* [kind, user, state], or None
    passkeys,     \* how many passkeys each user has
    totp,         \* the users with a TOTP credential
    codes,        \* recovery codes: "none", "fresh" or "used"
    session,      \* [user, device, state, by], or None
    device,       \* [user, revoked], or None
    token,        \* the link token of a Discord account: "none", "open", "used"
    link,         \* the row of discord_links of each user: [discord, live], or None
    job,          \* what each request has read
    asked,        \* how many requests there were
    crossed       \* history: sessions attached to a device after its revocation,
                  \* users whose first passkeys were saved side by side or whose
                  \* registration was interrupted

vars == <<mode, claimed, user, invite, challenge, passkeys, totp, codes, session, device,
          token, link, job, asked, crossed>>

\* What entitles someone to a session; what may be used once is named.
Grounds ==
    {<<"setup">>, <<"password">>} \cup ({"invite"} \X Invite) \cup ({"challenge"} \X Challenge)
    \cup ({"recovery"} \X User \X Code)

\* Rows of the tables, and what a request keeps between two of its transactions.
UserRow == [admin : BOOLEAN, by : Invite \cup {"setup", "open"}]
ChallengeRow ==
    [kind : {"registration", "totp", "authentication", "totp_login"}, user : User,
     state : {"open", "used", "expired"}]
SessionRow ==
    [user : User, device : Device \cup {None},
     state : {"live", "idle", "expired", "revoked"}, by : Grounds]
DeviceRow == [user : User, revoked : BOOLEAN]
LinkRow == [discord : Discord, live : BOOLEAN]
Job ==
    [op : {"idle"}] \cup [op : {"setup", "save", "enable", "count", "codes"}, user : User]
    \cup [op : {"consume"}, challenge : Challenge] \cup [op : {"issue"}, user : User, by : Grounds]
    \cup [op : {"touch"}, session : Session]
    \cup [op : {"register", "mutate", "look", "attach"}, session : Session, device : Device]
    \cup [op : {"link"}, user : User, discord : Discord]

Idle == [op |-> "idle"]

\* An instance is empty, or has its first user, with a session, and maybe with TOTP
\* and a passkey already.
Init ==
    \E m \in {"closed", "invite", "open"}, first \in User, s \in Session, new, secured \in BOOLEAN :
        LET admin == [admin |-> TRUE, by |-> "setup"]
            theirs == [user |-> first, device |-> None, state |-> "live", by |-> <<"setup">>]
            has == {u \in User : u = first /\ secured /\ ~new}
        IN
        /\ mode = m
        /\ claimed = ~new
        /\ user = [u \in User |-> IF ~new /\ u = first THEN admin ELSE None]
        /\ invite = [i \in Invite |-> "none"]
        /\ challenge = [c \in Challenge |-> None]
        /\ passkeys = [u \in User |-> IF u \in has THEN 1 ELSE 0]
        /\ totp = has
        /\ codes = [u \in User |-> [c \in Code |-> IF u \in has THEN "fresh" ELSE "none"]]
        /\ session = [x \in Session |-> IF ~new /\ x = s THEN theirs ELSE None]
        /\ device = [d \in Device |-> None]
        /\ token = [k \in Discord |-> "none"]
        /\ link = [u \in User |-> None]
        /\ job = [w \in Worker |-> Idle]
        /\ asked = 0
        /\ crossed = {}

Registered(u) == user[u] # None

\* findActiveSession and the idle limit of resolveSession.
IsLive(s) == session[s] # None /\ session[s].state = "live"

\* Not revoked and not expired; it may be idle.
IsActive(s) == session[s] # None /\ session[s].state \in {"live", "idle"}

SignedIn(u) == \E s \in Session : IsLive(s) /\ session[s].user = u

DeviceIsActive(u, d) == device[d] # None /\ device[d].user = u /\ ~device[d].revoked

\* Mutant: a revoked device is taken back.
Revived(u, d) == device[d] = None \/ device[d].user = u

Registrable(u, d) == device[d] = None \/ DeviceIsActive(u, d)

Set(w, j) == job' = [job EXCEPT ![w] = j]
Done(w) == Set(w, Idle)
Start(w) == job[w] = Idle /\ asked < MaxRequests /\ asked' = asked + 1
Doing(w, op) == job[w].op = op /\ UNCHANGED <<mode, asked>>
Grant(w, u, by) == Set(w, [op |-> "issue", user |-> u, by |-> by])

\* Everything that is left alone by the steps of one part, with the mode and asked.
people == <<claimed, user, invite>>
secrets == <<challenge, passkeys, totp, codes>>
places == <<session, device>>
links == <<token, link>>

-------------------------------------------------------------------------------
(***************************************************************************)
(* Users.                                                                  *)
(***************************************************************************)

\* POST /setup counts users first, then again in its transaction: what counts is the
\* row of instance_state that only one transaction can insert.
BeginSetup(w, u) ==
    /\ Start(w)
    /\ \A v \in User : ~Registered(v)
    /\ Set(w, [op |-> "setup", user |-> u])
    /\ UNCHANGED <<mode, people, secrets, places, links, crossed>>

FinishSetup(w) ==
    LET u == job[w].user
        taken == ~claimed /\ ~Registered(u)
    IN
    /\ Doing(w, "setup")
    /\ claimed' = (claimed \/ taken)
    /\ user' = IF taken THEN [user EXCEPT ![u] = [admin |-> TRUE, by |-> "setup"]] ELSE user
    /\ IF taken THEN Grant(w, u, <<"setup">>) ELSE Done(w)
    /\ UNCHANGED <<invite, secrets, places, links, crossed>>

\* POST /register.  createUserFromInvite takes the invitation's row FOR UPDATE; a
\* taken email address rolls the transaction back, with the invitation.
Acceptable(i) == invite[i] = "open"

RegisterByInvite(w, u, i) ==
    /\ Start(w)
    /\ mode = "invite"
    /\ Acceptable(i)
    /\ ~Registered(u)
    /\ user' = [user EXCEPT ![u] = [admin |-> FALSE, by |-> i]]
    /\ invite' = [invite EXCEPT ![i] = "used"]
    /\ Grant(w, u, <<"invite", i>>)
    /\ UNCHANGED <<mode, claimed, secrets, places, links, crossed>>

RegisterOpenly(w, u) ==
    /\ Start(w)
    /\ mode = "open"
    /\ ~Registered(u)
    /\ user' = [user EXCEPT ![u] = [admin |-> FALSE, by |-> "open"]]
    /\ Grant(w, u, <<"password">>)
    /\ UNCHANGED <<mode, claimed, invite, secrets, places, links, crossed>>

CreateInvite(w, i) ==
    /\ Start(w)
    /\ \E u \in User : Registered(u) /\ user[u].admin /\ SignedIn(u)
    /\ invite[i] = "none"
    /\ invite' = [invite EXCEPT ![i] = "open"]
    /\ UNCHANGED <<mode, claimed, user, secrets, places, links, job, crossed>>

\* revokeRegistrationInvite, and the expiry, which ends it the same way.
RevokeInvite(i) ==
    /\ invite[i] = "open"
    /\ invite' = [invite EXCEPT ![i] = "revoked"]
    /\ UNCHANGED <<mode, claimed, user, secrets, places, links, job, asked, crossed>>

-------------------------------------------------------------------------------
(***************************************************************************)
(* Signing in.                                                             *)
(***************************************************************************)

\* createAuthChallenge, for a user who is signed in (a new passkey, a new TOTP secret)
\* or anyone (signing in by passkey).
Offer(w, c, u, kind) ==
    /\ Start(w)
    /\ Registered(u)
    /\ kind \in {"registration", "totp"} => SignedIn(u)
    /\ kind = "authentication" => passkeys[u] > 0
    /\ challenge[c] = None
    /\ challenge' = [challenge EXCEPT ![c] = [kind |-> kind, user |-> u, state |-> "open"]]
    /\ UNCHANGED <<mode, people, passkeys, totp, codes, places, links, job, crossed>>

\* POST /login with the right password: a user with TOTP gets a challenge instead of
\* a session.
LoginByPassword(w, u, c) ==
    /\ Start(w)
    /\ Registered(u)
    /\ IF u \in totp
       THEN /\ challenge[c] = None
            /\ challenge' = [challenge EXCEPT ![c] =
                                [kind |-> "totp_login", user |-> u, state |-> "open"]]
            /\ UNCHANGED job
       ELSE Grant(w, u, <<"password">>) /\ UNCHANGED challenge
    /\ UNCHANGED <<mode, people, passkeys, totp, codes, places, links, crossed>>

\* consumeAuthChallenge reads the row, then updates it where it is still unused, expired
\* in the meantime or not.
ReadChallenge(w, c) ==
    /\ Start(w)
    /\ challenge[c] # None
    /\ challenge[c].state = "open"
    /\ challenge[c].kind \in {"registration", "totp"} => SignedIn(challenge[c].user)
    /\ Set(w, [op |-> "consume", challenge |-> c])
    /\ UNCHANGED <<mode, people, secrets, places, links, crossed>>

\* Mutant: the update takes the row as it was read.
UnusedAsRead(c) == TRUE

Unused(c) == challenge[c].state # "used"

\* What the request may do with the challenge it consumed.  A wrong answer ends it:
\* the challenge is used up.
Reward(w, c) ==
    LET u == challenge[c].user IN
    CASE challenge[c].kind = "registration"   -> Set(w, [op |-> "save", user |-> u])
      [] challenge[c].kind = "totp"           -> Set(w, [op |-> "enable", user |-> u])
      [] challenge[c].kind = "authentication" -> Grant(w, u, <<"challenge", c>>)
      [] challenge[c].kind = "totp_login"     -> Grant(w, u, <<"challenge", c>>)

Consume(w) ==
    LET c == job[w].challenge IN
    /\ Doing(w, "consume")
    /\ IF Unused(c)
       THEN /\ challenge' = [challenge EXCEPT ![c].state = "used"]
            /\ (Reward(w, c) \/ Done(w))
       ELSE Done(w) /\ UNCHANGED challenge
    /\ UNCHANGED <<people, passkeys, totp, codes, places, links, crossed>>

\* Not used for five minutes.
ChallengeExpires(c) ==
    /\ challenge[c] # None
    /\ challenge[c].state = "open"
    /\ challenge' = [challenge EXCEPT ![c].state = "expired"]
    /\ UNCHANGED <<mode, people, passkeys, totp, codes, places, links, job, asked, crossed>>

EnableTotp(w) ==
    /\ Doing(w, "enable")
    /\ totp' = totp \cup {job[w].user}
    /\ Done(w)
    /\ UNCHANGED <<people, challenge, passkeys, codes, places, links, crossed>>

\* register/verify: the passkey is saved, then all are counted, and the first one
\* gets the user recovery codes, each in a transaction of its own.
SavingFor(u) == {w \in Worker : job[w].op \in {"count", "codes"} /\ job[w].user = u}

SavePasskey(w) ==
    LET u == job[w].user IN
    /\ Doing(w, "save")
    /\ passkeys[u] < MaxPasskeys
    /\ passkeys' = [passkeys EXCEPT ![u] = @ + 1]
    /\ crossed' = IF SavingFor(u) # {} THEN crossed \cup {u} ELSE crossed
    /\ Set(w, [op |-> "count", user |-> u])
    /\ UNCHANGED <<people, challenge, totp, codes, places, links>>

\* Mutant: codes are made for every passkey but the first.
NotTheFirst(u) == passkeys[u] > 1

FirstPasskey(u) == passkeys[u] = 1

CountPasskeys(w) ==
    LET u == job[w].user IN
    /\ Doing(w, "count")
    /\ IF FirstPasskey(u) THEN Set(w, [op |-> "codes", user |-> u]) ELSE Done(w)
    /\ UNCHANGED <<people, secrets, places, links, crossed>>

ReplaceRecoveryCodes(w) ==
    LET u == job[w].user IN
    /\ Doing(w, "codes")
    /\ codes' = [codes EXCEPT ![u] = [c \in Code |-> "fresh"]]
    /\ Done(w)
    /\ UNCHANGED <<people, challenge, passkeys, totp, places, links, crossed>>

FreshCode(u, c) == codes[u][c] = "fresh"

LoginByRecoveryCode(w, u, c) ==
    /\ Start(w)
    /\ Registered(u)
    /\ FreshCode(u, c)
    /\ codes' = [codes EXCEPT ![u][c] = "used"]
    /\ Grant(w, u, <<"recovery", u, c>>)
    /\ UNCHANGED <<mode, people, challenge, passkeys, totp, places, links, crossed>>

-------------------------------------------------------------------------------
(***************************************************************************)
(* Sessions and devices.                                                   *)
(***************************************************************************)

IssueSession(w) ==
    /\ Doing(w, "issue")
    /\ \E s \in Session :
        /\ session[s] = None
        /\ session' = [session EXCEPT ![s] = [user |-> job[w].user, device |-> None,
                                              state |-> "live", by |-> job[w].by]]
    /\ Done(w)
    /\ UNCHANGED <<people, secrets, device, links, crossed>>

\* Thirty days are over ...
SessionExpires(s) ==
    /\ IsActive(s)
    /\ session' = [session EXCEPT ![s].state = "expired"]
    /\ UNCHANGED <<mode, people, secrets, device, links, job, asked, crossed>>

\* ... or seven without a request.
GoesIdle(s) ==
    /\ IsLive(s)
    /\ session' = [session EXCEPT ![s].state = "idle"]
    /\ UNCHANGED <<mode, people, secrets, device, links, job, asked, crossed>>

\* resolveSession reads a session that is live, and touchSession then writes its
\* last_seen_at, whatever became of it: one that went idle in between is live again.
Resolve(w, s) ==
    /\ Start(w)
    /\ IsLive(s)
    /\ Set(w, [op |-> "touch", session |-> s])
    /\ UNCHANGED <<mode, people, secrets, places, links, crossed>>

Touch(w) ==
    LET s == job[w].session IN
    /\ Doing(w, "touch")
    /\ session' = [session EXCEPT ![s].state = IF @ = "idle" THEN "live" ELSE @]
    /\ Done(w)
    /\ UNCHANGED <<people, secrets, device, links, crossed>>

\* logout and POST /sessions/:id/revoke.
RevokeSession(w, s) ==
    /\ Start(w)
    /\ session[s] # None
    /\ SignedIn(session[s].user)
    /\ session' = [session EXCEPT ![s].state = "revoked"]
    /\ UNCHANGED <<mode, people, secrets, device, links, job, crossed>>

\* POST /devices/register: the device, then the session's device.  POST /mutations
\* registers a device it does not know, before what MutationService models.
BeginDevice(w, s, d, op) ==
    /\ Start(w)
    /\ IsLive(s)
    /\ Set(w, [op |-> op, session |-> s, device |-> d])
    /\ UNCHANGED <<mode, people, secrets, places, links, crossed>>

RegisterDevice(w) ==
    LET u == session[job[w].session].user
        d == job[w].device
    IN
    /\ Doing(w, "register")
    /\ IF Registrable(u, d)
       THEN /\ device' = [device EXCEPT ![d] = [user |-> u, revoked |-> FALSE]]
            /\ Set(w, [job[w] EXCEPT !.op = "look"])
       ELSE Done(w) /\ UNCHANGED device
    /\ UNCHANGED <<people, secrets, session, links, crossed>>

\* attachSessionDevice reads the device without locking it ...
LookAtDevice(w) ==
    /\ Doing(w, "look")
    /\ IF DeviceIsActive(session[job[w].session].user, job[w].device)
       THEN Set(w, [job[w] EXCEPT !.op = "attach"])
       ELSE Done(w)
    /\ UNCHANGED <<people, secrets, places, links, crossed>>

\* ... and writes the session, whatever became of either.
Attach(w) ==
    LET s == job[w].session
        d == job[w].device
    IN
    /\ Doing(w, "attach")
    /\ session' = [session EXCEPT ![s].device = d]
    /\ crossed' = IF device[d].revoked THEN crossed \cup {s} ELSE crossed
    /\ Done(w)
    /\ UNCHANGED <<people, secrets, device, links>>

CheckDevice(w) ==
    LET u == session[job[w].session].user
        d == job[w].device
    IN
    /\ Doing(w, "mutate")
    /\ device' = IF Registrable(u, d)
                 THEN [device EXCEPT ![d] = [user |-> u, revoked |-> FALSE]] ELSE device
    /\ Done(w)
    /\ UNCHANGED <<people, secrets, session, links, crossed>>

\* Mutant: only the device is revoked.
SessionsLeftAlone(d) == session

SessionsOfDevice(d) ==
    [s \in Session |-> IF session[s] # None /\ session[s].device = d
                          /\ session[s].user = device[d].user
                       THEN [session[s] EXCEPT !.state = "revoked"] ELSE session[s]]

RevokeDevice(w, d) ==
    /\ Start(w)
    /\ device[d] # None
    /\ SignedIn(device[d].user)
    /\ device' = [device EXCEPT ![d].revoked = TRUE]
    /\ session' = SessionsOfDevice(d)
    /\ UNCHANGED <<mode, people, secrets, links, job, crossed>>

-------------------------------------------------------------------------------
(***************************************************************************)
(* The link to Discord.                                                    *)
(***************************************************************************)

\* /finance from an account without a link.
CreateLinkToken(k) ==
    /\ token[k] = "none"
    /\ token' = [token EXCEPT ![k] = "open"]
    /\ UNCHANGED <<mode, people, secrets, places, link, job, asked, crossed>>

TokenIsOpen(k) == token[k] = "open"

ConsumeLinkToken(w, u, k) ==
    /\ Start(w)
    /\ SignedIn(u)
    /\ TokenIsOpen(k)
    /\ token' = [token EXCEPT ![k] = "used"]
    /\ Set(w, [op |-> "link", user |-> u, discord |-> k])
    /\ UNCHANGED <<mode, people, secrets, places, link, crossed>>

\* The OAuth callback comes to the same point without a token.
OAuthCallback(w, u, k) ==
    /\ Start(w)
    /\ SignedIn(u)
    /\ Set(w, [op |-> "link", user |-> u, discord |-> k])
    /\ UNCHANGED <<mode, people, secrets, places, links, crossed>>

\* upsertDiscordLink: discord_user_id is unique over all rows, the revoked ones too.
\* Mutant: over the live ones.
HeldByLive(u, k) == \E v \in User \ {u} : link[v] # None /\ link[v].live /\ link[v].discord = k

HeldByOther(u, k) == \E v \in User \ {u} : link[v] # None /\ link[v].discord = k

SaveLink(w) ==
    LET u == job[w].user
        k == job[w].discord
    IN
    /\ Doing(w, "link")
    /\ link' = IF HeldByOther(u, k) THEN link
               ELSE [link EXCEPT ![u] = [discord |-> k, live |-> TRUE]]
    /\ Done(w)
    /\ UNCHANGED <<people, secrets, places, token, crossed>>

RevokeLink(w, u) ==
    /\ Start(w)
    /\ SignedIn(u)
    /\ link[u] # None
    /\ link' = [link EXCEPT ![u].live = FALSE]
    /\ UNCHANGED <<mode, people, secrets, places, token, job, crossed>>

-------------------------------------------------------------------------------

\* The process ends between two transactions of a request.
Crash(w) ==
    /\ job[w] # Idle
    /\ Done(w)
    /\ crossed' = IF job[w].op \in {"count", "codes"} THEN crossed \cup {job[w].user} ELSE crossed
    /\ UNCHANGED <<mode, asked, people, secrets, places, links>>

UserStep(w) ==
    \/ \E u \in User : BeginSetup(w, u) \/ RegisterOpenly(w, u)
    \/ \E u \in User, i \in Invite : RegisterByInvite(w, u, i)
    \/ \E i \in Invite : CreateInvite(w, i)
    \/ FinishSetup(w)

SignInStep(w) ==
    \/ \E u \in User, c \in Challenge :
        \/ \E kind \in {"registration", "totp", "authentication"} : Offer(w, c, u, kind)
        \/ LoginByPassword(w, u, c)
    \/ \E c \in Challenge : ReadChallenge(w, c)
    \/ \E u \in User, c \in Code : LoginByRecoveryCode(w, u, c)
    \/ Consume(w) \/ EnableTotp(w)
    \/ SavePasskey(w) \/ CountPasskeys(w) \/ ReplaceRecoveryCodes(w)
    \/ IssueSession(w)

PlaceStep(w) ==
    \/ \E s \in Session : RevokeSession(w, s) \/ Resolve(w, s)
    \/ \E s \in Session, d \in Device, op \in {"register", "mutate"} : BeginDevice(w, s, d, op)
    \/ \E d \in Device : RevokeDevice(w, d)
    \/ Touch(w) \/ RegisterDevice(w) \/ LookAtDevice(w) \/ Attach(w) \/ CheckDevice(w)

LinkStep(w) ==
    \/ \E u \in User, k \in Discord : ConsumeLinkToken(w, u, k) \/ OAuthCallback(w, u, k)
    \/ \E u \in User : RevokeLink(w, u)
    \/ SaveLink(w)

Next ==
    \/ \E w \in Worker : UserStep(w) \/ SignInStep(w) \/ PlaceStep(w) \/ LinkStep(w) \/ Crash(w)
    \/ \E i \in Invite : RevokeInvite(i)
    \/ \E c \in Challenge : ChallengeExpires(c)
    \/ \E s \in Session : SessionExpires(s) \/ GoesIdle(s)
    \/ \E k \in Discord : CreateLinkToken(k)

Spec == Init /\ [][Next]_vars

-------------------------------------------------------------------------------
(* Properties                                                              *)

\* The rows have the columns of their tables, and belong to users that are registered:
\* a session to the user who was let in, its device to the same user.
TypeOK ==
    /\ mode \in {"closed", "invite", "open"}
    /\ claimed \in BOOLEAN
    /\ user \in [User -> UserRow \cup {None}]
    /\ invite \in [Invite -> {"none", "open", "used", "revoked"}]
    /\ challenge \in [Challenge -> ChallengeRow \cup {None}]
    /\ passkeys \in [User -> 0..MaxPasskeys]
    /\ totp \subseteq User
    /\ codes \in [User -> [Code -> {"none", "fresh", "used"}]]
    /\ session \in [Session -> SessionRow \cup {None}]
    /\ device \in [Device -> DeviceRow \cup {None}]
    /\ token \in [Discord -> {"none", "open", "used"}]
    /\ link \in [User -> LinkRow \cup {None}]
    /\ job \in [Worker -> Job]
    /\ asked \in 0..MaxRequests
    /\ crossed \subseteq Session \cup User
    /\ \A c \in Challenge : challenge[c] # None => Registered(challenge[c].user)
    /\ \A s \in Session : session[s] # None =>
            /\ Registered(session[s].user)
            /\ session[s].device # None => /\ device[session[s].device] # None
                                           /\ device[session[s].device].user = session[s].user
    /\ \A u \in User : link[u] # None => Registered(u)

\* What entitled someone to each session, and to each session that is being issued.
Grants ==
    [s \in {x \in Session : session[x] # None} |-> session[s].by]
GrantsUnderWay ==
    [w \in {v \in Worker : job[v].op = "issue"} |-> job[w].by]

OneTime(by) == by[1] \in {"setup", "invite", "challenge", "recovery"}

\* What may be used once lets one request in: two requests with the same invitation,
\* challenge or recovery code, read by both while it was unused, do not both get a
\* session, the instance has one first user, and an invitation makes one user.
UsedOnce ==
    /\ \A s, t \in DOMAIN Grants : s # t /\ Grants[s] = Grants[t] => ~OneTime(Grants[s])
    /\ \A v, w \in DOMAIN GrantsUnderWay :
        v # w /\ GrantsUnderWay[v] = GrantsUnderWay[w] => ~OneTime(GrantsUnderWay[v])
    /\ \A s \in DOMAIN Grants, w \in DOMAIN GrantsUnderWay :
        Grants[s] = GrantsUnderWay[w] => ~OneTime(Grants[s])
    /\ \A u, v \in User : u # v /\ Registered(u) /\ Registered(v) =>
        user[u].by # user[v].by \/ user[u].by = "open"

\* The sessions of a revoked device are over, also those that were opened or attached
\* in the meantime, and those that are idle and may be touched; the one exception is a
\* session whose attachment had looked at the device before it was revoked.
NoSessionOnRevokedDevice ==
    \A s \in Session :
        IsActive(s) /\ session[s].device # None /\ device[session[s].device].revoked =>
            s \in crossed

\* Who has a passkey has the codes to get in without it, once no registration is under
\* way, unless two first passkeys were registered side by side (each counts two, and
\* makes no codes) or the process ended in between.
PasskeyHasCodes ==
    \A u \in User :
        passkeys[u] > 0 /\ SavingFor(u) = {} /\ u \notin crossed =>
            \A c \in Code : codes[u][c] # "none"

\* What SECURITY.md says of the codes, without those exceptions: with the registration of
\* a passkey a set of them is made.
CodesComeWithPasskey ==
    \A u \in User : passkeys[u] > 0 /\ SavingFor(u) = {} =>
        \A c \in Code : codes[u][c] # "none"

\* A Discord account speaks for one user, whatever order links are made, revoked and
\* made again in.
OneUserPerDiscord ==
    \A u, v \in User :
        u # v /\ link[u] # None /\ link[v] # None => link[u].discord # link[v].discord

\* What was ended stays ended: no request, late as it may be, brings back a revoked
\* device, a revoked or expired session or a used recovery code.  (An idle session may
\* become live again: Touch.)
EndedStays ==
    /\ \A d \in Device : device[d] # None /\ device[d].revoked => device'[d].revoked
    /\ \A s \in Session : session[s] # None /\ ~IsActive(s) =>
            session'[s].state \notin {"live", "idle"}
    /\ \A u \in User, c \in Code : codes[u][c] = "used" => codes'[u][c] # "fresh"

EndedStaysEnded == [][EndedStays]_vars

=============================================================================

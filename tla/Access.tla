------------------------------- MODULE Access -------------------------------
(***************************************************************************)
(* How a browser gets in: registration and login behind the limiters of    *)
(* the replica that answers, the refresh of a session and logout.  The     *)
(* tabs of the browser share one cookie and send requests that overlap;    *)
(* answers arrive in any order or not at all.  A session is a signed token *)
(* that no table keeps; all replicas sign with the same key.               *)
(***************************************************************************)
EXTENDS RateLimiter

CONSTANTS Tabs,        \* the tabs of one browser, with a request each
          Replicas,    \* server processes
          Origins,     \* what a request comes from, as the limiter takes it
          Emails, Passwords,
          AccessTTL, RefreshTTL,
          MaxFaults,   \* bound: failed statements, lost answers, restarts
          MaxSent,     \* bound: requests
          NULL         \* no value

ASSUME TTLAssumption == AccessTTL \in Nat \ {0} /\ RefreshTTL \in Nat \ {0}
Routes == {"register", "login"}  \* the routes with a limiter

ASSUME KeysAssumption == Keys = Replicas \X Routes \X Origins
ASSUME NullAssumption == NULL \notin Passwords
ASSUME BoundsAssumption == MaxFaults \in Nat /\ MaxSent \in Nat

VARIABLES
  users,      \* the table users: email -> password, or NULL
  cookie,     \* the cookie refresh_token: [token, until], or NULL
  access,     \* tab -> the access token it was given last, or NULL
  req,        \* tab -> its request under way, or NULL
  sent,       \* number of requests
  faults,
  restarts,   \* history: replica -> its restarts
  created,    \* history: the <<email, password>> answered 201
  session,    \* history: "in", "out" since a logout, "back" in spite of one
  overtaken   \* history: tabs whose request was under way at that logout

server  == <<users, req>>
browser == <<cookie, access, created, session, overtaken>>
bounds  == <<sent, faults, restarts>>
vars    == <<now, limiter, server, browser, bounds>>

Tokens  == [type : {"access", "refresh"}, sub : Emails, exp : Nat]
Cookies == [token : Tokens, until : Nat]
Kinds   == {"register", "login", "refresh", "logout"}
Reqs    == [kind : Kinds, replica : Replicas,
            email : Emails \cup {NULL}, password : Passwords \cup {NULL},  \* once decoded
            cookie : Cookies \cup {NULL},       \* as the browser sent it
            step : {"sent", "allowed", "issue", "answered"},
            status : {0, 200, 201, 400, 401, 409, 429, 500},
            pair : [access : Tokens, refresh : Tokens] \cup {NULL},
            failed : BOOLEAN]                   \* history: a statement failed

TypeOK ==
  /\ LimiterTypeOK
  /\ users \in [Emails -> Passwords \cup {NULL}]
  /\ cookie \in Cookies \cup {NULL}
  /\ access \in [Tabs -> Tokens \cup {NULL}]
  /\ req \in [Tabs -> Reqs \cup {NULL}]
  /\ sent \in 0 .. MaxSent /\ faults \in 0 .. MaxFaults
  /\ restarts \in [Replicas -> Nat]
  /\ created \subseteq Emails \X Passwords
  /\ session \in {"in", "out", "back"} /\ overtaken \subseteq Tabs
  /\ cookie # NULL => cookie.token.type = "refresh"
  /\ \A t \in Tabs : /\ access[t] # NULL => access[t].type = "access"
                     /\ req[t] # NULL /\ req[t].pair # NULL =>
                          req[t].status \in {200, 201}

Init ==
  /\ LimiterInit
  /\ users = [e \in Emails |-> NULL]
  /\ cookie = NULL
  /\ access = [t \in Tabs |-> NULL]
  /\ req = [t \in Tabs |-> NULL]
  /\ sent = 0 /\ faults = 0 /\ restarts = [r \in Replicas |-> 0]
  /\ created = {} /\ session = "out" /\ overtaken = {}

Tick == /\ now < MaxTime /\ now' = now + 1
        /\ UNCHANGED <<limiter, server, browser, bounds>>
-----------------------------------------------------------------------------
(* parseToken and the check of the type; exp is compared with the clock of
   the replica, so a token is refused from its last second on. *)
Valid(token, type) == token.type = type /\ now < token.exp

\* The browser drops a cookie when its MaxAge is over.
Sends == IF cookie # NULL /\ now < cookie.until THEN cookie ELSE NULL

Send(t, kind, r) ==
  /\ req[t] = NULL
  /\ sent < MaxSent /\ sent' = sent + 1
  /\ req' = [req EXCEPT ![t] =
               [kind |-> kind, replica |-> r, email |-> NULL, password |-> NULL,
                cookie |-> Sends, step |-> "sent", status |-> 0, pair |-> NULL,
                failed |-> FALSE]]
  /\ UNCHANGED <<now, limiter, users, browser, faults, restarts>>

At(t, kinds, step) == req[t] # NULL /\ req[t].kind \in kinds /\ req[t].step = step

Proceed(t, step) == req' = [req EXCEPT ![t].step = step]
ProceedFor(t, e, p) == req' = [req EXCEPT ![t].step = "issue",
                                          ![t].email = e, ![t].password = p]
Answer(t, status) == req' = [req EXCEPT ![t].step = "answered", ![t].status = status]
Failed(t, status) == /\ faults < MaxFaults /\ faults' = faults + 1
                     /\ req' = [req EXCEPT ![t].step = "answered", ![t].status = status,
                                           ![t].failed = TRUE]

(* The key is the header X-Forwarded-For if the request has one, else the
   address and port of its connection: it differs from request to request. *)
Key(t, o) == <<req[t].replica, req[t].kind, o>>

\* Limit: the request is let through to the handler, or answered 429.
Limited(t, o) ==
  /\ At(t, Routes, "sent")
  /\ \/ (OpenWindow(Key(t, o)) \/ CountRequest(Key(t, o))) /\ Proceed(t, "allowed")
     \/ Refuse(Key(t, o)) /\ Answer(t, 429)
  /\ UNCHANGED <<users, browser, bounds>>

\* AuthHandler.Register, Login: the body does not decode, or lacks a field.
BadRequest(t) ==
  /\ At(t, Routes, "allowed")
  /\ Answer(t, 400)
  /\ UNCHANGED <<now, limiter, users, browser, bounds>>

\* Mutant: INSERT ... ON CONFLICT (email) DO UPDATE.
CreateUserAgain(t, e, p) ==
  /\ At(t, {"register"}, "allowed")
  /\ users' = [users EXCEPT ![e] = p]
  /\ ProceedFor(t, e, p)
  /\ UNCHANGED <<now, limiter, browser, bounds>>

\* Register: the INSERT, under the UNIQUE constraint on email.
CreateUser(t, e, p) ==
  /\ At(t, {"register"}, "allowed")
  /\ IF users[e] = NULL
     THEN users' = [users EXCEPT ![e] = p] /\ ProceedFor(t, e, p)
     ELSE Answer(t, 409) /\ UNCHANGED users
  /\ UNCHANGED <<now, limiter, browser, bounds>>

\* Mutant: the error of the INSERT goes unnoticed.
CreateUserFailsUnnoticed(t, e, p, committed) ==
  /\ At(t, {"register"}, "allowed")
  /\ faults < MaxFaults /\ faults' = faults + 1
  /\ ProceedFor(t, e, p)
  /\ UNCHANGED <<now, limiter, users, browser, sent, restarts>>

\* The INSERT fails, or its result is lost after it took effect.
CreateUserFails(t, e, p, committed) ==
  /\ At(t, {"register"}, "allowed")
  /\ committed => users[e] = NULL
  /\ users' = IF committed THEN [users EXCEPT ![e] = p] ELSE users
  /\ Failed(t, 500)
  /\ UNCHANGED <<now, limiter, browser, sent, restarts>>

\* Login: GetUserByEmail and the comparison of the password.
CheckPassword(t, e, p) ==
  /\ At(t, {"login"}, "allowed")
  /\ IF users[e] = p THEN ProceedFor(t, e, p) ELSE Answer(t, 401)
  /\ UNCHANGED <<now, limiter, users, browser, bounds>>

\* Mutant: a refresh token can be used once.
RefreshOnce(t) ==
  /\ At(t, {"refresh"}, "sent")
  /\ IF req[t].cookie # NULL /\ req[t].cookie = cookie /\ Valid(req[t].cookie.token, "refresh")
     THEN Proceed(t, "issue") ELSE Answer(t, 401)
  /\ UNCHANGED <<now, limiter, users, browser, bounds>>

\* RefreshToken: a cookie, a token that is valid, a user that exists.
Refresh(t) ==
  /\ At(t, {"refresh"}, "sent")
  /\ IF req[t].cookie # NULL /\ Valid(req[t].cookie.token, "refresh")
        /\ users[req[t].cookie.token.sub] # NULL
     THEN Proceed(t, "issue") ELSE Answer(t, 401)
  /\ UNCHANGED <<now, limiter, users, browser, bounds>>

\* Both take any error of the database for a stranger.
LookupFails(t) ==
  /\ \/ At(t, {"login"}, "allowed")
     \/ At(t, {"refresh"}, "sent") /\ req[t].cookie # NULL
        /\ Valid(req[t].cookie.token, "refresh")
  /\ Failed(t, 401)
  /\ UNCHANGED <<now, limiter, users, browser, sent, restarts>>

Token(type, sub, ttl) == [type |-> type, sub |-> sub, exp |-> now + ttl]

\* issueTokens.
Issue(t) ==
  LET sub == IF req[t].kind = "refresh" THEN req[t].cookie.token.sub ELSE req[t].email IN
  /\ At(t, Kinds, "issue")
  /\ req' = [req EXCEPT ![t].step = "answered",
                        ![t].status = IF req[t].kind = "register" THEN 201 ELSE 200,
                        ![t].pair = [access  |-> Token("access", sub, AccessTTL),
                                     refresh |-> Token("refresh", sub, RefreshTTL)]]
  /\ UNCHANGED <<now, limiter, users, browser, bounds>>

\* Logout looks at nothing.
Logout(t) ==
  /\ At(t, {"logout"}, "sent")
  /\ Answer(t, 200)
  /\ UNCHANGED <<now, limiter, users, browser, bounds>>

Dies(t, r) == req[t] # NULL /\ req[t].replica = r /\ req[t].step # "answered"

\* A replica stops and starts again; what it had not answered is lost.
Restart(r) ==
  /\ faults < MaxFaults /\ faults' = faults + 1
  /\ restarts' = [restarts EXCEPT ![r] = @ + 1]
  /\ Forget({r} \X Routes \X Origins)
  /\ req' = [t \in Tabs |-> IF Dies(t, r) THEN NULL ELSE req[t]]
  /\ overtaken' = {t \in overtaken : ~ Dies(t, r)}
  /\ UNCHANGED <<users, cookie, access, created, session, sent>>
-----------------------------------------------------------------------------
\* setRefreshCookie: the MaxAge counts from when the browser gets the answer.
Receive(t) ==
  LET pair == req[t].pair IN
  /\ At(t, Kinds, "answered") /\ pair # NULL
  /\ cookie' = [token |-> pair.refresh, until |-> now + RefreshTTL]
  /\ access' = [access EXCEPT ![t] = pair.access]
  /\ created' = IF req[t].status = 201 THEN created \cup {<<req[t].email, req[t].password>>}
                                       ELSE created
  /\ session' = IF session = "out" /\ t \in overtaken THEN "back"
                ELSE IF req[t].kind = "refresh" THEN session ELSE "in"
  /\ overtaken' = overtaken \ {t}
  /\ req' = [req EXCEPT ![t] = NULL]
  /\ UNCHANGED <<now, limiter, users, bounds>>

\* Mutant: an empty cookie is no cookie taken away.
ReceiveLogoutKeeps(t) ==
  /\ At(t, {"logout"}, "answered")
  /\ session' = "out" /\ overtaken' = {x \in Tabs \ {t} : req[x] # NULL}
  /\ req' = [req EXCEPT ![t] = NULL]
  /\ UNCHANGED <<now, limiter, users, cookie, access, created, bounds>>

\* Logout: MaxAge -1 takes the cookie away.
ReceiveLogout(t) ==
  /\ At(t, {"logout"}, "answered")
  /\ cookie' = NULL
  /\ session' = "out" /\ overtaken' = {x \in Tabs \ {t} : req[x] # NULL}
  /\ req' = [req EXCEPT ![t] = NULL]
  /\ UNCHANGED <<now, limiter, users, access, created, bounds>>

End(t) == /\ req' = [req EXCEPT ![t] = NULL]
          /\ overtaken' = overtaken \ {t}

\* writeError: an answer that changes nothing in the browser.
ReceiveError(t) ==
  /\ At(t, Kinds \ {"logout"}, "answered") /\ req[t].pair = NULL
  /\ End(t)
  /\ UNCHANGED <<now, limiter, users, cookie, access, created, session, bounds>>

LoseAnswer(t) ==
  /\ At(t, Kinds, "answered")
  /\ faults < MaxFaults /\ faults' = faults + 1
  /\ End(t)
  /\ UNCHANGED <<now, limiter, users, cookie, access, created, session, sent, restarts>>
-----------------------------------------------------------------------------
Handle(t) == \/ \E o \in Origins : Limited(t, o)
             \/ \E e \in Emails, p \in Passwords :
                  \/ CreateUser(t, e, p) \/ CheckPassword(t, e, p)
                  \/ \E committed \in BOOLEAN : CreateUserFails(t, e, p, committed)
             \/ BadRequest(t) \/ Refresh(t) \/ LookupFails(t) \/ Issue(t) \/ Logout(t)

Next ==
  \/ Tick
  \/ \E r \in Replicas, route \in Routes :
       Cleanup({r} \X {route} \X Origins) /\ UNCHANGED <<server, browser, bounds>>
  \/ \E r \in Replicas : Restart(r)
  \/ \E t \in Tabs :
       \/ \E kind \in Kinds, r \in Replicas : Send(t, kind, r)
       \/ Handle(t)
       \/ Receive(t) \/ ReceiveLogout(t) \/ ReceiveError(t) \/ LoseAnswer(t)

Spec == Init /\ [][Next]_vars
-----------------------------------------------------------------------------
(* "a fixed-window rate limiter" (ratelimit.go:14): whatever the requests
   fall on, on either side of the end of a window and of a cleanup, no stretch
   of time as long as a window sees more than two windows' worth of them with
   one key at one replica, and as many again for each time the replica started
   anew.  It bounds what comes with one X-Forwarded-For or over one connection,
   not what comes from one client. *)
AtMostTwice ==
  \A k \in Keys : \A t \in 0 .. now :
    Cardinality(During(k, t, t + Duration[k])) <= (2 * Limit[k] - 1) * (1 + restarts[k[1]])

(* Nobody is refused without reason: a request is turned away only when its
   own key, and no other, was let through Limit times within the last
   window's length (Allow, Limit). *)
RefusedOnlyWhenFull ==
  [][\A t \in Tabs, o \in Origins :
       Limited(t, o) /\ req'[t].step = "answered" => Full(Key(t, o))]_vars

(* Whoever was told that an account was created signs in with the password
   of that registration ever after, whoever else registers the same email
   meanwhile, with whatever is lost (AuthService.Register). *)
CanSignIn == \A c \in created : users[c[1]] = c[2]

(* Every token under way or in the browser is that of a user in the table,
   the row being there before the first token is (Register). *)
Held == {access[t] : t \in Tabs} \cup {IF cookie = NULL THEN NULL ELSE cookie.token}

Sent == {req[t].pair : t \in {x \in Tabs : req[x] # NULL}}

TokensNameUsers ==
  /\ \A k \in Held \ {NULL} : users[k.sub] # NULL
  /\ \A pair \in Sent \ {NULL} : users[pair.access.sub] # NULL /\ users[pair.refresh.sub] # NULL

(* A session goes on from tab to tab and from replica to replica: a refresh
   is refused only for want of a cookie, because the token has expired, or
   because the database failed, which the answer does not tell apart.  Other
   tabs that refresh with the same cookie, answers that arrive late or are
   lost, and replicas that restart refuse nobody (RefreshToken). *)
RefusedOnlyExpired ==
  \A t \in Tabs :
    At(t, {"refresh"}, "answered") /\ req[t].status = 401 =>
      \/ req[t].failed \/ req[t].cookie = NULL
      \/ req[t].cookie.token.exp <= now

(* After a logout the browser holds no session until it signs in again, but
   for an answer that the logout overtook: that one signs it in once more
   (Logout, setRefreshCookie). *)
LogoutHolds == session = "out" => cookie = NULL
=============================================================================

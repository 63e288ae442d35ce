----------------------------- MODULE AccessProofs -----------------------------
(***************************************************************************)
(* What holds of any number of tabs and replicas, for any limits and       *)
(* lifetimes, about accounts, tokens and sessions, and about the windows   *)
(* of the rate limiters in front of them.                                  *)
(***************************************************************************)
EXTENDS Access, FiniteSetTheorems, TLAPS

\* A request that tokens are about to be issued for has a user.
Entitled(r) ==
  /\ r.kind # "logout" /\ r.pair = NULL
  /\ IF r.kind = "refresh" THEN r.cookie # NULL
     ELSE r.email \in Emails /\ r.password \in Passwords /\ users[r.email] # NULL
  /\ r.kind = "register" => users[r.email] = r.password

\* The tokens in an answer are those of a user, and the answer to a
\* registration is to the one that made the account.
Issued(r) ==
  /\ r.step = "answered"
  /\ r.pair.access.type = "access" /\ users[r.pair.access.sub] # NULL
  /\ r.pair.refresh.type = "refresh" /\ users[r.pair.refresh.sub] # NULL
  /\ r.kind = "refresh" => r.cookie # NULL
  /\ r.status = 201 =>
       r.email \in Emails /\ r.password \in Passwords /\ users[r.email] = r.password
  /\ r.status \in {200, 201}

\* A refresh is turned away for a reason.
Turned(r) ==
  r.step = "answered" /\ r.kind = "refresh" /\ r.status = 401 =>
    r.failed = TRUE \/ r.cookie = NULL \/ r.cookie.token.exp <= now

\* The cookie of a request is that of a user.
Carried(c) == c # NULL => c.token.type = "refresh" /\ users[c.token.sub] # NULL

Grounded(r) ==
  /\ Carried(r.cookie)
  /\ r.step = "issue" => Entitled(r)
  /\ r.pair # NULL => Issued(r)
  /\ Turned(r)

AllGrounded == \A t \in Tabs : req[t] # NULL => Grounded(req[t])

\* The browser holds tokens of users.
HeldNamed ==
  /\ Carried(cookie)
  /\ \A t \in Tabs : access[t] # NULL =>
       access[t].type = "access" /\ users[access[t].sub] # NULL

\* After a logout, what was sent since then was sent without a cookie.
SentWithout ==
  session = "out" =>
    /\ cookie = NULL
    /\ \A t \in Tabs \ overtaken : req[t] # NULL => req[t].cookie = NULL

\* The types that the rest relies on.
Typed ==
  /\ LimiterTypeOK
  /\ users \in [Emails -> Passwords \cup {NULL}]
  /\ cookie \in Cookies \cup {NULL}
  /\ access \in [Tabs -> Tokens \cup {NULL}]
  /\ req \in [Tabs -> Reqs \cup {NULL}]
  /\ sent \in 0 .. MaxSent /\ faults \in 0 .. MaxFaults
  /\ restarts \in [Replicas -> Nat]
  /\ created \subseteq Emails \X Passwords
  /\ session \in {"in", "out", "back"} /\ overtaken \subseteq Tabs

IInv == Typed /\ AllGrounded /\ HeldNamed /\ SentWithout /\ CanSignIn

-----------------------------------------------------------------------------
LEMMA InitIInv == Init => IInv
<1>. SUFFICES ASSUME Init PROVE IInv
  OBVIOUS
<1>1. LimiterTypeOK
  <2>1. now = 0 /\ DOMAIN windows = {} /\ allowed \in [Keys -> Seq(Nat)]
    BY DEF Init, LimiterInit
  <2>. QED  BY <2>1 DEF LimiterTypeOK
<1>. QED
  BY <1>1, BoundsAssumption
  DEF Init, IInv, Typed, AllGrounded, HeldNamed, Carried, SentWithout, CanSignIn

\* The actions of the limiters keep their types (Allow, cleanup).
LEMMA LimiterTypes ==
  ASSUME LimiterTypeOK,
         NEW k \in Keys,
         OpenWindow(k) \/ CountRequest(k) \/ Refuse(k)
  PROVE  LimiterTypeOK'
<1>. USE DEF LimiterTypeOK
<1>1. Duration[k] \in Nat /\ now \in 0 .. now
  BY DurationAssumption
<1>2. now' = now
  BY DEF OpenWindow, CountRequest, Refuse
<1>3. ASSUME NEW w \in Window, SetWindow(k, w), LetThrough(k) PROVE LimiterTypeOK'
  <2>1. /\ DOMAIN windows' \subseteq Keys
        /\ \A q \in DOMAIN windows' : windows'[q] \in Window
    BY <1>3 DEF SetWindow
  <2>2. allowed' \in [Keys -> Seq(Nat)]
    <3>1. Append(allowed[k], now) \in Seq(Nat)  OBVIOUS
    <3>. QED  BY <1>3, <3>1 DEF LetThrough
  <2>. QED  BY <1>2, <2>1, <2>2
<1>4. CASE OpenWindow(k)
  <2>. DEFINE w == [count |-> 1, windowEnd |-> now + Duration[k]]
  <2>1. w \in Window  BY <1>1 DEF Window
  <2>2. SetWindow(k, w) /\ LetThrough(k)  BY <1>4 DEF OpenWindow
  <2>. HIDE DEF w
  <2>. QED  BY <1>3, <2>1, <2>2
<1>5. CASE CountRequest(k)
  <2>. DEFINE w == windows[k]
  <2>2. w \in Window  BY <1>5 DEF CountRequest, Known
  <2>. HIDE DEF w
  <2>3. [w EXCEPT !.count = @ + 1] \in Window  BY <2>2 DEF Window
  <2>1. [windows[k] EXCEPT !.count = @ + 1] \in Window
    BY <2>3 DEF w
  <2>. QED  BY <1>3, <1>5, <2>1 DEF CountRequest
<1>6. CASE Refuse(k)
  BY <1>1, <1>6 DEF Refuse
<1>. QED  BY <1>4, <1>5, <1>6

LEMMA WindowsDropped ==
  ASSUME LimiterTypeOK, NEW keys, Cleanup(keys) \/ Forget(keys)
  PROVE  LimiterTypeOK'
BY DEF LimiterTypeOK, Cleanup, Forget
-----------------------------------------------------------------------------
\* The limiters and the clock aside, an action changes one request, and no
\* user that is in the table (the UNIQUE constraint on email).
UsersKept == \A e \in Emails : users[e] # NULL => users'[e] = users[e]

LEMMA UsersStay ==
  ASSUME IInv, [Next]_vars
  PROVE  UsersKept /\ users' \in [Emails -> Passwords \cup {NULL}]
<1>. USE DEF IInv, Typed, UsersKept
<1>1. CASE users' = users
  BY <1>1
<1>2. ASSUME NEW t \in Tabs, NEW e \in Emails, NEW p \in Passwords,
             CreateUser(t, e, p) \/ \E c \in BOOLEAN : CreateUserFails(t, e, p, c)
      PROVE  UsersKept /\ users' \in [Emails -> Passwords \cup {NULL}]
  <2>1. users' = users \/ (users[e] = NULL /\ users' = [users EXCEPT ![e] = p])
    <3>1. CASE CreateUser(t, e, p)
      BY <3>1 DEF CreateUser
    <3>2. ASSUME NEW c \in BOOLEAN, CreateUserFails(t, e, p, c)
          PROVE  users' = users \/ (users[e] = NULL /\ users' = [users EXCEPT ![e] = p])
      <4>1. /\ c => users[e] = NULL
            /\ users' = IF c THEN [users EXCEPT ![e] = p] ELSE users
        BY <3>2 DEF CreateUserFails
      <4>2. CASE c  BY <4>1, <4>2
      <4>3. CASE ~ c  BY <4>1, <4>3
      <4>. QED  BY <4>2, <4>3
    <3>. QED  BY <1>2, <3>1, <3>2
  <2>. QED  BY <2>1
<1>3. CASE UNCHANGED vars
  BY <1>3 DEF vars, server
<1>4. CASE Next
  <2>. USE DEF server
  <2>1. CASE Tick \/ UNCHANGED <<server, browser, bounds>>
    BY <1>1, <2>1 DEF Tick
  <2>2. CASE \E r \in Replicas : Restart(r)
    BY <1>1, <2>2 DEF Restart
  <2>3. ASSUME NEW t \in Tabs, Handle(t)
        PROVE  \/ users' = users
               \/ \E e \in Emails, p \in Passwords :
                    CreateUser(t, e, p) \/ \E c \in BOOLEAN : CreateUserFails(t, e, p, c)
    BY <2>3 DEF Handle, Limited, BadRequest, CheckPassword, Refresh, LookupFails, Issue, Logout
  <2>4. ASSUME NEW t \in Tabs,
               \/ \E kind \in Kinds, r \in Replicas : Send(t, kind, r)
               \/ Receive(t) \/ ReceiveLogout(t) \/ ReceiveError(t) \/ LoseAnswer(t)
        PROVE  users' = users
    BY <2>4 DEF Send, Receive, ReceiveLogout, ReceiveError, LoseAnswer
  <2>. QED  BY <1>1, <1>2, <1>4, <2>1, <2>2, <2>3, <2>4 DEF Next
<1>. QED  BY <1>3, <1>4

\* A user that is in the table stays there with the same password, and time
\* does not go back, so what is known of a request stays known.
LEMMA GroundedStays ==
  ASSUME NEW r \in Reqs, Typed, UsersKept, now' \in Nat, now' >= now, Grounded(r)
  PROVE  Grounded(r)'
<1>. USE DEF Typed, UsersKept, Reqs, Cookies, Tokens
<1>1. Carried(r.cookie)'
  BY DEF Carried, Grounded
<1>2. (r.step = "issue" => Entitled(r))'
  BY DEF Grounded, Entitled
<1>3. (r.pair # NULL => Issued(r))'
  BY NullAssumption DEF Grounded, Issued
<1>4. Turned(r)'
  BY DEF Grounded, Turned, LimiterTypeOK
<1>. QED  BY <1>1, <1>2, <1>3, <1>4 DEF Grounded
-----------------------------------------------------------------------------
\* A request as a handler leaves it.
Handled(r, step, status, pair, failed) ==
  [kind |-> r.kind, replica |-> r.replica, email |-> r.email, password |-> r.password,
   cookie |-> r.cookie, step |-> step, status |-> status, pair |-> pair, failed |-> failed]

\* writeError, writeJSON and the way to the next statement change the step and
\* the status of a request and nothing else.
LEMMA HandledProceeds ==
  ASSUME NEW t \in Tabs, req \in [Tabs -> Reqs \cup {NULL}], req[t] \in Reqs,
         NEW step, Proceed(t, step)
  PROVE  LET r == req[t]
         IN  req' = [req EXCEPT ![t] = Handled(r, step, r.status, r.pair, r.failed)]
<1>. DEFINE r == req[t]
<1>1. [r EXCEPT !.step = step] = Handled(r, step, r.status, r.pair, r.failed)
  BY DEF Reqs, Handled
<1>2. req' = [req EXCEPT ![t] = [r EXCEPT !.step = step]]
  BY DEF Proceed
<1>. QED  BY <1>1, <1>2

\* The fields of the body come in with the step.
LEMMA DecodedProceeds ==
  ASSUME NEW t \in Tabs, req \in [Tabs -> Reqs \cup {NULL}], NEW r \in Reqs, r = req[t],
         NEW e \in Emails, NEW p \in Passwords, ProceedFor(t, e, p)
  PROVE  \E n \in Reqs : /\ req' = [req EXCEPT ![t] = n]
                         /\ n.kind = r.kind /\ n.email = e /\ n.password = p
                         /\ n.cookie = r.cookie /\ n.pair = r.pair /\ n.step = "issue"
<1>. DEFINE n == [kind |-> r.kind, replica |-> r.replica, email |-> e, password |-> p,
                  cookie |-> r.cookie, step |-> "issue", status |-> r.status,
                  pair |-> r.pair, failed |-> r.failed]
            q == Handled(r, "issue", r.status, r.pair, r.failed)
            m == [q EXCEPT !.email = e]
<1>1. [r EXCEPT !.step = "issue"] = q
  BY DEF Reqs, Handled
<1>2. [m EXCEPT !.password = p] = n
  <2>1. m = [kind |-> r.kind, replica |-> r.replica, email |-> e, password |-> r.password,
             cookie |-> r.cookie, step |-> "issue", status |-> r.status,
             pair |-> r.pair, failed |-> r.failed]
    BY DEF Handled
  <2>. HIDE DEF m
  <2>. QED  BY <2>1
<1>3. req' = [[[req EXCEPT ![t] = q] EXCEPT ![t] = m] EXCEPT ![t] = [m EXCEPT !.password = p]]
  <2>. HIDE DEF q, m
  <2>1. req' = [[[req EXCEPT ![t].step = "issue"] EXCEPT ![t].email = e]
                  EXCEPT ![t].password = p]
    BY DEF ProceedFor
  <2>2. [req EXCEPT ![t].step = "issue"] = [req EXCEPT ![t] = q]
    BY <1>1
  <2>3. [[req EXCEPT ![t] = q] EXCEPT ![t].email = e] = [[req EXCEPT ![t] = q] EXCEPT ![t] = m]
    BY DEF m
  <2>. QED  BY <2>1, <2>2, <2>3
<1>4. n \in Reqs
  BY DEF Reqs
<1>5. /\ n.kind = r.kind /\ n.email = e /\ n.password = p
      /\ n.cookie = r.cookie /\ n.pair = r.pair /\ n.step = "issue"
  OBVIOUS
<1>. HIDE DEF n, m, q
<1>6. req' = [req EXCEPT ![t] = n]
  BY <1>2, <1>3
<1>. QED  BY <1>4, <1>5, <1>6

LEMMA HandledAnswers ==
  ASSUME NEW t \in Tabs, req \in [Tabs -> Reqs \cup {NULL}], req[t] \in Reqs,
         NEW status, Answer(t, status)
  PROVE  LET r == req[t]
         IN  req' = [req EXCEPT ![t] = Handled(r, "answered", status, r.pair, r.failed)]
<1>. DEFINE r == req[t]
            q == [r EXCEPT !.step = "answered"]
<1>1. q = Handled(r, "answered", r.status, r.pair, r.failed)
  BY DEF Reqs, Handled
<1>2. [q EXCEPT !.status = status] = Handled(r, "answered", status, r.pair, r.failed)
  <2>. HIDE DEF q
  <2>. QED  BY <1>1 DEF Handled
<1>3. req' = [[req EXCEPT ![t] = q] EXCEPT ![t] = [q EXCEPT !.status = status]]
  BY DEF Answer
<1>. HIDE DEF q
<1>. QED  BY <1>2, <1>3

LEMMA HandledFails ==
  ASSUME NEW t \in Tabs, req \in [Tabs -> Reqs \cup {NULL}], req[t] \in Reqs,
         NEW status \in {401, 500}, Failed(t, status)
  PROVE  \E n \in Reqs : /\ req' = [req EXCEPT ![t] = n]
                         /\ n.cookie = req[t].cookie /\ n.pair = req[t].pair
                         /\ n.step = "answered" /\ Turned(n)'
<1>. DEFINE r == req[t]
            q == [r EXCEPT !.step = "answered"]
            p == [q EXCEPT !.status = status]
<1>1. q = Handled(r, "answered", r.status, r.pair, r.failed)
  BY DEF Reqs, Handled
<1>2. p = Handled(r, "answered", status, r.pair, r.failed)
  <2>. HIDE DEF q
  <2>. QED  BY <1>1 DEF Handled
<1>3. [p EXCEPT !.failed = TRUE] = Handled(r, "answered", status, r.pair, TRUE)
  <2>1. ASSUME NEW f
        PROVE  [p EXCEPT !.failed = f] = Handled(r, "answered", status, r.pair, f)
    <3>. HIDE DEF p, q
    <3>. QED  BY <1>2 DEF Handled
  <2>. QED  BY <2>1, Zenon
<1>4. req' = [[[req EXCEPT ![t] = q] EXCEPT ![t] = p] EXCEPT ![t] = [p EXCEPT !.failed = TRUE]]
  BY DEF Failed
<1>5. /\ Handled(r, "answered", status, r.pair, TRUE) \in Reqs
      /\ Handled(r, "answered", status, r.pair, TRUE).cookie = r.cookie
      /\ Handled(r, "answered", status, r.pair, TRUE).pair = r.pair
      /\ Handled(r, "answered", status, r.pair, TRUE).step = "answered"
      /\ Handled(r, "answered", status, r.pair, TRUE).failed = TRUE
  BY DEF Handled, Reqs
<1>. DEFINE n == [p EXCEPT !.failed = TRUE]
<1>6. /\ n \in Reqs /\ n.cookie = r.cookie /\ n.pair = r.pair
      /\ n.step = "answered" /\ n.failed = TRUE
  BY <1>3, <1>5, Zenon
<1>7. req' = [req EXCEPT ![t] = n]
  <2>. HIDE DEF p, q, n
  <2>. QED  BY <1>4 DEF n
<1>. HIDE DEF n
<1>. PICK answer \in Reqs : answer = n
  BY <1>6
<1>8. Turned(answer)'
  BY <1>6 DEF Turned
<1>. QED  BY <1>6, <1>7, <1>8

\* What has to be shown of an action that changes one request.
LEMMA RequestStep ==
  ASSUME IInv, UsersKept, now' \in Nat, now' >= now,
         NEW t \in Tabs, NEW n \in Reqs \cup {NULL},
         req' = [req EXCEPT ![t] = n],
         n # NULL => Grounded(n)'
  PROVE  req' \in [Tabs -> Reqs \cup {NULL}] /\ AllGrounded'
<1>1. req' \in [Tabs -> Reqs \cup {NULL}]
  BY DEF IInv, Typed
<1>2. ASSUME NEW x \in Tabs, NEW r, r = req'[x], r # NULL PROVE Grounded(r)'
  <2>1. CASE x = t
    <3>1. r = n
      BY <1>2, <2>1 DEF IInv, Typed
    <3>. QED  BY <1>2, <3>1
  <2>2. CASE x # t
    <3>1. r = req[x] /\ r \in Reqs /\ Grounded(r)
      BY <1>2, <2>2 DEF IInv, Typed, AllGrounded
    <3>. QED  BY <3>1, GroundedStays DEF IInv
  <2>. QED  BY <2>1, <2>2
<1>. QED  BY <1>1, <1>2 DEF AllGrounded
-----------------------------------------------------------------------------
\* Before it is answered a request has no tokens.
LEMMA NoPairYet ==
  ASSUME NEW r \in Reqs, Grounded(r), r.step # "answered"
  PROVE  r.pair = NULL
BY DEF Grounded, Issued

LEMMA HandledGrounded ==
  ASSUME NEW r \in Reqs, NEW n \in Reqs, Typed, UsersKept,
         Grounded(r), r.pair = NULL, n.pair = NULL, n.cookie = r.cookie,
         n.step = "issue" => Entitled(n)', Turned(n)'
  PROVE  Grounded(n)'
<1>1. Carried(n.cookie)'
  BY DEF Grounded, Carried, Typed, UsersKept, Reqs, Cookies, Tokens
<1>. QED  BY <1>1 DEF Grounded

\* issueTokens: the answer holds the tokens of the user.
LEMMA IssueStep ==
  ASSUME IInv, NEW t \in Tabs, req[t] \in Reqs, Issue(t)
  PROVE  \E n \in Reqs : /\ req' = [req EXCEPT ![t] = n]
                         /\ n.cookie = req[t].cookie
                         /\ Grounded(n)'
<1>. DEFINE r == req[t]
            sub == IF r.kind = "refresh" THEN r.cookie.token.sub ELSE r.email
            status == IF r.kind = "register" THEN 201 ELSE 200
            pair == [access  |-> Token("access", sub, AccessTTL),
                     refresh |-> Token("refresh", sub, RefreshTTL)]
            answered == Handled(r, "answered", status, pair, r.failed)
<1>1. /\ r.step = "issue" /\ req[t] # NULL /\ now' = now /\ users' = users
      /\ r.kind \in Kinds
  BY DEF Issue, At, server, limiter
<1>2. Grounded(r) /\ Entitled(r)
  BY <1>1 DEF IInv, AllGrounded, Grounded
<1>3. sub \in Emails /\ users[sub] # NULL
  <2>1. CASE r.kind = "refresh"
    BY <1>2, <2>1 DEF Grounded, Entitled, Carried, Reqs, Cookies, Tokens
  <2>2. CASE r.kind # "refresh"
    BY <1>2, <2>2 DEF Entitled
  <2>. QED  BY <2>1, <2>2
<1>4. /\ pair.access.type = "access" /\ pair.access.sub = sub
      /\ pair.refresh.type = "refresh" /\ pair.refresh.sub = sub
      /\ pair \in [access : Tokens, refresh : Tokens]
  BY <1>3, TTLAssumption DEF Token, Tokens, IInv, Typed, LimiterTypeOK
<1>5. req' = [req EXCEPT ![t] = answered]
  <2>. DEFINE q == [r EXCEPT !.step = "answered"]
              p == [q EXCEPT !.status = status]
  <2>. HIDE DEF sub, status, pair
  <2>1. q = Handled(r, "answered", r.status, r.pair, r.failed)
    BY DEF Reqs, Handled
  <2>2. p = Handled(r, "answered", status, r.pair, r.failed)
    <3>. HIDE DEF q
    <3>. QED  BY <2>1 DEF Handled
  <2>3. [p EXCEPT !.pair = pair] = answered
    <3>. HIDE DEF p, q
    <3>. QED  BY <2>2 DEF Handled
  <2>4. req' = [[[req EXCEPT ![t] = q] EXCEPT ![t] = p] EXCEPT ![t] = [p EXCEPT !.pair = pair]]
    BY DEF Issue, sub, status, pair
  <2>. HIDE DEF p, q, answered
  <2>. QED  BY <2>3, <2>4
<1>. HIDE DEF sub, pair
<1>6. answered \in Reqs
  <2>1. r.failed \in BOOLEAN /\ status \in {0, 200, 201, 400, 401, 409, 429, 500}
    BY DEF Reqs
  <2>. HIDE DEF status
  <2>3. pair \in [access : Tokens, refresh : Tokens] \cup {NULL}
    BY <1>4
  <2>. HIDE DEF pair
  <2>. QED  BY <2>1, <2>3 DEF Handled, Reqs
<1>7. /\ answered.kind = r.kind /\ answered.email = r.email /\ answered.password = r.password
      /\ answered.cookie = r.cookie /\ answered.step = "answered"
      /\ answered.status = status /\ answered.pair = pair
  BY DEF Handled
<1>. HIDE DEF answered
<1>. PICK n \in Reqs : n = answered
  BY <1>6
<1>8. Grounded(n)'
  <2>1. Carried(n.cookie)'
    BY <1>1, <1>2, <1>7 DEF Grounded, Carried
  <2>2. Issued(n)'
    BY <1>1, <1>2, <1>3, <1>4, <1>7 DEF Issued, Entitled
  <2>3. Turned(n)' /\ (n.step = "issue" => Entitled(n))'
    BY <1>7 DEF Turned
  <2>. QED  BY <2>1, <2>2, <2>3 DEF Grounded
<1>. QED  BY <1>5, <1>7, <1>8
-----------------------------------------------------------------------------
\* A step of a handler leaves a request that is grounded, with its cookie.
LEMMA HandleStep ==
  ASSUME IInv, UsersKept, NEW t \in Tabs, Handle(t)
  PROVE  req[t] # NULL /\ \E n \in Reqs : /\ req' = [req EXCEPT ![t] = n]
                                          /\ n.cookie = req[t].cookie
                                          /\ Grounded(n)'
<1>1. req[t] # NULL /\ req[t] \in Reqs
  BY DEF IInv, Typed, Handle, Limited, BadRequest, CreateUser, CheckPassword, Refresh,
         LookupFails, Issue, Logout, CreateUserFails, At
<1>. DEFINE Goal == \E n \in Reqs : /\ req' = [req EXCEPT ![t] = n]
                                    /\ n.cookie = req[t].cookie
                                    /\ Grounded(n)'
<1>. SUFFICES Goal
  BY <1>1
<1>. HIDE DEF Goal
<1>. PICK r \in Reqs : r = req[t]
  BY <1>1
<1>2. Typed /\ Grounded(r) /\ users \in [Emails -> Passwords \cup {NULL}]
  BY <1>1 DEF IInv, Typed, AllGrounded
<1>3. r.status \in {0, 200, 201, 400, 401, 409, 429, 500} /\ r.failed \in BOOLEAN
  BY DEF Reqs
<1>4. CASE Issue(t)
  BY <1>1, <1>4, IssueStep DEF Goal
<1>5. ASSUME now' = now, r.step # "answered",
             NEW step \in {"allowed", "issue"}, Proceed(t, step),
             step = "issue" => Entitled(r)'
      PROVE  Goal
  <2>. DEFINE n == Handled(r, step, r.status, r.pair, r.failed)
  <2>1. req' = [req EXCEPT ![t] = n]
    BY <1>1, <1>5, HandledProceeds DEF IInv, Typed
  <2>2. r.pair = NULL
    BY <1>2, <1>5, NoPairYet
  <2>3. n \in Reqs
    BY <1>5 DEF Handled, Reqs
  <2>4. /\ n.kind = r.kind /\ n.email = r.email /\ n.password = r.password
        /\ n.cookie = r.cookie /\ n.pair = r.pair /\ n.step = step
    BY DEF Handled
  <2>. HIDE DEF n
  <2>5. (n.step = "issue" => Entitled(n))' /\ Turned(n)'
    BY <1>5, <2>4 DEF Entitled, Turned
  <2>6. Grounded(n)'
    BY <1>2, <2>2, <2>3, <2>4, <2>5, HandledGrounded
  <2>. QED  BY <2>1, <2>3, <2>4, <2>6 DEF Goal
<1>6. ASSUME r.step # "answered", NEW status \in {200, 400, 401, 409, 429, 500},
             \/ Answer(t, status) /\ (r.kind = "refresh" /\ status = 401 =>
                                        r.cookie = NULL \/ r.cookie.token.exp <= now')
             \/ Failed(t, status) /\ status \in {401, 500}
      PROVE  Goal
  <2>1. r.pair = NULL
    BY <1>2, <1>6, NoPairYet
  <2>2. ASSUME NEW n \in Reqs, req' = [req EXCEPT ![t] = n],
               n.cookie = r.cookie, n.pair = r.pair, n.step = "answered", Turned(n)'
        PROVE  Goal
    <3>1. Grounded(n)'
      BY <1>2, <2>1, <2>2, HandledGrounded
    <3>. QED  BY <2>2, <3>1 DEF Goal
  <2>3. CASE Answer(t, status) /\ (r.kind = "refresh" /\ status = 401 =>
                                     r.cookie = NULL \/ r.cookie.token.exp <= now')
    <3>. DEFINE n == Handled(r, "answered", status, r.pair, r.failed)
    <3>1. req' = [req EXCEPT ![t] = n]
      BY <1>1, <2>3, HandledAnswers DEF IInv, Typed
    <3>2. n \in Reqs
      BY <1>3 DEF Handled, Reqs
    <3>3. /\ n.kind = r.kind /\ n.cookie = r.cookie /\ n.pair = r.pair
          /\ n.step = "answered" /\ n.status = status
      BY DEF Handled
    <3>. HIDE DEF n
    <3>4. Turned(n)'
      BY <2>3, <3>3 DEF Turned
    <3>. QED  BY <2>2, <3>1, <3>2, <3>3, <3>4
  <2>4. CASE Failed(t, status) /\ status \in {401, 500}
    <3>1. PICK n \in Reqs : /\ req' = [req EXCEPT ![t] = n]
                           /\ n.cookie = req[t].cookie /\ n.pair = req[t].pair
                           /\ n.step = "answered" /\ Turned(n)'
      BY <1>1, <2>4, HandledFails DEF IInv, Typed
    <3>. QED  BY <2>2, <3>1
  <2>. QED  BY <1>6, <2>3, <2>4
<1>7. CASE \E o \in Origins : Limited(t, o)
  <2>1. r.step = "sent" /\ r.kind \in Routes
    BY <1>1, <1>7 DEF Limited, At
  <2>2. now' = now
    BY <1>7 DEF Limited, OpenWindow, CountRequest, Refuse
  <2>3. Proceed(t, "allowed") \/ Answer(t, 429)
    BY <1>7 DEF Limited
  <2>. QED  BY <1>5, <1>6, <2>1, <2>2, <2>3 DEF Routes
<1>8. CASE BadRequest(t)
  <2>1. r.step = "allowed" /\ r.kind # "refresh" /\ Answer(t, 400)
    BY <1>1, <1>8 DEF BadRequest, At, Routes
  <2>. QED  BY <1>6, <2>1
<1>15. ASSUME now' = now, r.step = "allowed", r.kind \in Routes,
              NEW e \in Emails, NEW p \in Passwords, ProceedFor(t, e, p),
              users'[e] = p, p # NULL
       PROVE  Goal
  <2>1. PICK n \in Reqs : /\ req' = [req EXCEPT ![t] = n]
                         /\ n.kind = r.kind /\ n.email = e /\ n.password = p
                         /\ n.cookie = r.cookie /\ n.pair = r.pair /\ n.step = "issue"
    BY <1>1, <1>15, DecodedProceeds DEF IInv, Typed
  <2>2. r.pair = NULL
    BY <1>2, <1>15, NoPairYet
  <2>3. (n.step = "issue" => Entitled(n))' /\ Turned(n)'
    BY <1>15, <2>1, <2>2 DEF Entitled, Turned, Routes
  <2>4. Grounded(n)'
    BY <1>2, <2>1, <2>2, <2>3, HandledGrounded
  <2>. QED  BY <2>1, <2>4 DEF Goal
<1>9. ASSUME NEW e \in Emails, NEW p \in Passwords, CreateUser(t, e, p)
      PROVE  Goal
  <2>1. r.step = "allowed" /\ r.kind = "register" /\ now' = now
    BY <1>1, <1>9 DEF CreateUser, At, limiter
  <2>2. CASE Answer(t, 409)
    BY <1>6, <2>1, <2>2
  <2>3. CASE users' = [users EXCEPT ![e] = p] /\ ProceedFor(t, e, p)
    <3>1. users'[e] = p /\ p # NULL
      BY <1>2, <2>3, NullAssumption
    <3>. QED  BY <1>15, <2>1, <2>3, <3>1 DEF Routes
  <2>. QED  BY <1>9, <2>2, <2>3 DEF CreateUser
<1>10. ASSUME NEW e \in Emails, NEW p \in Passwords, NEW committed \in BOOLEAN,
              CreateUserFails(t, e, p, committed)
       PROVE  Goal
  <2>1. r.step = "allowed" /\ Failed(t, 500)
    BY <1>1, <1>10 DEF CreateUserFails, At
  <2>. QED  BY <1>6, <2>1
<1>11. ASSUME NEW e \in Emails, NEW p \in Passwords, CheckPassword(t, e, p)
       PROVE  Goal
  <2>1. r.step = "allowed" /\ r.kind = "login" /\ now' = now /\ users' = users
    BY <1>1, <1>11 DEF CheckPassword, At, limiter
  <2>2. CASE Answer(t, 401)
    BY <1>6, <2>1, <2>2
  <2>3. CASE users[e] = p /\ ProceedFor(t, e, p)
    <3>1. users'[e] = p /\ p # NULL
      BY <2>1, <2>3, NullAssumption
    <3>. QED  BY <1>15, <2>1, <2>3, <3>1 DEF Routes
  <2>. QED  BY <1>11, <2>2, <2>3 DEF CheckPassword
<1>12. CASE Refresh(t)
  <2>1. r.step = "sent" /\ r.kind = "refresh" /\ now' = now /\ users' = users
    BY <1>12 DEF Refresh, At, limiter
  <2>2. CASE r.cookie # NULL /\ Proceed(t, "issue")
    <3>1. r.pair = NULL
      BY <1>2, <2>1, NoPairYet
    <3>2. Entitled(r)'
      BY <2>1, <2>2, <3>1 DEF Entitled
    <3>. QED  BY <1>5, <2>1, <2>2, <3>2
  <2>3. CASE ~ (/\ r.cookie # NULL /\ Valid(r.cookie.token, "refresh")
                /\ users[r.cookie.token.sub] # NULL) /\ Answer(t, 401)
    <3>1. ASSUME r.cookie # NULL PROVE r.cookie.token.exp <= now
      <4>1. r.cookie.token \in Tokens
        BY <3>1 DEF Reqs, Cookies
      <4>2. r.cookie.token.exp \in Nat /\ now \in Nat
        BY <1>2, <4>1 DEF Tokens, Typed, LimiterTypeOK
      <4>. QED  BY <1>2, <2>3, <3>1, <4>2 DEF Valid, Grounded, Carried
    <3>. QED  BY <1>6, <2>1, <2>3, <3>1
  <2>. QED  BY <1>12, <2>2, <2>3 DEF Refresh
<1>13. CASE LookupFails(t)
  <2>1. r.step # "answered" /\ Failed(t, 401)
    BY <1>13 DEF LookupFails, At
  <2>. QED  BY <1>6, <2>1
<1>14. CASE Logout(t)
  <2>1. r.step = "sent" /\ r.kind = "logout" /\ Answer(t, 200)
    BY <1>14 DEF Logout, At
  <2>. QED  BY <1>6, <2>1
<1>. QED
  BY <1>4, <1>7, <1>8, <1>9, <1>10, <1>11, <1>12, <1>13, <1>14 DEF Handle
-----------------------------------------------------------------------------
\* The parts of the invariant that an action leaves to its frame.
LEMMA HeldStays ==
  ASSUME IInv, UsersKept, cookie' = cookie, access' = access
  PROVE  HeldNamed'
BY DEF IInv, Typed, HeldNamed, Carried, UsersKept, Cookies, Tokens

LEMMA CreatedStay ==
  ASSUME IInv, UsersKept, created' = created
  PROVE  CanSignIn'
<1>. SUFFICES ASSUME NEW c \in created PROVE users'[c[1]] = c[2]
  BY DEF CanSignIn
<1>1. c[1] \in Emails /\ c[2] \in Passwords /\ users[c[1]] = c[2]
  BY DEF IInv, Typed, CanSignIn
<1>. QED  BY <1>1, NullAssumption DEF UsersKept

\* What the limiters do in front of a handler, and what a handler leaves alone.
LEMMA HandleFrame ==
  ASSUME IInv, NEW t \in Tabs, Handle(t)
  PROVE  /\ LimiterTypeOK' /\ now' = now
         /\ UNCHANGED browser
         /\ sent' \in 0 .. MaxSent /\ faults' \in 0 .. MaxFaults
         /\ restarts' \in [Replicas -> Nat]
<1>. USE DEF IInv, Typed, bounds
<1>1. ASSUME NEW o \in Origins, Limited(t, o)
      PROVE  /\ LimiterTypeOK' /\ now' = now
             /\ UNCHANGED browser
             /\ sent' \in 0 .. MaxSent /\ faults' \in 0 .. MaxFaults
             /\ restarts' \in [Replicas -> Nat]
  <2>1. req[t] \in Reqs /\ req[t].kind \in Routes
    BY <1>1 DEF Limited, At
  <2>2. req[t].replica \in Replicas
    BY <2>1 DEF Reqs
  <2>3. Key(t, o) \in Keys
    BY <2>1, <2>2, KeysAssumption DEF Key
  <2>4. OpenWindow(Key(t, o)) \/ CountRequest(Key(t, o)) \/ Refuse(Key(t, o))
    BY <1>1 DEF Limited
  <2>5. LimiterTypeOK'
    BY <2>3, <2>4, LimiterTypes
  <2>6. now' = now
    BY <2>4 DEF OpenWindow, CountRequest, Refuse
  <2>. QED  BY <1>1, <2>5, <2>6 DEF Limited
<1>2. ASSUME now' = now, UNCHANGED limiter PROVE LimiterTypeOK'
  BY <1>2 DEF limiter, LimiterTypeOK
<1>3. CASE \/ BadRequest(t) \/ Refresh(t) \/ Issue(t) \/ Logout(t)
           \/ \E e \in Emails, p \in Passwords : CreateUser(t, e, p) \/ CheckPassword(t, e, p)
  BY <1>2, <1>3 DEF BadRequest, CreateUser, CheckPassword, Refresh, Issue, Logout
<1>4. CASE \/ LookupFails(t)
           \/ \E e \in Emails, p \in Passwords, committed \in BOOLEAN :
                CreateUserFails(t, e, p, committed)
  <2>1. /\ now' = now /\ UNCHANGED limiter /\ UNCHANGED browser
        /\ sent' = sent /\ restarts' = restarts
        /\ faults < MaxFaults /\ faults' = faults + 1
    BY <1>4 DEF LookupFails, CreateUserFails, Failed
  <2>2. faults' \in 0 .. MaxFaults
    BY <2>1, BoundsAssumption
  <2>. QED  BY <1>2, <2>1, <2>2
<1>. QED  BY <1>1, <1>3, <1>4 DEF Handle

\* An answer that reaches the browser or is lost: the request is over.
LEMMA RequestEnds ==
  ASSUME IInv, UsersKept, now' = now, NEW t \in Tabs, req' = [req EXCEPT ![t] = NULL]
  PROVE  req' \in [Tabs -> Reqs \cup {NULL}] /\ AllGrounded'
<1>1. now' \in Nat /\ now' >= now
  BY DEF IInv, Typed, LimiterTypeOK
<1>. QED  BY <1>1, RequestStep

LEMMA IInvStep == IInv /\ [Next]_vars => IInv'
<1>. SUFFICES ASSUME IInv, [Next]_vars PROVE IInv'
  OBVIOUS
<1>1. UsersKept /\ users' \in [Emails -> Passwords \cup {NULL}]
  BY UsersStay
<1>2. /\ now \in Nat /\ sent \in Nat /\ faults \in Nat
      /\ req \in [Tabs -> Reqs \cup {NULL}]
  BY DEF IInv, Typed, LimiterTypeOK
<1>3. ASSUME NEW t \in Tabs, req[t] # NULL
      PROVE  req[t] \in Reqs /\ Grounded(req[t])
  BY <1>3 DEF IInv, Typed, AllGrounded
<1>4. ASSUME now' \in Nat, now' >= now, req' = req PROVE AllGrounded'
  <2>1. ASSUME NEW t \in Tabs, NEW r, r = req[t], r # NULL PROVE Grounded(r)'
    BY <1>1, <1>3, <1>4, <2>1, GroundedStays DEF IInv
  <2>. QED  BY <1>4, <2>1 DEF AllGrounded
<1>5. ASSUME UNCHANGED <<now, limiter>> PROVE LimiterTypeOK'
  BY <1>5 DEF IInv, Typed, limiter, LimiterTypeOK
<1>6. ASSUME faults < MaxFaults, faults' = faults + 1 PROVE faults' \in 0 .. MaxFaults
  BY <1>2, <1>6, BoundsAssumption
<1>7. CASE UNCHANGED vars
  BY <1>1, <1>2, <1>4, <1>5, <1>7, HeldStays, CreatedStay
  DEF IInv, Typed, SentWithout, vars, server, browser, bounds
<1>8. CASE Tick
  <2>1. LimiterTypeOK'
    BY <1>2, <1>8 DEF Tick, limiter, IInv, Typed, LimiterTypeOK
  <2>2. /\ now' \in Nat /\ now' >= now /\ users' = users /\ req' = req
        /\ UNCHANGED browser /\ UNCHANGED bounds
    BY <1>2, <1>8 DEF Tick, server
  <2>. QED  BY <1>1, <1>2, <1>4, <2>1, <2>2, HeldStays, CreatedStay
            DEF IInv, Typed, SentWithout, browser, bounds
<1>9. ASSUME NEW keys, Cleanup(keys), UNCHANGED <<server, browser, bounds>>
      PROVE  IInv'
  <2>1. LimiterTypeOK' /\ now' = now
    BY <1>9, WindowsDropped DEF IInv, Typed, Cleanup
  <2>2. users' = users /\ req' = req /\ UNCHANGED browser /\ UNCHANGED bounds
    BY <1>9 DEF server
  <2>. QED  BY <1>1, <1>2, <1>4, <2>1, <2>2, HeldStays, CreatedStay
            DEF IInv, Typed, SentWithout, browser, bounds
<1>10. ASSUME NEW r \in Replicas, Restart(r) PROVE IInv'
  <2>1. LimiterTypeOK' /\ now' = now
    BY <1>10, WindowsDropped DEF IInv, Typed, Restart, Forget
  <2>2. /\ \A t \in Tabs : req'[t] = NULL \/ (req'[t] = req[t] /\ ~ Dies(t, r))
        /\ \A t \in Tabs : req'[t] = req[t] \/ req'[t] = NULL
        /\ req' \in [Tabs -> Reqs \cup {NULL}]
    BY <1>2, <1>10 DEF Restart
  <2>3. AllGrounded'
    <3>1. ASSUME NEW t \in Tabs, NEW q, q = req'[t], q # NULL PROVE Grounded(q)'
      <4>1. q = req[t] /\ now' >= now
        BY <1>2, <2>1, <2>2, <3>1
      <4>. QED  BY <1>1, <1>2, <1>3, <2>1, <3>1, <4>1, GroundedStays DEF IInv
    <3>. QED  BY <3>1 DEF AllGrounded
  <2>4. /\ UNCHANGED <<cookie, access, created, session, sent>>
        /\ faults' \in 0 .. MaxFaults /\ restarts' \in [Replicas -> Nat]
        /\ overtaken' = {t \in overtaken : ~ Dies(t, r)}
    BY <1>6, <1>10 DEF Restart, IInv, Typed
  <2>5. SentWithout'
    BY <2>2, <2>4, <1>10 DEF IInv, SentWithout, Restart
  <2>. QED  BY <1>1, <2>1, <2>2, <2>3, <2>4, <2>5, HeldStays, CreatedStay DEF IInv, Typed
<1>11. ASSUME NEW t \in Tabs, NEW kind \in Kinds, NEW r \in Replicas, Send(t, kind, r)
       PROVE  IInv'
  <2>. DEFINE q == [kind |-> kind, replica |-> r, email |-> NULL, password |-> NULL,
                    cookie |-> Sends, step |-> "sent", status |-> 0, pair |-> NULL,
                    failed |-> FALSE]
  <2>1. /\ req' = [req EXCEPT ![t] = q] /\ now' = now /\ UNCHANGED limiter
        /\ UNCHANGED browser /\ UNCHANGED <<faults, restarts>>
        /\ sent' \in 0 .. MaxSent
    BY <1>2, <1>11, BoundsAssumption DEF Send
  <2>2. Sends \in Cookies \cup {NULL} /\ Carried(Sends) /\ (cookie = NULL => Sends = NULL)
    BY DEF Sends, IInv, Typed, HeldNamed, Carried
  <2>3. q \in Reqs
    BY <2>2 DEF Reqs
  <2>4. q.cookie = Sends /\ q.step = "sent" /\ q.pair = NULL
    OBVIOUS
  <2>. HIDE DEF q
  <2>. PICK n \in Reqs : n = q
    BY <2>3
  <2>5. Grounded(n)
    BY <2>2, <2>4 DEF Grounded, Turned
  <2>6. Grounded(n)'
    BY <1>1, <1>2, <2>1, <2>5, GroundedStays DEF IInv
  <2>7. req' \in [Tabs -> Reqs \cup {NULL}] /\ AllGrounded'
    <3>1. now' \in Nat /\ now' >= now
      BY <1>2, <2>1
    <3>. QED  BY <1>1, <2>1, <2>6, <3>1, RequestStep
  <2>8. SentWithout'
    BY <1>2, <2>1, <2>2, <2>4 DEF IInv, SentWithout, browser
  <2>. QED  BY <1>1, <1>5, <2>1, <2>7, <2>8, HeldStays, CreatedStay
            DEF IInv, Typed, browser
<1>12. ASSUME NEW t \in Tabs, Handle(t) PROVE IInv'
  <2>1. PICK n \in Reqs : /\ req' = [req EXCEPT ![t] = n]
                         /\ n.cookie = req[t].cookie /\ Grounded(n)'
    BY <1>1, <1>12, HandleStep
  <2>2. req[t] # NULL
    BY <1>1, <1>12, HandleStep
  <2>3. /\ LimiterTypeOK' /\ now' = now /\ UNCHANGED browser
        /\ sent' \in 0 .. MaxSent /\ faults' \in 0 .. MaxFaults
        /\ restarts' \in [Replicas -> Nat]
    BY <1>12, HandleFrame
  <2>4. req' \in [Tabs -> Reqs \cup {NULL}] /\ AllGrounded'
    <3>1. now' \in Nat /\ now' >= now
      BY <1>2, <2>3
    <3>. QED  BY <1>1, <2>1, <3>1, RequestStep
  <2>5. SentWithout'
    BY <1>2, <2>1, <2>2, <2>3 DEF IInv, SentWithout, browser
  <2>. QED  BY <1>1, <2>3, <2>4, <2>5, HeldStays, CreatedStay DEF IInv, Typed, browser
<1>13. ASSUME NEW t \in Tabs, Receive(t) PROVE IInv'
  <2>. DEFINE pair == req[t].pair
  <2>1. /\ pair # NULL /\ req[t] # NULL /\ req' = [req EXCEPT ![t] = NULL]
        /\ now' = now /\ UNCHANGED limiter /\ UNCHANGED users /\ UNCHANGED bounds
    BY <1>13 DEF Receive, At
  <2>2. req[t] \in Reqs /\ Issued(req[t])
    BY <1>3, <2>1 DEF Grounded
  <2>3. pair.refresh \in Tokens /\ pair.access \in Tokens
    BY <2>1, <2>2 DEF Reqs
  <2>4. /\ cookie' = [token |-> pair.refresh, until |-> now + RefreshTTL]
        /\ access' = [access EXCEPT ![t] = pair.access]
    BY <1>13 DEF Receive
  <2>5. cookie' \in Cookies
    BY <1>2, <2>3, <2>4, TTLAssumption DEF Cookies
  <2>6. access' \in [Tabs -> Tokens \cup {NULL}]
    BY <2>3, <2>4 DEF IInv, Typed
  <2>7. HeldNamed'
    <3>1. Carried(cookie)'
      BY <2>1, <2>2, <2>4 DEF Carried, Issued
    <3>2. ASSUME NEW x \in Tabs, access'[x] # NULL
          PROVE  access'[x].type = "access" /\ users'[access'[x].sub] # NULL
      <4>1. CASE x = t
        BY <2>1, <2>2, <2>4, <4>1 DEF Issued, IInv, Typed
      <4>2. CASE x # t
        BY <2>1, <2>4, <3>2, <4>2 DEF HeldNamed, IInv, Typed
      <4>. QED  BY <4>1, <4>2
    <3>. QED  BY <3>1, <3>2 DEF HeldNamed
  <2>8. created' \subseteq Emails \X Passwords /\ CanSignIn'
    <3>1. \/ created' = created
          \/ /\ created' = created \cup {<<req[t].email, req[t].password>>}
             /\ req[t].status = 201
      BY <1>13 DEF Receive
    <3>. QED  BY <2>1, <2>2, <2>3, <3>1 DEF IInv, Typed, CanSignIn, Issued
  <2>9. session' \in {"in", "out", "back"} /\ overtaken' \subseteq Tabs
    BY <1>13 DEF Receive, IInv, Typed
  <2>10. SentWithout'
    <3>1. ASSUME session' = "out" PROVE FALSE
      <4>1. session = "out" /\ t \notin overtaken /\ req[t].kind = "refresh"
        BY <1>13, <3>1 DEF Receive
      <4>2. req[t].cookie # NULL
        BY <2>2, <4>1 DEF Issued
      <4>. QED  BY <2>1, <4>1, <4>2 DEF IInv, SentWithout
    <3>. QED  BY <3>1 DEF SentWithout
  <2>11. req' \in [Tabs -> Reqs \cup {NULL}] /\ AllGrounded'
    BY <1>1, <2>1, RequestEnds
  <2>. QED  BY <1>1, <1>5, <2>1, <2>5, <2>6, <2>7, <2>8, <2>9, <2>10, <2>11
            DEF IInv, Typed, bounds
<1>14. ASSUME NEW t \in Tabs, ReceiveLogout(t) PROVE IInv'
  <2>1. /\ req' = [req EXCEPT ![t] = NULL] /\ cookie' = NULL /\ session' = "out"
        /\ overtaken' = {x \in Tabs \ {t} : req[x] # NULL}
        /\ now' = now /\ UNCHANGED <<limiter, users, access, created, bounds>>
    BY <1>14 DEF ReceiveLogout
  <2>2. req' \in [Tabs -> Reqs \cup {NULL}] /\ AllGrounded'
    BY <1>1, <2>1, RequestEnds
  <2>3. HeldNamed'
    BY <2>1 DEF IInv, HeldNamed, Carried
  <2>4. SentWithout'
    BY <1>2, <2>1 DEF SentWithout
  <2>. QED  BY <1>1, <1>5, <2>1, <2>2, <2>3, <2>4, CreatedStay DEF IInv, Typed, bounds
<1>15. ASSUME NEW t \in Tabs, ReceiveError(t) \/ LoseAnswer(t) PROVE IInv'
  <2>1. /\ req' = [req EXCEPT ![t] = NULL] /\ overtaken' = overtaken \ {t}
        /\ now' = now /\ UNCHANGED <<limiter, users, cookie, access, created, session>>
        /\ UNCHANGED <<sent, restarts>> /\ faults' \in 0 .. MaxFaults
    BY <1>6, <1>15 DEF ReceiveError, LoseAnswer, End, bounds, IInv, Typed
  <2>2. req' \in [Tabs -> Reqs \cup {NULL}] /\ AllGrounded'
    BY <1>1, <2>1, RequestEnds
  <2>3. SentWithout'
    BY <1>2, <2>1 DEF IInv, SentWithout
  <2>. QED  BY <1>1, <1>5, <2>1, <2>2, <2>3, HeldStays, CreatedStay DEF IInv, Typed
<1>. QED
  BY <1>7, <1>8, <1>9, <1>10, <1>11, <1>12, <1>13, <1>14, <1>15 DEF Next

THEOREM InductiveInvariant == Spec => []IInv
<1>. QED  BY InitIInv, IInvStep, PTL DEF Spec
-----------------------------------------------------------------------------
THEOREM AccessTypes == Spec => []TypeOK
<1>1. IInv => TypeOK
  BY DEF IInv, Typed, TypeOK, AllGrounded, Grounded, Issued, HeldNamed, Carried
<1>. QED  BY <1>1, InductiveInvariant, PTL

(* Whoever was told of an account signs in with the password of that
   registration, whatever other registrations, failures and restarts there
   are (AuthService.Register and the UNIQUE constraint on email). *)
THEOREM AccessCanSignIn == Spec => []CanSignIn
<1>1. IInv => CanSignIn
  BY DEF IInv
<1>. QED  BY <1>1, InductiveInvariant, PTL

(* No token outlives, or comes before, the row of its user (Register,
   RefreshToken). *)
THEOREM AccessTokensNameUsers == Spec => []TokensNameUsers
<1>1. IInv => TokensNameUsers
  <2>. SUFFICES ASSUME IInv PROVE TokensNameUsers
    OBVIOUS
  <2>1. \A k \in Held \ {NULL} : users[k.sub] # NULL
    BY DEF IInv, Held, HeldNamed, Carried
  <2>2. \A pair \in Sent \ {NULL} :
          users[pair.access.sub] # NULL /\ users[pair.refresh.sub] # NULL
    BY DEF IInv, Sent, AllGrounded, Grounded, Issued
  <2>. QED  BY <2>1, <2>2 DEF TokensNameUsers
<1>. QED  BY <1>1, InductiveInvariant, PTL

(* Tabs that refresh with one cookie, late answers and restarts end no
   session (RefreshToken keeps no record of what was used). *)
THEOREM AccessRefusedOnlyExpired == Spec => []RefusedOnlyExpired
<1>1. IInv => RefusedOnlyExpired
  BY DEF IInv, AllGrounded, Grounded, Turned, RefusedOnlyExpired, At
<1>. QED  BY <1>1, InductiveInvariant, PTL

(* A logout holds until the next login, but for the answers that it overtook
   (Logout, setRefreshCookie). *)
THEOREM AccessLogoutHolds == Spec => []LogoutHolds
<1>1. IInv => LogoutHolds
  BY DEF IInv, SentWithout, LogoutHolds
<1>. QED  BY <1>1, InductiveInvariant, PTL
-----------------------------------------------------------------------------
(* The windows of one key, as pure facts about the times a of the requests
   let through: l requests in a window of length d, at most q of the requests
   in any stretch of that length before the limiter was last emptied. *)
Within(a, m, t, d) == {i \in 1 .. m : a[i] \in t .. t + d}

\* At time n no stretch of time has seen more than it may.
History(a, n, l, d, q) ==
  /\ \A i \in 1 .. Len(a) : a[i] <= n
  /\ \A t \in Int : Cardinality(Within(a, Len(a), t, d)) <= q + 2 * l - 1

\* A window may open: less than a window's worth has been seen of late.
MayOpen(a, n, l, d, q) ==
  \A t \in Int : t + d >= n => Cardinality(Within(a, Len(a), t, d)) <= q + l - 1

\* A window opened at w and holds the last c requests.
Opened(a, n, l, d, q, c, w) ==
  /\ c \in 1 .. l /\ c <= Len(a) /\ w \in Int /\ w <= n
  /\ \A i \in 1 .. Len(a) - c : a[i] <= w
  /\ a[Len(a) - c + 1] = w
  /\ \A i \in Len(a) - c + 1 .. Len(a) : a[i] >= w
  /\ \A t \in Int : t + d >= w => Cardinality(Within(a, Len(a) - c, t, d)) <= q + l - 1

LEMMA WithinFacts ==
  ASSUME NEW a \in Seq(Nat), NEW m \in Int, NEW t \in Int, NEW d \in Nat
  PROVE  /\ IsFiniteSet(Within(a, m, t, d)) /\ Cardinality(Within(a, m, t, d)) \in Nat
         /\ \A S \in SUBSET Within(a, m, t, d) :
              IsFiniteSet(S) /\ Cardinality(S) \in Nat
              /\ Cardinality(S) <= Cardinality(Within(a, m, t, d))
<1>1. IsFiniteSet(1 .. m)  BY FS_Interval
<1>2. Within(a, m, t, d) \subseteq 1 .. m  BY DEF Within
<1>3. IsFiniteSet(Within(a, m, t, d))  BY <1>1, <1>2, FS_Subset
<1>. QED  BY <1>3, FS_Subset, FS_CardinalityType

\* After the first of the last c numbers up to n come c - 1.
LEMMA AfterFirst ==
  ASSUME NEW n \in Int, NEW c \in Int, NEW i \in 1 .. n, i \notin 1 .. n - c, i # n - c + 1
  PROVE  i \in (n - c + 2) .. n
OBVIOUS

\* A window that is over leaves room for the next one: of its requests a
\* stretch that begins after it opened has seen all but the first.
LEMMA ExpiredMayOpen ==
  ASSUME NEW a \in Seq(Nat), NEW n \in Nat, NEW l \in Nat, NEW d \in Nat, NEW q \in Nat,
         NEW c \in Nat, NEW w \in Int, Opened(a, n, l, d, q, c, w), n > w + d
  PROVE  MayOpen(a, n, l, d, q)
<1>. SUFFICES ASSUME NEW t \in Int, t + d >= n
              PROVE  Cardinality(Within(a, Len(a), t, d)) <= q + l - 1
  BY DEF MayOpen
<1>. PICK N \in Nat : N = Len(a)  OBVIOUS
<1>0. c \in 1 .. l /\ c <= N /\ t > w
  BY DEF Opened
<1>1. Within(a, Len(a), t, d) \subseteq (N - c + 2) .. N
  <2>. SUFFICES ASSUME NEW i \in 1 .. N, a[i] \in t .. t + d
                PROVE  i \in (N - c + 2) .. N
    BY DEF Within
  <2>1. a[i] \in Int /\ a[i] > w  BY <1>0
  <2>2. i \notin 1 .. N - c  BY <1>0, <2>1 DEF Opened
  <2>3. i # N - c + 1  BY <1>0, <2>1 DEF Opened
  <2>4. N \in Int /\ c \in Int  OBVIOUS
  <2>. QED  BY <2>2, <2>3, <2>4, AfterFirst
<1>2. /\ IsFiniteSet((N - c + 2) .. N)
      /\ Cardinality((N - c + 2) .. N) = c - 1
  <2>. DEFINE m == N - c + 2
  <2>1. m \in Int /\ m <= N + 1 /\ N - m + 1 = c - 1  BY <1>0
  <2>. HIDE DEF m
  <2>2. IsFiniteSet(m .. N)  BY <2>1, FS_Interval
  <2>3. CASE m > N
    <3>1. Cardinality(m .. N) = 0  BY <2>1, <2>3, FS_Interval
    <3>. QED  BY <2>1, <2>2, <2>3, <3>1 DEF m
  <2>4. CASE m <= N
    <3>1. Cardinality(m .. N) = N - m + 1  BY <2>1, <2>4, FS_Interval
    <3>. QED  BY <2>1, <2>2, <3>1 DEF m
  <2>. QED  BY <2>1, <2>3, <2>4
<1>3. Cardinality(Within(a, Len(a), t, d)) <= c - 1  BY <1>1, <1>2, FS_Subset
<1>4. Cardinality(Within(a, Len(a), t, d)) \in Nat  BY <1>0, WithinFacts
<1>. QED  BY <1>0, <1>3, <1>4

\* One request more is one more in any stretch of time at most.
LEMMA OneMore ==
  ASSUME NEW a \in Seq(Nat), NEW n \in Nat, NEW d \in Nat, NEW t \in Int
  PROVE  LET b == Append(a, n)
         IN  /\ b \in Seq(Nat) /\ Len(b) = Len(a) + 1
             /\ b[Len(a) + 1] = n /\ \A i \in 1 .. Len(a) : b[i] = a[i]
             /\ \A m \in 0 .. Len(a) : Within(b, m, t, d) = Within(a, m, t, d)
             /\ n \notin t .. t + d => Within(b, Len(b), t, d) = Within(a, Len(a), t, d)
             /\ Cardinality(Within(b, Len(b), t, d)) <= Cardinality(Within(a, Len(a), t, d)) + 1
<1>. DEFINE b == Append(a, n)
<1>1. /\ b \in Seq(Nat) /\ Len(b) = Len(a) + 1 /\ Len(a) \in Nat
      /\ b[Len(a) + 1] = n /\ \A i \in 1 .. Len(a) : b[i] = a[i]
  OBVIOUS
<1>. HIDE DEF b
<1>2. ASSUME NEW m \in 0 .. Len(a) PROVE Within(b, m, t, d) = Within(a, m, t, d)
  <2>1. \A i \in 1 .. m : i \in 1 .. Len(a)  BY <1>1
  <2>2. \A i \in 1 .. m : b[i] = a[i]  BY <1>1, <2>1
  <2>. QED  BY <2>2 DEF Within
<1>3. ASSUME n \notin t .. t + d
      PROVE  Within(b, Len(b), t, d) = Within(a, Len(a), t, d)
  <2>1. 1 .. Len(b) = (1 .. Len(a)) \cup {Len(a) + 1}  BY <1>1
  <2>. QED  BY <1>1, <1>3, <2>1 DEF Within
<1>. DEFINE S == Within(a, Len(a), t, d)
            x == Len(a) + 1
<1>4. Within(b, Len(b), t, d) \subseteq S \cup {x}
  BY <1>1 DEF Within
<1>5. IsFiniteSet(S) /\ Cardinality(S) \in Nat /\ x \notin S
  <2>1. IsFiniteSet(S) /\ Cardinality(S) \in Nat  BY <1>1, WithinFacts
  <2>2. x \notin 1 .. Len(a)  BY <1>1
  <2>. QED  BY <2>1, <2>2 DEF Within
<1>. HIDE DEF S, x
<1>6. IsFiniteSet(S \cup {x}) /\ Cardinality(S \cup {x}) = Cardinality(S) + 1
  BY <1>5, FS_AddElement
<1>7. Cardinality(Within(b, Len(b), t, d)) <= Cardinality(S) + 1
  BY <1>4, <1>6, FS_Subset
<1>. QED  BY <1>1, <1>2, <1>3, <1>7 DEF b, S, x

\* The first request of a window (OpenWindow).
LEMMA WindowOpens ==
  ASSUME NEW a \in Seq(Nat), NEW n \in Nat, NEW l \in Nat \ {0}, NEW d \in Nat, NEW q \in Nat,
         History(a, n, l, d, q), MayOpen(a, n, l, d, q)
  PROVE  /\ History(Append(a, n), n, l, d, q)
         /\ Opened(Append(a, n), n, l, d, q, 1, n)
<1>. DEFINE b == Append(a, n)
<1>1. /\ b \in Seq(Nat) /\ Len(b) = Len(a) + 1 /\ Len(a) \in Nat
      /\ b[Len(a) + 1] = n /\ \A i \in 1 .. Len(a) : b[i] = a[i]
  OBVIOUS
<1>2. \A i \in 1 .. Len(a) : a[i] <= n /\ a[i] \in Nat  BY DEF History
<1>. HIDE DEF b
<1>3. ASSUME NEW t \in Int
      PROVE  Cardinality(Within(b, Len(b), t, d)) <= q + 2 * l - 1
  <2>1. Cardinality(Within(a, Len(a), t, d)) \in Nat /\ Cardinality(Within(b, Len(b), t, d)) \in Nat
    BY <1>1, WithinFacts
  <2>2. CASE n \notin t .. t + d
    BY <2>2, OneMore DEF b, History
  <2>3. CASE n \in t .. t + d
    <3>1. Cardinality(Within(a, Len(a), t, d)) <= q + l - 1  BY <2>3 DEF MayOpen
    <3>2. Cardinality(Within(b, Len(b), t, d)) <= Cardinality(Within(a, Len(a), t, d)) + 1
      BY OneMore DEF b
    <3>. QED  BY <2>1, <3>1, <3>2
  <2>. QED  BY <2>2, <2>3
<1>4. History(b, n, l, d, q)
  <2>1. ASSUME NEW i \in 1 .. Len(b) PROVE b[i] <= n
    <3>1. i = Len(a) + 1 \/ i \in 1 .. Len(a)  BY <1>1
    <3>. QED  BY <1>1, <1>2, <3>1
  <2>. QED  BY <1>3, <2>1 DEF History
<1>5. ASSUME NEW t \in Int, t + d >= n
      PROVE  Cardinality(Within(b, Len(b) - 1, t, d)) <= q + l - 1
  <2>1. Within(b, Len(a), t, d) = Within(a, Len(a), t, d)  BY <1>1, OneMore DEF b
  <2>. QED  BY <1>1, <1>5, <2>1 DEF MayOpen
<1>6. Opened(b, n, l, d, q, 1, n)
  <2>. PICK N \in Nat : N = Len(a)  BY <1>1
  <2>1. Len(b) = N + 1 /\ Len(b) - 1 = N /\ Len(b) - 1 + 1 = N + 1  BY <1>1
  <2>2. 1 \in 1 .. l /\ 1 <= Len(b) /\ n \in Int /\ n <= n  BY <2>1
  <2>3. \A i \in 1 .. Len(b) - 1 : b[i] <= n  BY <1>1, <1>2, <2>1
  <2>4. b[Len(b) - 1 + 1] = n  BY <1>1, <2>1
  <2>5. \A i \in Len(b) - 1 + 1 .. Len(b) : b[i] >= n
    <3>. SUFFICES ASSUME NEW i \in N + 1 .. N + 1 PROVE b[i] >= n  BY <2>1
    <3>1. i = N + 1  OBVIOUS
    <3>. QED  BY <1>1, <3>1
  <2>. QED  BY <1>5, <2>2, <2>3, <2>4, <2>5 DEF Opened
<1>. QED  BY <1>4, <1>6 DEF b

\* A request that an open window has room for (CountRequest).
LEMMA WindowCounts ==
  ASSUME NEW a \in Seq(Nat), NEW n \in Nat, NEW l \in Nat \ {0}, NEW d \in Nat, NEW q \in Nat,
         NEW c \in Nat, NEW w \in Int, History(a, n, l, d, q), Opened(a, n, l, d, q, c, w), c < l
  PROVE  /\ History(Append(a, n), n, l, d, q)
         /\ Opened(Append(a, n), n, l, d, q, c + 1, w)
<1>. DEFINE b == Append(a, n)
<1>. PICK N \in Nat : N = Len(a)  OBVIOUS
<1>1. /\ b \in Seq(Nat) /\ Len(b) = N + 1 /\ N = Len(a)
      /\ b[N + 1] = n /\ \A i \in 1 .. N : b[i] = a[i]
  OBVIOUS
<1>2. \A i \in 1 .. N : a[i] <= n /\ a[i] \in Nat  BY DEF History
<1>3. c \in 1 .. l /\ c <= N /\ w \in Int /\ w <= n  BY DEF Opened
<1>. HIDE DEF b
<1>4. Len(b) - (c + 1) = N - c /\ N - c \in 0 .. N  BY <1>1, <1>3
<1>5. \A t \in Int : Within(b, N - c, t, d) = Within(a, N - c, t, d)
  BY <1>4, OneMore, SMTT(30) DEF b
<1>6. Opened(b, n, l, d, q, c + 1, w)
  <2>a. N - c \in Nat /\ N - c + 1 \in 1 .. N /\ \A i \in 1 .. N - c : i \in 1 .. N
    BY <1>3
  <2>b. (\A i \in 1 .. N - c : a[i] <= w) /\ a[N - c + 1] = w
    BY DEF Opened
  <2>1. \A i \in 1 .. N - c : b[i] <= w  BY <1>1, <2>a, <2>b
  <2>2. b[N - c + 1] = w  BY <1>1, <2>a, <2>b
  <2>3. \A i \in N - c + 1 .. Len(b) : b[i] >= w
    <3>. SUFFICES ASSUME NEW i \in N - c + 1 .. Len(b) PROVE b[i] >= w  OBVIOUS
    <3>1. CASE i = N + 1  BY <1>1, <1>3, <3>1
    <3>2. CASE i # N + 1
      <4>. PICK m \in Nat : m = N - c  BY <2>a
      <4>2. i \in m + 1 .. N + 1  BY <1>1, <2>a
      <4>3. i \in 1 .. N /\ i \in m + 1 .. N  BY <3>2, <4>2
      <4>1. i \in 1 .. N /\ i \in N - c + 1 .. N  BY <4>3
      <4>. QED  BY <1>1, <4>1 DEF Opened
    <3>. QED  BY <3>1, <3>2
  <2>4. \A t \in Int : t + d >= w => Cardinality(Within(b, N - c, t, d)) <= q + l - 1
    BY <1>5 DEF Opened
  <2>5. c + 1 \in 1 .. l /\ c + 1 <= Len(b)  BY <1>1, <1>3
  <2>. QED  BY <1>3, <1>4, <2>1, <2>2, <2>3, <2>4, <2>5 DEF Opened
<1>7. ASSUME NEW t \in Int
      PROVE  Cardinality(Within(b, Len(b), t, d)) <= q + 2 * l - 1
  <2>1. CASE n \notin t .. t + d
    BY <2>1, OneMore DEF b, History
  <2>2. CASE n \in t .. t + d
    <3>. DEFINE S == Within(b, N - c, t, d)
                W == (N - c + 1) .. Len(b)
    <3>1. Cardinality(S) <= q + l - 1
      <4>1. t + d >= w  BY <1>3, <2>2
      <4>. QED  BY <1>5, <4>1 DEF Opened
    <3>2. IsFiniteSet(W) /\ Cardinality(W) = c + 1  BY <1>1, <1>3, FS_Interval
    <3>3. IsFiniteSet(S) /\ Cardinality(S) \in Nat  BY <1>1, <1>3, WithinFacts
    <3>4. Within(b, Len(b), t, d) \subseteq S \cup W  BY <1>1, <1>3 DEF Within
    <3>. HIDE DEF S, W
    <3>5. /\ IsFiniteSet(S \cup W) /\ Cardinality(S \cup W) \in Nat
          /\ Cardinality(S \cup W) <= Cardinality(S) + Cardinality(W)
      <4>1. IsFiniteSet(S \cup W) /\ IsFiniteSet(S \cap W)  BY <3>2, <3>3, FS_Union, FS_Intersection
      <4>2. Cardinality(S \cup W) = Cardinality(S) + Cardinality(W) - Cardinality(S \cap W)
        BY <3>2, <3>3, FS_Union
      <4>3. Cardinality(S \cup W) \in Nat /\ Cardinality(S \cap W) \in Nat
        BY <4>1, FS_CardinalityType
      <4>. QED  BY <1>3, <3>2, <3>3, <4>1, <4>2, <4>3
    <3>6. Cardinality(Within(b, Len(b), t, d)) <= Cardinality(S \cup W)
      BY <3>4, <3>5, FS_Subset
    <3>7. Cardinality(Within(b, Len(b), t, d)) \in Nat  BY <1>1, WithinFacts
    <3>. QED  BY <1>3, <3>1, <3>2, <3>3, <3>5, <3>6, <3>7
  <2>. QED  BY <2>1, <2>2
<1>8. History(b, n, l, d, q)
  <2>1. \A i \in 1 .. Len(b) : b[i] <= n
    <3>. SUFFICES ASSUME NEW i \in 1 .. Len(b) PROVE b[i] <= n  OBVIOUS
    <3>1. i = N + 1 \/ i \in 1 .. N  BY <1>1
    <3>. QED  BY <1>1, <1>2, <3>1
  <2>. QED  BY <1>7, <2>1 DEF History
<1>. QED  BY <1>6, <1>8 DEF b

\* The limiter is emptied when its process starts anew (Forget): what any
\* stretch of time has seen is from before.
LEMMA WindowForgotten ==
  ASSUME NEW a \in Seq(Nat), NEW n \in Nat, NEW l \in Nat \ {0}, NEW d \in Nat, NEW q \in Nat,
         History(a, n, l, d, q)
  PROVE  LET p == q + 2 * l - 1 IN History(a, n, l, d, p) /\ MayOpen(a, n, l, d, p)
<1>1. ASSUME NEW t \in Int
      PROVE  /\ Cardinality(Within(a, Len(a), t, d)) \in Nat
             /\ Cardinality(Within(a, Len(a), t, d)) <= q + 2 * l - 1
  BY WithinFacts DEF History
<1>. DEFINE p == q + 2 * l - 1
<1>2. p \in Nat /\ q + 2 * l - 1 <= p + l - 1 /\ q + 2 * l - 1 <= p + 2 * l - 1  OBVIOUS
<1>. HIDE DEF p
<1>3. History(a, n, l, d, p)  BY <1>1, <1>2 DEF History
<1>4. MayOpen(a, n, l, d, p)  BY <1>1, <1>2 DEF MayOpen
<1>. QED  BY <1>3, <1>4 DEF p

\* Time passes (Tick).
LEMMA WindowAges ==
  ASSUME NEW a \in Seq(Nat), NEW n \in Nat, NEW l, NEW d \in Nat, NEW q,
         NEW m \in Nat, m >= n
  PROVE  /\ History(a, n, l, d, q) => History(a, m, l, d, q)
         /\ MayOpen(a, n, l, d, q) => MayOpen(a, m, l, d, q)
         /\ \A c \in Nat, w \in Int : Opened(a, n, l, d, q, c, w) => Opened(a, m, l, d, q, c, w)
<1>1. \A i \in 1 .. Len(a) : a[i] \in Nat  OBVIOUS
<1>. QED  BY <1>1 DEF History, MayOpen, Opened
-----------------------------------------------------------------------------
(* The windows of all keys, on top of IInv.  Before(k) bounds what the windows
   of earlier processes let through in a stretch of time. *)
Before(k) == (2 * Limit[k] - 1) * restarts[k[1]]

Windowed(k) ==
  /\ History(allowed[k], now, Limit[k], Duration[k], Before(k))
  /\ Known(k) => Opened(allowed[k], now, Limit[k], Duration[k], Before(k),
                        windows[k].count, windows[k].windowEnd - Duration[k])
  /\ ~ Known(k) => MayOpen(allowed[k], now, Limit[k], Duration[k], Before(k))

Windows == \A k \in Keys : Windowed(k)

LEMMA KeyFacts ==
  ASSUME IInv, NEW k \in Keys
  PROVE  /\ allowed[k] \in Seq(Nat) /\ now \in Nat
         /\ Limit[k] \in Nat \ {0} /\ Duration[k] \in Nat
         /\ k[1] \in Replicas /\ restarts[k[1]] \in Nat /\ Before(k) \in Nat
         /\ Before(k) + 2 * Limit[k] - 1 = (2 * Limit[k] - 1) * (1 + restarts[k[1]])
         /\ Known(k) => windows[k].count \in Nat /\ windows[k].windowEnd \in Int
<1>1. /\ allowed[k] \in Seq(Nat) /\ now \in Nat
      /\ Known(k) => windows[k].count \in Nat /\ windows[k].windowEnd \in Int
  BY DEF IInv, Typed, LimiterTypeOK, Known, Window
<1>2. Limit[k] \in Nat \ {0} /\ Duration[k] \in Nat
  BY LimitAssumption, DurationAssumption
<1>3. k[1] \in Replicas /\ restarts[k[1]] \in Nat  BY KeysAssumption DEF IInv, Typed
<1>4. ASSUME NEW l \in Nat \ {0}, NEW r \in Nat
      PROVE  (2 * l - 1) * r \in Nat /\ (2 * l - 1) * r + 2 * l - 1 = (2 * l - 1) * (1 + r)
  <2>1. PICK m \in Nat : m = 2 * l - 1  OBVIOUS
  <2>2. m * r \in Nat /\ m * (1 + r) = m * r + m  OBVIOUS
  <2>. QED  BY <2>1, <2>2
<1>. QED  BY <1>1, <1>2, <1>3, <1>4 DEF Before

\* The limiter in front of a request is that of its replica and route.
LEMMA LimitedKey ==
  ASSUME IInv, NEW t \in Tabs, NEW o \in Origins, Limited(t, o)
  PROVE  req[t] \in Reqs /\ Key(t, o) \in Keys
<1>1. req[t] \in Reqs /\ req[t].kind \in Routes
  BY DEF Limited, At, IInv, Typed
<1>2. req[t].replica \in Replicas  BY <1>1 DEF Reqs
<1>. QED  BY <1>1, <1>2, KeysAssumption DEF Key

LEMMA InitWindows ==
  ASSUME Init PROVE Windows
<1>0. IInv  BY InitIInv
<1>1. ASSUME NEW k \in Keys PROVE Windowed(k)
  <2>1. allowed[k] = << >> /\ ~ Known(k)  BY DEF Init, LimiterInit, Known
  <2>2. \A t \in Int : Within(<< >>, 0, t, Duration[k]) = {}  BY DEF Within
  <2>3. Len(<< >>) = 0 /\ Cardinality({}) = 0  BY FS_EmptySet
  <2>4. \A t \in Int : Cardinality(Within(allowed[k], Len(allowed[k]), t, Duration[k])) = 0
    BY <2>1, <2>2, <2>3
  <2>5. /\ 0 <= Before(k) + 2 * Limit[k] - 1 /\ 0 <= Before(k) + Limit[k] - 1
    BY <1>0, KeyFacts
  <2>. QED  BY <2>1, <2>3, <2>4, <2>5 DEF Windowed, History, MayOpen
<1>. QED  BY <1>1 DEF Windows

\* What a step does to other keys.
Untouched(k) == /\ now' = now /\ allowed'[k] = allowed[k]
                /\ restarts'[k[1]] = restarts[k[1]]
                /\ Known(k)' <=> Known(k)
                /\ Known(k) => windows'[k] = windows[k]

LEMMA UntouchedStay ==
  ASSUME NEW k \in Keys, Windowed(k), Untouched(k)
  PROVE  Windowed(k)'
BY DEF Windowed, Untouched, Before

LEMMA OpenStep ==
  ASSUME IInv, NEW k \in Keys, Windowed(k), OpenWindow(k), restarts' = restarts
  PROVE  Windowed(k)'
<1>. DEFINE a == allowed[k]
            D == Duration[k]
            L == Limit[k]
<1>1. /\ a \in Seq(Nat) /\ now \in Nat /\ L \in Nat \ {0} /\ D \in Nat /\ Before(k) \in Nat
      /\ Known(k) => windows[k].count \in Nat /\ windows[k].windowEnd \in Int
  BY KeyFacts
<1>2. /\ Known(k)' /\ windows'[k].count = 1 /\ windows'[k].windowEnd = now + D
      /\ now' = now /\ allowed'[k] = Append(a, now) /\ Before(k)' = Before(k)
  BY DEF OpenWindow, SetWindow, LetThrough, Known, Before, IInv, Typed, LimiterTypeOK
<1>3. History(a, now, L, D, Before(k))  BY DEF Windowed
<1>4. MayOpen(a, now, L, D, Before(k))
  <2>1. CASE Known(k)
    <3>1. Opened(a, now, L, D, Before(k), windows[k].count, windows[k].windowEnd - D)
      BY <2>1 DEF Windowed
    <3>2. now > (windows[k].windowEnd - D) + D /\ windows[k].windowEnd - D \in Int
      BY <1>1, <2>1 DEF OpenWindow, Expired
    <3>. QED  BY <1>1, <2>1, <3>1, <3>2, ExpiredMayOpen
  <2>2. CASE ~ Known(k)  BY <2>2 DEF Windowed
  <2>. QED  BY <2>1, <2>2
<1>5. /\ History(Append(a, now), now, L, D, Before(k))
      /\ Opened(Append(a, now), now, L, D, Before(k), 1, now)
  BY <1>1, <1>3, <1>4, WindowOpens
<1>6. windows'[k].windowEnd - D = now  BY <1>1, <1>2
<1>. QED  BY <1>2, <1>5, <1>6 DEF Windowed

LEMMA CountStep ==
  ASSUME IInv, NEW k \in Keys, Windowed(k), CountRequest(k), restarts' = restarts
  PROVE  Windowed(k)'
<1>. DEFINE a == allowed[k]
            D == Duration[k]
            L == Limit[k]
            w == windows[k].windowEnd - D
<1>1. /\ a \in Seq(Nat) /\ now \in Nat /\ L \in Nat \ {0} /\ D \in Nat /\ Before(k) \in Nat
      /\ Known(k) /\ windows[k].count \in Nat /\ windows[k].windowEnd \in Int
  BY KeyFacts DEF CountRequest
<1>2. /\ Known(k)' /\ windows'[k].count = windows[k].count + 1
      /\ windows'[k].windowEnd = windows[k].windowEnd
      /\ now' = now /\ allowed'[k] = Append(a, now) /\ Before(k)' = Before(k)
  <2>1. windows[k] \in Window  BY <1>1 DEF IInv, Typed, LimiterTypeOK, Known
  <2>2. windows'[k] = [windows[k] EXCEPT !.count = @ + 1] /\ Known(k)'
    BY DEF CountRequest, SetWindow, Known
  <2>. QED  BY <2>1, <2>2 DEF CountRequest, LetThrough, Before, IInv, Typed, LimiterTypeOK, Window
<1>3. /\ History(a, now, L, D, Before(k))
      /\ Opened(a, now, L, D, Before(k), windows[k].count, w)
  BY <1>1 DEF Windowed
<1>4. windows[k].count < L /\ w \in Int  BY <1>1 DEF CountRequest
<1>5. /\ History(Append(a, now), now, L, D, Before(k))
      /\ Opened(Append(a, now), now, L, D, Before(k), windows[k].count + 1, w)
  BY <1>1, <1>3, <1>4, WindowCounts
<1>. QED  BY <1>2, <1>5 DEF Windowed

\* A request is refused in front of a window that is full (Allow).
LEMMA RefuseStep ==
  ASSUME IInv, NEW k \in Keys, Windowed(k), Refuse(k)
  PROVE  Full(k)
<1>. DEFINE a == allowed[k]
            c == windows[k].count
            w == windows[k].windowEnd - Duration[k]
<1>1. /\ a \in Seq(Nat) /\ now \in Nat /\ Limit[k] \in Nat /\ Duration[k] \in Nat
      /\ Known(k) /\ c \in Nat /\ windows[k].windowEnd \in Int
  BY KeyFacts DEF Refuse
<1>2. now <= windows[k].windowEnd /\ c >= Limit[k]
  BY <1>1 DEF Refuse, Expired
<1>. PICK N \in Nat : N = Len(a)  BY <1>1
<1>3. /\ c <= N /\ \A i \in 1 .. N : a[i] <= now /\ a[i] \in Nat
      /\ \A i \in N - c + 1 .. N : a[i] >= w
  <2>1. Opened(a, now, Limit[k], Duration[k], Before(k), c, w)
        /\ History(a, now, Limit[k], Duration[k], Before(k))
    BY <1>1 DEF Windowed
  <2>. HIDE DEF a, c, w
  <2>2. c <= N /\ \A i \in N - c + 1 .. N : a[i] >= w  BY <2>1 DEF Opened
  <2>3. \A i \in 1 .. N : a[i] <= now  BY <2>1 DEF History
  <2>4. \A i \in 1 .. N : a[i] \in Nat  BY <1>1
  <2>. QED  BY <2>2, <2>3, <2>4
<1>4. w \in Int /\ now - Duration[k] <= w  BY <1>1, <1>2
<1>. HIDE DEF a, c, w
<1>. DEFINE lo == N - c + 1
            S == {i \in 1 .. N : a[i] \in now - Duration[k] .. now}
<1>5. lo \in Nat /\ lo >= 1 /\ lo <= N + 1 /\ N - lo + 1 = c
  BY <1>1, <1>3
<1>6. lo .. N \subseteq S
  <2>. SUFFICES ASSUME NEW i \in lo .. N PROVE i \in S  OBVIOUS
  <2>1. i \in 1 .. N /\ i \in N - c + 1 .. N  BY <1>5
  <2>2. a[i] <= now /\ a[i] \in Nat /\ a[i] >= w  BY <1>3, <2>1
  <2>. QED  BY <1>1, <1>4, <2>1, <2>2
<1>7. IsFiniteSet(S) /\ Cardinality(S) \in Nat
  <2>1. IsFiniteSet(1 .. N)  BY FS_Interval
  <2>2. S \subseteq 1 .. N  OBVIOUS
  <2>. QED  BY <2>1, <2>2, FS_Subset, FS_CardinalityType
<1>. HIDE DEF lo
<1>8. Cardinality(lo .. N) = c
  <2>1. CASE lo > N
    <3>1. Cardinality(lo .. N) = 0  BY <1>5, <2>1, FS_Interval
    <3>. QED  BY <1>1, <1>5, <2>1, <3>1
  <2>2. CASE lo <= N
    <3>1. Cardinality(lo .. N) = N - lo + 1  BY <1>5, <2>2, FS_Interval
    <3>. QED  BY <1>5, <3>1
  <2>. QED  BY <1>5, <2>1, <2>2
<1>9. Cardinality(S) >= Limit[k]
  <2>1. Cardinality(lo .. N) <= Cardinality(S)  BY <1>6, <1>7, FS_Subset
  <2>. HIDE DEF S
  <2>2. c \in Nat /\ Limit[k] \in Nat /\ Limit[k] <= c  BY <1>1, <1>2
  <2>3. c <= Cardinality(S)  BY <1>8, <2>1
  <2>. QED  BY <1>7, <2>2, <2>3
<1>10. During(k, now - Duration[k], now) = S
  BY DEF During, a
<1>. HIDE DEF S
<1>. QED  BY <1>9, <1>10 DEF Full

LEMMA WindowsStep == IInv /\ IInv' /\ Windows /\ [Next]_vars => Windows'
<1>. SUFFICES ASSUME IInv, IInv', Windows, [Next]_vars PROVE Windows'  OBVIOUS
<1>w. \A k \in Keys : Windowed(k)  BY DEF Windows
<1>1. ASSUME UNCHANGED <<now, limiter, restarts>> PROVE Windows'
  <2>1. \A k \in Keys : Untouched(k)
    BY <1>1 DEF limiter, Untouched, Known
  <2>. QED  BY <1>w, <2>1, UntouchedStay DEF Windows
<1>2. CASE UNCHANGED vars
  BY <1>1, <1>2 DEF vars, bounds
<1>3. CASE Tick
  <2>1. /\ now' = now + 1 /\ windows' = windows /\ allowed' = allowed
        /\ restarts' = restarts
    BY <1>3 DEF Tick, limiter, bounds
  <2>2. ASSUME NEW k \in Keys PROVE Windowed(k)'
    <3>1. /\ allowed[k] \in Seq(Nat) /\ now \in Nat /\ now' \in Nat /\ now' >= now
          /\ Duration[k] \in Nat
          /\ Known(k) => windows[k].count \in Nat /\ windows[k].windowEnd - Duration[k] \in Int
      BY <2>1, KeyFacts
    <3>2. Before(k)' = Before(k) /\ (Known(k)' <=> Known(k))  BY <2>1 DEF Before, Known
    <3>. DEFINE q == Before(k)
                w == windows[k].windowEnd - Duration[k]
    <3>3. /\ History(allowed[k], now, Limit[k], Duration[k], q)
          /\ Known(k) => Opened(allowed[k], now, Limit[k], Duration[k], q, windows[k].count, w)
          /\ ~ Known(k) => MayOpen(allowed[k], now, Limit[k], Duration[k], q)
      BY <1>w DEF Windowed
    <3>4. Known(k) => windows[k].count \in Nat /\ w \in Int  BY <3>1
    <3>. HIDE DEF q, w
    <3>5. /\ History(allowed[k], now', Limit[k], Duration[k], q)
          /\ Known(k) => Opened(allowed[k], now', Limit[k], Duration[k], q, windows[k].count, w)
          /\ ~ Known(k) => MayOpen(allowed[k], now', Limit[k], Duration[k], q)
      BY <3>1, <3>3, <3>4, WindowAges
    <3>. QED  BY <2>1, <3>2, <3>5 DEF Windowed, q, w
  <2>. QED  BY <2>2 DEF Windows
<1>4. ASSUME NEW keys, Cleanup(keys), UNCHANGED <<server, browser, bounds>>
      PROVE  Windows'
  <2>1. /\ now' = now /\ allowed' = allowed /\ restarts' = restarts
        /\ windows' = [k \in {q \in DOMAIN windows : q \in keys => ~ Expired(q)} |-> windows[k]]
    BY <1>4 DEF Cleanup, bounds
  <2>2. ASSUME NEW k \in Keys PROVE Windowed(k)'
    <3>1. CASE Known(k) => (k \in keys => ~ Expired(k))
      <4>1. Untouched(k)  BY <2>1, <3>1 DEF Untouched, Known
      <4>. QED  BY <1>w, <4>1, UntouchedStay
    <3>2. CASE Known(k) /\ k \in keys /\ Expired(k)
      <4>1. /\ allowed[k] \in Seq(Nat) /\ now \in Nat /\ Limit[k] \in Nat
            /\ Duration[k] \in Nat /\ Before(k) \in Nat
            /\ windows[k].count \in Nat /\ windows[k].windowEnd \in Int
        BY <3>2, KeyFacts
      <4>2. Opened(allowed[k], now, Limit[k], Duration[k], Before(k),
                   windows[k].count, windows[k].windowEnd - Duration[k])
        BY <1>w, <3>2 DEF Windowed
      <4>3. now > (windows[k].windowEnd - Duration[k]) + Duration[k]
            /\ windows[k].windowEnd - Duration[k] \in Int
        BY <3>2, <4>1 DEF Expired
      <4>4. MayOpen(allowed[k], now, Limit[k], Duration[k], Before(k))
        BY <4>1, <4>2, <4>3, ExpiredMayOpen
      <4>5. ~ Known(k)' /\ Before(k)' = Before(k)  BY <2>1, <3>2 DEF Known, Before
      <4>. QED  BY <1>w, <2>1, <4>4, <4>5 DEF Windowed
    <3>. QED  BY <3>1, <3>2
  <2>. QED  BY <2>2 DEF Windows
<1>5. ASSUME NEW r \in Replicas, Restart(r) PROVE Windows'
  <2>1. /\ now' = now /\ allowed' = allowed
        /\ windows' = [k \in DOMAIN windows \ ({r} \X Routes \X Origins) |-> windows[k]]
        /\ restarts' = [restarts EXCEPT ![r] = @ + 1]
    BY <1>5 DEF Restart, Forget
  <2>2. ASSUME NEW k \in Keys PROVE Windowed(k)'
    <3>0. /\ k[1] \in Replicas /\ k = <<k[1], k[2], k[3]>> /\ k[2] \in Routes
          /\ k[3] \in Origins /\ restarts \in [Replicas -> Nat]
      BY KeysAssumption DEF IInv, Typed
    <3>1. CASE k[1] # r
      <4>1. k \notin {r} \X Routes \X Origins  BY <3>0, <3>1
      <4>2. Untouched(k)  BY <2>1, <3>0, <3>1, <4>1 DEF Untouched, Known
      <4>. QED  BY <1>w, <4>2, UntouchedStay
    <3>2. CASE k[1] = r
      <4>1. ~ Known(k)'
        <5>1. k \in {r} \X Routes \X Origins  BY <3>0, <3>2
        <5>. QED  BY <2>1, <5>1 DEF Known
      <4>2. /\ allowed[k] \in Seq(Nat) /\ now \in Nat /\ Limit[k] \in Nat \ {0}
            /\ Duration[k] \in Nat /\ Before(k) \in Nat /\ restarts[k[1]] \in Nat
            /\ Before(k) + 2 * Limit[k] - 1 = (2 * Limit[k] - 1) * (1 + restarts[k[1]])
        BY KeyFacts
      <4>3. Before(k)' = Before(k) + 2 * Limit[k] - 1
        <5>1. restarts'[k[1]] = 1 + restarts[k[1]]  BY <2>1, <3>0, <3>2, <4>2
        <5>. QED  BY <4>2, <5>1 DEF Before
      <4>4. /\ History(allowed[k], now, Limit[k], Duration[k], Before(k)')
            /\ MayOpen(allowed[k], now, Limit[k], Duration[k], Before(k)')
        BY <1>w, <4>2, <4>3, WindowForgotten DEF Windowed
      <4>. QED  BY <2>1, <4>1, <4>4 DEF Windowed
    <3>. QED  BY <3>1, <3>2
  <2>. QED  BY <2>2 DEF Windows
<1>6. ASSUME NEW t \in Tabs, NEW o \in Origins, Limited(t, o) PROVE Windows'
  <2>1. PICK j \in Keys : OpenWindow(j) \/ CountRequest(j) \/ Refuse(j)
    <3>1. Key(t, o) \in Keys  BY <1>6, LimitedKey
    <3>. QED  BY <1>6, <3>1 DEF Limited
  <2>2. restarts' = restarts  BY <1>6 DEF Limited, bounds
  <2>3. Windowed(j)'
    <3>1. CASE OpenWindow(j)  BY <1>w, <2>2, <3>1, OpenStep
    <3>2. CASE CountRequest(j)  BY <1>w, <2>2, <3>2, CountStep
    <3>3. CASE Refuse(j)
      <4>1. Untouched(j)  BY <2>2, <3>3 DEF Refuse, Untouched, Known
      <4>. QED  BY <1>w, <4>1, UntouchedStay
    <3>. QED  BY <2>1, <3>1, <3>2, <3>3
  <2>4. ASSUME NEW k \in Keys \ {j} PROVE Windowed(k)'
    <3>1. Untouched(k)
      BY <2>1, <2>2 DEF OpenWindow, CountRequest, Refuse, SetWindow, LetThrough, Untouched, Known,
                        IInv, Typed, LimiterTypeOK
    <3>. QED  BY <1>w, <3>1, UntouchedStay
  <2>. QED  BY <2>3, <2>4 DEF Windows
<1>7. ASSUME NEW t \in Tabs, Handle(t), ~ \E o \in Origins : Limited(t, o)
      PROVE  UNCHANGED <<now, limiter, restarts>>
  BY <1>7 DEF Handle, BadRequest, CreateUser, CreateUserFails, CheckPassword, Refresh,
              LookupFails, Issue, Logout, bounds
<1>8. ASSUME NEW t \in Tabs,
             \/ \E kind \in Kinds, r \in Replicas : Send(t, kind, r)
             \/ Receive(t) \/ ReceiveLogout(t) \/ ReceiveError(t) \/ LoseAnswer(t)
      PROVE  UNCHANGED <<now, limiter, restarts>>
  BY <1>8 DEF Send, Receive, ReceiveLogout, ReceiveError, LoseAnswer, bounds
<1>. QED  BY <1>1, <1>2, <1>3, <1>4, <1>5, <1>6, <1>7, <1>8 DEF Next

THEOREM WindowsInvariant == Spec => []Windows
<1>. QED  BY InitWindows, WindowsStep, InductiveInvariant, PTL DEF Spec

(* A request is refused only when its key has been let through as often as
   the limit allows, in a window's length before, whatever other keys, cleanup
   and restarts do (Allow, Limit). *)
THEOREM AccessRefusedOnlyWhenFull == Spec => RefusedOnlyWhenFull
<1>1. ASSUME IInv, Windows, NEW t \in Tabs, NEW o \in Origins, Limited(t, o),
             req'[t].step = "answered"
      PROVE  Full(Key(t, o))
  <2>1. req[t] \in Reqs /\ Key(t, o) \in Keys
    BY <1>1, LimitedKey
  <2>2. ~ Proceed(t, "allowed")
    <3>1. ASSUME Proceed(t, "allowed") PROVE req'[t].step = "allowed"
      BY <1>1, <2>1, <3>1 DEF Proceed, IInv, Typed, Reqs
    <3>. QED  BY <1>1, <3>1
  <2>3. Refuse(Key(t, o))
    BY <1>1, <2>2 DEF Limited
  <2>. QED  BY <1>1, <2>1, <2>3, RefuseStep DEF Windows
<1>2. IInv /\ Windows =>
        [\A t \in Tabs, o \in Origins :
           Limited(t, o) /\ req'[t].step = "answered" => Full(Key(t, o))]_vars
  BY <1>1
<1>. QED  BY <1>2, InductiveInvariant, WindowsInvariant, PTL DEF RefusedOnlyWhenFull

(* No stretch of time as long as a window sees two windows' worth of requests
   with one key (one X-Forwarded-For, or one connection), at one process, on
   either side of whatever boundary (Allow, Limit, cleanup). *)
THEOREM AccessAtMostTwice == Spec => []AtMostTwice
<1>1. IInv /\ Windows => AtMostTwice
  <2>. SUFFICES ASSUME IInv, Windows, NEW k \in Keys, NEW t \in 0 .. now
                PROVE  Cardinality(During(k, t, t + Duration[k]))
                         <= (2 * Limit[k] - 1) * (1 + restarts[k[1]])
    BY DEF AtMostTwice
  <2>1. /\ t \in Int
        /\ Before(k) + 2 * Limit[k] - 1 = (2 * Limit[k] - 1) * (1 + restarts[k[1]])
    BY KeyFacts
  <2>2. History(allowed[k], now, Limit[k], Duration[k], Before(k))
    BY DEF Windows, Windowed
  <2>3. Cardinality(Within(allowed[k], Len(allowed[k]), t, Duration[k]))
          <= Before(k) + 2 * Limit[k] - 1
    BY <2>1, <2>2 DEF History
  <2>. QED  BY <2>1, <2>3 DEF During, Within
<1>. QED  BY <1>1, InductiveInvariant, WindowsInvariant, PTL
=============================================================================

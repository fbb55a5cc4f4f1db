------------------------------ MODULE WebProofs -----------------------------
(***************************************************************************)
(* Proofs about the contest web server: who is logged in, for any users,   *)
(* browsers and changes; and what a contestant may send, and with which    *)
(* tokens, for any contest and any requests at the same time.              *)
(***************************************************************************)
EXTENDS ContestServer, Authentication, TLAPS, FiniteSetTheorems, WellFoundedInduction

-----------------------------------------------------------------------------
(* Authentication: a cookie is never newer than the last use of the        *)
(* browser that holds it.                                                  *)

NotNewer(b) == cookie[b] # NoValue => active[b] \in Nat /\ cookie[b].update <= active[b]

AuthTypes ==
    /\ clock \in Nat
    /\ user_password \in [Users -> Passwords \cup {NoValue}]
    /\ participation \in [Users -> [registered : BOOLEAN, password : Passwords \cup {NoValue},
                                    ip : (SUBSET Addresses) \cup {NoValue}, hidden : BOOLEAN]]
    /\ cookie \in [Browsers -> Cookies \cup {NoValue}]
    /\ active \in [Browsers -> Nat \cup {NoValue}]

AuthInv == AuthTypes /\ \A b \in Browsers : NotNewer(b)

LEMMA NewCookieTyped ==
    ASSUME AuthTypes, NEW u \in Users
    PROVE  /\ NewCookie(u) \in Cookies /\ NewCookie(u).user = u
           /\ NewCookie(u).update = clock /\ NewCookie(u).password = GetPassword(u)
  BY DEF AuthTypes, NewCookie, GetPassword, Cookies

\* Without an address that logs in, the cookie is looked at.
LEMMA NobodyByAddress ==
    ASSUME NEW b \in Browsers, ByAddress(b) = {}
    PROVE  /\ AuthenticateRequest(b).by_cookie
                 <=> "allow_password_authentication" \in settings
           /\ "allow_password_authentication" \in settings =>
                 AuthenticateRequest(b).users = {u \in FromCookie(b) : Admitted(u, address[b])}
  <1>1. Cardinality(ByAddress(b)) = 0
    BY FS_EmptySet
  <1>2. ~(Cardinality(ByAddress(b)) > 1) /\ ~(Cardinality(ByAddress(b)) = 1)
    BY <1>1
  <1> DEFINE by_cookie == ByAddress(b) = {} /\ "allow_password_authentication" \in settings
             found == CASE Cardinality(ByAddress(b)) > 1 -> {}
                        [] Cardinality(ByAddress(b)) = 1 -> ByAddress(b)
                        [] ByAddress(b) = {} -> IF by_cookie THEN FromCookie(b) ELSE {}
  <1>3. found = IF by_cookie THEN FromCookie(b) ELSE {}
    BY <1>2
  <1>4. AuthenticateRequest(b) =
           [users |-> {u \in found : Admitted(u, address[b])}, by_cookie |-> by_cookie]
    BY DEF AuthenticateRequest
  <1>5. by_cookie <=> "allow_password_authentication" \in settings
    OBVIOUS
  <1>6. AuthenticateRequest(b).by_cookie <=> by_cookie
    BY DEF AuthenticateRequest
  <1> HIDE DEF by_cookie, found
  <1>7. AuthenticateRequest(b).users = {u \in found : Admitted(u, address[b])}
    BY <1>4
  <1> QED  BY <1>3, <1>5, <1>6, <1>7

\* Whoever is recognised by the cookie has it, fresh and with the password on record.
LEMMA RecognisedByCookie ==
    ASSUME NEW b \in Browsers, AuthenticateRequest(b).by_cookie
    PROVE  /\ ByAddress(b) = {}
           /\ "allow_password_authentication" \in settings
           /\ AuthenticateRequest(b).users = {u \in FromCookie(b) : Admitted(u, address[b])}
  <1>1. ByAddress(b) = {}
    BY DEF AuthenticateRequest
  <1>2. "allow_password_authentication" \in settings
    BY <1>1, NobodyByAddress
  <1> QED  BY <1>1, <1>2, NobodyByAddress

\* Without an automatic login, the cookie tells.
CookieTelling ==
    \A b \in Browsers :
        ByAddress(b) = {} /\ "allow_password_authentication" \in settings =>
           AuthenticateRequest(b).users = {u \in FromCookie(b) : Admitted(u, address[b])}

LEMMA CookieTells == CookieTelling
  BY NobodyByAddress DEF CookieTelling

LEMMA AuthStarts == AuthInit => AuthInv
  <1> SUFFICES ASSUME AuthInit  PROVE AuthInv
    OBVIOUS
  <1>1. clock \in Nat /\ user_password \in [Users -> Passwords \cup {NoValue}]
    BY DEF AuthInit
  <1>2. participation \in [Users -> [registered : BOOLEAN, password : Passwords \cup {NoValue},
                                     ip : (SUBSET Addresses) \cup {NoValue}, hidden : BOOLEAN]]
    BY DEF AuthInit, NotRegistered
  <1>3. /\ cookie \in [Browsers -> Cookies \cup {NoValue}]
        /\ active \in [Browsers -> Nat \cup {NoValue}]
        /\ \A b \in Browsers : NotNewer(b)
    BY DEF AuthInit, NotNewer
  <1> QED  BY <1>1, <1>2, <1>3 DEF AuthInv, AuthTypes

\* A browser gets a cookie now, for somebody it was accepted from.
GivesCookie(b, u) ==
    /\ u \in Registered /\ Admitted(u, address[b])
    /\ "allow_password_authentication" \in settings
    /\ cookie' = [cookie EXCEPT ![b] = NewCookie(u)]
    /\ active' = [active EXCEPT ![b] = clock]

CookieStaysOrGoes(b) ==
    /\ cookie' \in {cookie, [cookie EXCEPT ![b] = NoValue]}
    /\ active' = active

\* What a request or a login may do to the cookies.
LEMMA RequestEffect ==
    ASSUME AuthTypes, NEW b \in Browsers, NEW refresh \in BOOLEAN, Request(b, refresh)
    PROVE  CookieStaysOrGoes(b) \/ \E u \in Users : GivesCookie(b, u)
  <1> DEFINE r == AuthenticateRequest(b)
             valid == r.users # {} /\ r.by_cookie
             u == CHOOSE u \in r.users : TRUE
  <1>1. CASE ~valid
    <2>1. cookie' = [cookie EXCEPT ![b] = NoValue] /\ active' = active
      BY <1>1 DEF Request, AuthTypes
    <2> QED  BY <2>1 DEF CookieStaysOrGoes
  <1>2. CASE valid /\ ~refresh
    <2>1. cookie' = cookie /\ active' = active
      BY <1>2 DEF Request, AuthTypes
    <2> QED  BY <2>1 DEF CookieStaysOrGoes
  <1>3. CASE valid /\ refresh
    <2>1. cookie' = [cookie EXCEPT ![b] = NewCookie(u)] /\ active' = [active EXCEPT ![b] = clock]
      BY <1>3 DEF Request
    <2>2. u \in r.users
      BY <1>3
    <2>3. u \in FromCookie(b) /\ Admitted(u, address[b])
          /\ "allow_password_authentication" \in settings
      <3> HIDE DEF u
      <3> QED  BY <1>3, <2>2, RecognisedByCookie
    <2>4. u \in Registered /\ u \in Users
      BY <2>3 DEF FromCookie, Registered
    <2> HIDE DEF u
    <2> QED  BY <2>1, <2>3, <2>4 DEF GivesCookie
  <1> QED  BY <1>1, <1>2, <1>3

LEMMA LoginEffect ==
    ASSUME AuthTypes, NEW b \in Browsers, NEW u \in Users, NEW p \in Passwords,
           LoginHandler(b, u, p)
    PROVE  CookieStaysOrGoes(b) \/ GivesCookie(b, u)
  BY DEF LoginHandler, ValidateLogin, CookieStaysOrGoes, GivesCookie

LEMMA CookieLeft ==
    ASSUME AuthInv, NEW b \in Browsers, CookieStaysOrGoes(b)
    PROVE  /\ cookie' \in [Browsers -> Cookies \cup {NoValue}]
           /\ active' \in [Browsers -> Nat \cup {NoValue}]
           /\ \A c \in Browsers : NotNewer(c)'
           /\ \A c \in Browsers : cookie'[c] # NoValue => cookie'[c] = cookie[c]
  BY DEF AuthInv, AuthTypes, CookieStaysOrGoes, NotNewer

LEMMA CookieGiven ==
    ASSUME AuthInv, NEW b \in Browsers, NEW u \in Users, GivesCookie(b, u)
    PROVE  /\ cookie' \in [Browsers -> Cookies \cup {NoValue}]
           /\ active' \in [Browsers -> Nat \cup {NoValue}]
           /\ \A c \in Browsers : NotNewer(c)'
           /\ cookie'[b] = NewCookie(u)
           /\ \A c \in Browsers \ {b} : cookie'[c] = cookie[c]
  <1>1. NewCookie(u) \in Cookies
    BY NewCookieTyped DEF AuthInv
  <1>2. NewCookie(u).update = clock
    BY DEF NewCookie
  <1> HIDE DEF NewCookie
  <1> QED  BY <1>1, <1>2 DEF AuthInv, AuthTypes, GivesCookie, NotNewer

-----------------------------------------------------------------------------

\* What administrators change has the types of the database.
LEMMA AdminTyped ==
    ASSUME AuthTypes, AdminChanges
    PROVE  /\ user_password' \in [Users -> Passwords \cup {NoValue}]
           /\ participation' \in [Users -> [registered : BOOLEAN,
                                            password : Passwords \cup {NoValue},
                                            ip : (SUBSET Addresses) \cup {NoValue},
                                            hidden : BOOLEAN]]
  <1> DEFINE P == [registered : BOOLEAN, password : Passwords \cup {NoValue},
                   ip : (SUBSET Addresses) \cup {NoValue}, hidden : BOOLEAN]
             Q == Passwords \cup {NoValue}
  <1>1. NotRegistered \in P /\ Registered \subseteq Users
    BY DEF NotRegistered, Registered
  <1>2. participation \in [Users -> P] /\ user_password \in [Users -> Q]
    BY DEF AuthTypes
  <1>3. ASSUME NEW u \in Users, NEW q \in Q, participation' = [participation EXCEPT ![u].password = q]
        PROVE  participation' \in [Users -> P]
    BY <1>2, <1>3
  <1>4. ASSUME NEW u \in Users, NEW S \in SUBSET Addresses,
               participation' = [participation EXCEPT ![u].ip = S]
        PROVE  participation' \in [Users -> P]
    BY <1>2, <1>4
  <1>5. ASSUME NEW u \in Users, participation' = [participation EXCEPT ![u].hidden = ~@]
        PROVE  participation' \in [Users -> P]
    BY <1>2, <1>5, ZenonT(30)
  <1>6. ASSUME NEW u \in Users, participation' = [participation EXCEPT ![u] = NotRegistered]
        PROVE  participation' \in [Users -> P]
    BY <1>1, <1>2, <1>6
  <1>7. ASSUME NEW u \in Users, NEW q \in Q, user_password' = [user_password EXCEPT ![u] = q]
        PROVE  user_password' \in [Users -> Q]
    BY <1>2, <1>7
  <1> HIDE DEF P, NotRegistered, Registered
  <1> SUFFICES user_password' \in [Users -> Q] /\ participation' \in [Users -> P]
    BY DEF P
  <1> QED  BY <1>1, <1>2, <1>3, <1>4, <1>5, <1>6, <1>7, Zenon DEF AdminChanges

\* A cookie just given is accepted in the next request, unless the address logs in.
LEMMA GivenIsAccepted ==
    ASSUME AuthInv, NEW b \in Browsers, NEW u \in Users, GivesCookie(b, u),
           UNCHANGED <<settings, user_password, participation, address, clock>>,
           ByAddress(b) = {}
    PROVE  AuthenticateRequest(b).users' = {u}
  <1>1. /\ ByAddress(b)' = {} /\ "allow_password_authentication" \in settings'
    BY DEF ByAddress, OfAddress, Registered, GivesCookie
  <1>2. AuthenticateRequest(b).users' = {v \in FromCookie(b) : Admitted(v, address[b])}'
    <2>1. CookieTelling'
      BY CookieTells, PTL
    <2> QED  BY <1>1, <2>1 DEF CookieTelling
  <1>3. Admitted(u, address[b])' /\ u \in Registered'
    BY DEF Admitted, GivesCookie, Registered
  <1>4. /\ cookie'[b] # NoValue
        /\ cookie'[b].user = u /\ cookie'[b].update = clock'
        /\ cookie'[b].password = GetPassword(u)'
    <2>1. cookie'[b] = NewCookie(u)
      BY CookieGiven
    <2>2. NewCookie(u) # NoValue
      BY NewCookieTyped, AuthAssumption DEF AuthInv
    <2>3. GetPassword(u)' = GetPassword(u)
      BY DEF GetPassword
    <2> QED  BY <2>1, <2>2, <2>3, NewCookieTyped DEF AuthInv
  <1>5. clock' - cookie'[b].update <= CookieDuration
    BY <1>4, AuthAssumption DEF AuthInv, AuthTypes
  <1>6. FromCookie(b)' = {u}
    BY <1>3, <1>4, <1>5 DEF FromCookie
  <1> QED  BY <1>2, <1>3, <1>6

LoginEnough ==
    \A b \in Browsers, u \in Users :
        /\ cookie'[b] # NoValue /\ cookie'[b] # cookie[b] /\ cookie'[b].user = u
        /\ ByAddress(b) = {}
        => AuthenticateRequest(b).users' = {u}

LEMMA AuthStep == AuthInv /\ [AuthNext]_authVars => AuthInv' /\ LoginEnough
  <1> SUFFICES ASSUME AuthInv, [AuthNext]_authVars  PROVE AuthInv' /\ LoginEnough
    OBVIOUS
  <1>1. ASSUME NEW b \in Browsers, CookieStaysOrGoes(b),
               UNCHANGED <<settings, user_password, participation, address, clock>>
        PROVE  AuthInv' /\ LoginEnough
    <2>1. AuthTypes'
      BY <1>1, CookieLeft DEF AuthInv, AuthTypes
    <2>2. \A c \in Browsers : cookie'[c] # NoValue => cookie'[c] = cookie[c]
      BY <1>1, CookieLeft
    <2> QED  BY <1>1, <2>1, <2>2, CookieLeft DEF AuthInv, LoginEnough
  <1>2. ASSUME NEW b \in Browsers, NEW u \in Users, GivesCookie(b, u),
               UNCHANGED <<settings, user_password, participation, address, clock>>
        PROVE  AuthInv' /\ LoginEnough
    <2>1. AuthTypes'
      BY <1>2, CookieGiven DEF AuthInv, AuthTypes
    <2>2. ByAddress(b) = {} => AuthenticateRequest(b).users' = {u}
      BY <1>2, GivenIsAccepted
    <2>3. cookie'[b].user = u /\ \A c \in Browsers \ {b} : cookie'[c] = cookie[c]
      BY <1>2, CookieGiven, NewCookieTyped DEF AuthInv
    <2>4. LoginEnough
      BY <2>2, <2>3 DEF LoginEnough
    <2> QED  BY <1>2, <2>1, <2>4, CookieGiven DEF AuthInv
  <1>3. ASSUME UNCHANGED <<cookie, active>>, clock' \in Nat,
               user_password' \in [Users -> Passwords \cup {NoValue}],
               participation' \in [Users -> [registered : BOOLEAN,
                                             password : Passwords \cup {NoValue},
                                             ip : (SUBSET Addresses) \cup {NoValue},
                                             hidden : BOOLEAN]]
        PROVE  AuthInv' /\ LoginEnough
    <2>1. AuthTypes' /\ \A b \in Browsers : NotNewer(b)'
      BY <1>3 DEF AuthInv, AuthTypes, NotNewer
    <2> QED  BY <1>3, <2>1 DEF AuthInv, LoginEnough
  <1>4. ASSUME NEW b \in Browsers, NEW refresh \in BOOLEAN, Request(b, refresh)
        PROVE  AuthInv' /\ LoginEnough
    <2>1. UNCHANGED <<settings, user_password, participation, address, clock>>
      BY <1>4 DEF Request
    <2> QED  BY <1>1, <1>2, <1>4, <2>1, RequestEffect DEF AuthInv
  <1>5. ASSUME NEW b \in Browsers, NEW u \in Users, NEW p \in Passwords, LoginHandler(b, u, p)
        PROVE  AuthInv' /\ LoginEnough
    <2>1. UNCHANGED <<settings, user_password, participation, address, clock>>
      BY <1>5 DEF LoginHandler
    <2> QED  BY <1>1, <1>2, <1>5, <2>1, LoginEffect DEF AuthInv
  <1>6. ASSUME NEW b \in Browsers, LogoutHandler(b)  PROVE AuthInv' /\ LoginEnough
    BY <1>1, <1>6 DEF LogoutHandler, CookieStaysOrGoes
  <1>7. ASSUME NEW b \in Browsers, Moves(b)  PROVE AuthInv' /\ LoginEnough
    BY <1>3, <1>7 DEF Moves, AuthInv, AuthTypes
  <1>8. ASSUME NEW u \in Users, NEW p \in Passwords, NEW new \in BOOLEAN,
               RegistrationHandler(u, p, new)
        PROVE  AuthInv' /\ LoginEnough
    BY <1>3, <1>8 DEF RegistrationHandler, NotRegistered, AuthInv, AuthTypes
  <1>9. CASE AdminChanges
    BY <1>3, <1>9, AdminTyped DEF AuthInv, AuthTypes, AdminChanges
  <1>10. CASE ClockTick
    BY <1>3, <1>10 DEF ClockTick, AuthInv, AuthTypes
  <1>11. CASE UNCHANGED authVars
    BY <1>3, <1>11 DEF authVars, AuthInv, AuthTypes
  <1> QED  BY <1>4, <1>5, <1>6, <1>7, <1>8, <1>9, <1>10, <1>11 DEF AuthNext

LEMMA SessionsEnd == AuthInv => \A b \in Browsers : SessionEnds(b)
  <1> SUFFICES ASSUME AuthInv, NEW b \in Browsers,
                      AuthenticateRequest(b).by_cookie, AuthenticateRequest(b).users # {}
               PROVE  /\ clock - active[b] <= CookieDuration
                      /\ \A u \in AuthenticateRequest(b).users :
                            \/ cookie[b].password = participation[u].password
                            \/ /\ participation[u].password = NoValue
                               /\ cookie[b].password = user_password[u]
    BY DEF SessionEnds
  <1>1. \A u \in AuthenticateRequest(b).users : u \in FromCookie(b)
    BY RecognisedByCookie
  <1>2. \A u \in FromCookie(b) : /\ cookie[b] # NoValue
                                 /\ clock - cookie[b].update <= CookieDuration
                                 /\ cookie[b].password = GetPassword(u)
    BY DEF FromCookie
  <1>3. cookie[b] \in Cookies /\ clock - cookie[b].update <= CookieDuration
    BY <1>1, <1>2 DEF AuthInv, AuthTypes
  <1>4. active[b] \in Nat /\ cookie[b].update <= active[b]
    BY <1>1, <1>2 DEF AuthInv, NotNewer
  <1>5. clock - active[b] <= CookieDuration
    BY <1>3, <1>4, AuthAssumption DEF AuthInv, AuthTypes, Cookies
  <1> QED  BY <1>1, <1>2, <1>5 DEF GetPassword

(* For any users, browsers, addresses and passwords, and whatever          *)
(* administrators change: a login that is accepted is enough for the next  *)
(* request (NewCookie is what authenticate_request accepts), and a browser *)
(* left alone for longer than cookie_duration is not recognised by its     *)
(* cookie, nor is one whose cookie has a password that was changed.        *)
THEOREM SessionsStaySound == AuthSpec => SessionsSound
  <1>1. AuthInv /\ [AuthNext]_authVars => LoginEnough
    BY AuthStep
  <1>2. AuthInv /\ [AuthNext]_authVars => AuthInv'
    BY AuthStep
  <1>3. AuthSpec => []AuthInv
    BY AuthStarts, <1>2, PTL DEF AuthSpec
  <1>4. AuthSpec => [][LoginEnough]_authVars
    BY <1>1, <1>3, PTL DEF AuthSpec
  <1>5. AuthSpec => LoginIsEnough
    BY <1>4 DEF LoginIsEnough, LoginEnough
  <1>6. AuthSpec => [](\A b \in Browsers : SessionEnds(b))
    BY <1>3, SessionsEnd, PTL
  <1> QED  BY <1>5, <1>6 DEF SessionsSound

-----------------------------------------------------------------------------
(* ContestServer: types.                                                   *)

Items == [kind : ItemKinds, task : Tasks \cup {None}, timestamp : Nat, official : BOOLEAN]

ContestTypes ==
    /\ contest \in Contests
    /\ now \in Nat
    /\ starting_time \in Nat \cup {None}
    /\ items \in Seq(Items)
    /\ request \in [Handlers -> Requests \cup {Idle}]

\* Nothing comes from the future, and a request to start does not take long.
InThePast ==
    /\ starting_time # None => starting_time <= now
    /\ \A i \in DOMAIN items : items[i].timestamp <= now
    /\ \A h \in Handlers : request[h] # Idle =>
          /\ request[h].timestamp <= now
          /\ request[h].kind = "start" => now - request[h].timestamp <= MaxHandling

\* The ways a step may change the requests and the rows.
Arrives(h, r) ==
    /\ request[h] = Idle
    /\ r \in Requests /\ r.timestamp = now /\ r.stage = "check"
    /\ request' = [request EXCEPT ![h] = r] /\ items' = items
    /\ starting_time' = starting_time /\ now' = now

Advances(h) ==
    /\ request[h] # Idle
    /\ request' = [request EXCEPT ![h].stage = "commit"] /\ items' = items
    /\ starting_time' = starting_time /\ now' = now

Leaves(h) ==
    /\ request[h] # Idle
    /\ request' = [request EXCEPT ![h] = Idle] /\ items' = items
    /\ starting_time' = starting_time /\ now' = now

Commits(h, kind) ==
    /\ kind \in ItemKinds
    /\ request[h] # Idle /\ request[h].kind = kind /\ request[h].stage = "commit"
    /\ items' = Append(items, [kind |-> kind, task |-> request[h].task,
                               timestamp |-> request[h].timestamp,
                               official |-> request[h].official])
    /\ request' = [request EXCEPT ![h] = Idle]
    /\ starting_time' = starting_time /\ now' = now

Starts(h) ==
    /\ request[h] # Idle /\ request[h].kind = "start"
    /\ request' = [request EXCEPT ![h] = Idle] /\ items' = items
    /\ starting_time' = request[h].timestamp /\ now' = now

LEMMA ContestConstants ==
    /\ MaxTime \in Nat /\ MaxHandling \in Nat
    /\ None \notin Int /\ Idle \notin Requests
    /\ IsFiniteSet(Handlers) /\ Cardinality(Handlers) \in Nat /\ Cardinality(Handlers) >= 1
  <1>1. /\ MaxTime \in Nat /\ MaxHandling \in Nat
        /\ None \notin Int /\ Idle \notin Requests
        /\ IsFiniteSet(Handlers) /\ Handlers # {}
    BY ContestAssumption
  <1>2. Cardinality(Handlers) \in Nat /\ Cardinality(Handlers) # 0
    BY <1>1, FS_CardinalityType, FS_EmptySet
  <1> QED  BY <1>1, <1>2

LEMMA ArriveEffect ==
    ASSUME ContestTypes, NEW h \in Handlers, NEW kind \in ItemKinds \cup {"token", "start"},
           NEW task \in Tasks \cup {None}, NEW submission \in 0 .. Len(items),
           Arrive(h, kind, task, submission)
    PROVE  \E r \in Requests :
              /\ Arrives(h, r) /\ r.kind = kind /\ r.timestamp = now
              /\ r.official = (ComputeActualPhase(now, contest, Participation).phase = 0)
              /\ ActualPhaseRequired(OpenPhases(kind),
                     ComputeActualPhase(now, contest, Participation).phase, contest.unrestricted)
  <1> DEFINE phase == ComputeActualPhase(now, contest, Participation).phase
             r == [kind |-> kind, task |-> task, timestamp |-> now, official |-> (phase = 0),
                   submission |-> submission, stage |-> "check"]
  <1>1. /\ request[h] = Idle /\ request' = [request EXCEPT ![h] = r]
        /\ ActualPhaseRequired(OpenPhases(kind), phase, contest.unrestricted)
        /\ UNCHANGED <<contest, now, starting_time, items, tokens>>
    BY DEF Arrive
  <1> HIDE DEF phase
  <1>2. submission \in Nat
    BY DEF ContestTypes
  <1>3. r \in Requests
    BY <1>2 DEF Requests, ContestTypes
  <1>4. Arrives(h, r)
    BY <1>1, <1>3 DEF Arrives
  <1>5. r.kind = kind /\ r.timestamp = now /\ r.official = (phase = 0)
    OBVIOUS
  <1> HIDE DEF r
  <1> QED  BY <1>1, <1>3, <1>4, <1>5 DEF phase

\* What a request to send something was checked against when it was accepted.
Accepted(h) ==
    /\ request[h].kind = "print" => WithinPrintLimit
    /\ request[h].kind \in {"submission", "user_test"} =>
          WithinLimits(request[h].kind, request[h].task, request[h].timestamp)

LEMMA HandlerEffect ==
    ASSUME ContestTypes, NEW h \in Handlers,
           \/ AcceptSubmission(h) \/ AcceptUserTest(h) \/ AcceptPrintJob(h) \/ Unacceptable(h)
           \/ SubmitHandler(h) \/ UserTestHandler(h) \/ PrintingHandler(h)
           \/ AcceptToken(h) \/ UseTokenHandler(h) \/ StartHandler(h)
    PROVE  /\ contest' = contest
           /\ \/ Advances(h) /\ Accepted(h)
              \/ Leaves(h)
              \/ \E kind \in ItemKinds : Commits(h, kind)
              \/ Starts(h)
  <1>1. CASE AcceptSubmission(h)
    BY <1>1, Zenon DEF AcceptSubmission, Check, At, Advance, Advances, Accepted
  <1>2. CASE AcceptUserTest(h)
    BY <1>2, Zenon DEF AcceptUserTest, Check, At, Advance, Advances, Accepted
  <1>3. CASE AcceptPrintJob(h)
    BY <1>3, Zenon DEF AcceptPrintJob, Check, At, Advance, Advances, Accepted
  <1>4. CASE Unacceptable(h)
    BY <1>4 DEF Unacceptable, Ends, Leaves
  <1>5. CASE SubmitHandler(h) \/ UserTestHandler(h) \/ PrintingHandler(h)
    <2>1. PICK kind \in ItemKinds : CommitItem(h, kind)
      BY <1>5 DEF SubmitHandler, UserTestHandler, PrintingHandler, ItemKinds
    <2>2. Commits(h, kind) /\ contest' = contest
      BY <2>1 DEF CommitItem, At, Ends, Commits
    <2> QED  BY <2>2
  <1>6. CASE AcceptToken(h)
    <2>1. /\ At(h, {"token"}, "check") /\ (Advance(h, "commit") \/ Ends(h))
          /\ UNCHANGED <<contest, now, starting_time, items, tokens>>
      BY <1>6 DEF AcceptToken
    <2>2. CASE Advance(h, "commit")
      BY <2>1, <2>2 DEF At, Advance, Advances, Accepted
    <2>3. CASE Ends(h)
      BY <2>1, <2>3 DEF At, Ends, Leaves
    <2> QED  BY <2>1, <2>2, <2>3
  <1>7. CASE UseTokenHandler(h)
    BY <1>7 DEF UseTokenHandler, At, Ends, Leaves
  <1>8. CASE StartHandler(h)
    BY <1>8 DEF StartHandler, At, Ends, Starts
  <1> QED  BY <1>1, <1>2, <1>3, <1>4, <1>5, <1>6, <1>7, <1>8

Stays == UNCHANGED <<contest, now, starting_time, items, request>>

Passes ==
    /\ now' = now + 1 /\ UNCHANGED <<contest, starting_time, items, request>>
    /\ \A h \in Handlers : request[h] # Idle /\ request[h].kind = "start"
                              => now - request[h].timestamp < MaxHandling

\* A request comes in, in a phase its handler is open in.
Enters(h, r) ==
    LET phase == ComputeActualPhase(now, contest, Participation).phase
    IN  /\ Arrives(h, r) /\ contest' = contest
        /\ r.official = (phase = 0)
        /\ ActualPhaseRequired(OpenPhases(r.kind), phase, contest.unrestricted)

LEMMA StepEffect ==
    ASSUME ContestTypes, [ContestNext]_contestVars
    PROVE  \/ Stays \/ Passes
           \/ \E h \in Handlers :
                 \/ \E r \in Requests : Enters(h, r)
                 \/ /\ contest' = contest
                    /\ \/ Advances(h) /\ Accepted(h)
                       \/ Leaves(h)
                       \/ \E kind \in ItemKinds : Commits(h, kind)
                       \/ Starts(h)
  <1>1. CASE UNCHANGED contestVars
    BY <1>1 DEF contestVars, Stays
  <1>2. CASE Tick
    BY <1>2 DEF Tick, Passes
  <1>3. ASSUME NEW h \in Handlers, NEW kind \in ItemKinds \cup {"token", "start"},
               NEW task \in Tasks \cup {None}, NEW submission \in 0 .. Len(items),
               Arrive(h, kind, task, submission)
        PROVE  \E r \in Requests : Enters(h, r)
    <2>1. contest' = contest
      BY <1>3 DEF Arrive
    <2>2. PICK r \in Requests :
              /\ Arrives(h, r) /\ r.kind = kind /\ r.timestamp = now
              /\ r.official = (ComputeActualPhase(now, contest, Participation).phase = 0)
              /\ ActualPhaseRequired(OpenPhases(kind),
                     ComputeActualPhase(now, contest, Participation).phase, contest.unrestricted)
      BY <1>3, ArriveEffect
    <2>3. Enters(h, r)
      BY <2>1, <2>2 DEF Enters
    <2> QED  BY <2>3
  <1>4. ASSUME NEW h \in Handlers,
           \/ AcceptSubmission(h) \/ AcceptUserTest(h) \/ AcceptPrintJob(h) \/ Unacceptable(h)
           \/ SubmitHandler(h) \/ UserTestHandler(h) \/ PrintingHandler(h)
           \/ AcceptToken(h) \/ UseTokenHandler(h) \/ StartHandler(h)
        PROVE  /\ contest' = contest
               /\ \/ Advances(h) /\ Accepted(h)
                  \/ Leaves(h)
                  \/ \E kind \in ItemKinds : Commits(h, kind)
                  \/ Starts(h)
    BY <1>4, HandlerEffect
  <1>5. CASE ContestNext
    <2>1. CASE Tick
      BY <1>2, <2>1
    <2>2. CASE \E h \in Handlers, kind \in ItemKinds \cup {"token", "start"},
                  task \in Tasks \cup {None}, submission \in 0 .. Len(items) :
                     Arrive(h, kind, task, submission)
      BY <1>3, <2>2, Zenon
    <2>3. CASE \E h \in Handlers :
           \/ AcceptSubmission(h) \/ AcceptUserTest(h) \/ AcceptPrintJob(h) \/ Unacceptable(h)
           \/ SubmitHandler(h) \/ UserTestHandler(h) \/ PrintingHandler(h)
           \/ AcceptToken(h) \/ UseTokenHandler(h) \/ StartHandler(h)
      BY <1>4, <2>3, Zenon
    <2> QED  BY <1>5, <2>1, <2>2, <2>3, Zenon DEF ContestNext
  <1> QED  BY <1>1, <1>5

-----------------------------------------------------------------------------

LEMMA ContestTyped ==
    ASSUME ContestTypes, [ContestNext]_contestVars  PROVE ContestTypes'
  <1>1. CASE Stays
    BY <1>1 DEF Stays, ContestTypes
  <1>2. CASE Passes
    BY <1>2 DEF Passes, ContestTypes
  <1>3. ASSUME NEW h \in Handlers, NEW r \in Requests, Enters(h, r)  PROVE ContestTypes'
    BY <1>3 DEF Enters, Arrives, ContestTypes
  <1>4. ASSUME NEW h \in Handlers, Advances(h), contest' = contest  PROVE ContestTypes'
    <2>1. request[h] \in Requests
      BY <1>4 DEF Advances, ContestTypes
    <2>2. [request[h] EXCEPT !.stage = "commit"] \in Requests
      BY <2>1 DEF Requests
    <2>3. request' = [request EXCEPT ![h] = [request[h] EXCEPT !.stage = "commit"]]
      BY <1>4 DEF Advances
    <2> QED  BY <1>4, <2>2, <2>3 DEF Advances, ContestTypes
  <1>5. ASSUME NEW h \in Handlers, Leaves(h), contest' = contest  PROVE ContestTypes'
    BY <1>5 DEF Leaves, ContestTypes
  <1>6. ASSUME NEW h \in Handlers, NEW kind \in ItemKinds, Commits(h, kind), contest' = contest
        PROVE  ContestTypes'
    <2>1. request[h] \in Requests
      BY <1>6 DEF Commits, ContestTypes
    <2>2. [kind |-> kind, task |-> request[h].task, timestamp |-> request[h].timestamp,
           official |-> request[h].official] \in Items
      BY <2>1 DEF Requests, Items
    <2>3. items' \in Seq(Items)
      BY <1>6, <2>2 DEF Commits, ContestTypes
    <2> QED  BY <1>6, <2>3 DEF Commits, ContestTypes
  <1>7. ASSUME NEW h \in Handlers, Starts(h), contest' = contest  PROVE ContestTypes'
    <2>1. request[h].timestamp \in Nat
      BY <1>7 DEF Starts, ContestTypes, Requests
    <2> QED  BY <1>7, <2>1 DEF Starts, ContestTypes
  <1> QED  BY <1>1, <1>2, <1>3, <1>4, <1>5, <1>6, <1>7, StepEffect, Zenon

LEMMA ItemsTyped ==
    ASSUME ContestTypes, NEW i \in DOMAIN items
    PROVE  items[i] \in Items /\ items[i].timestamp \in Nat /\ items[i].task \in Tasks \cup {None}
  <1>1. items[i] \in Items
    BY DEF ContestTypes
  <1> QED  BY <1>1 DEF Items

\* The handler at work, of whatever kind, keeps the time of its request.
LEMMA PastKept ==
    ASSUME ContestTypes, InThePast, [ContestNext]_contestVars  PROVE InThePast'
  <1> DEFINE Past(r) == /\ r.timestamp <= now
                        /\ r.kind = "start" => now - r.timestamp <= MaxHandling
  <1>1. CASE Stays
    BY <1>1 DEF Stays, InThePast
  <1>2. CASE Passes
    <2>1. \A i \in DOMAIN items : items[i].timestamp \in Nat
      BY ItemsTyped
    <2>2. \A h \in Handlers : request[h] # Idle => request[h].timestamp \in Nat
      BY DEF ContestTypes, Requests
    <2> QED  BY <1>2, <2>1, <2>2, ContestConstants DEF Passes, InThePast, ContestTypes
  <1>3. ASSUME NEW h \in Handlers, NEW r \in Requests, Enters(h, r)  PROVE InThePast'
    <2>1. \A g \in Handlers : request'[g] = IF g = h THEN r ELSE request[g]
      BY <1>3 DEF Enters, Arrives, ContestTypes
    <2>2. r.timestamp = now /\ items' = items /\ starting_time' = starting_time /\ now' = now
      BY <1>3 DEF Enters, Arrives
    <2> QED  BY <2>1, <2>2, ContestConstants DEF InThePast, ContestTypes
  <1>4. ASSUME NEW h \in Handlers, Advances(h)  PROVE InThePast'
    <2>1. request[h] \in Requests
      BY <1>4 DEF Advances, ContestTypes
    <2>2. \A g \in Handlers : IF g = h THEN /\ request'[g].timestamp = request[g].timestamp
                                            /\ request'[g].kind = request[g].kind
                                       ELSE request'[g] = request[g]
      BY <1>4, <2>1 DEF Advances, ContestTypes, Requests
    <2> QED  BY <1>4, <2>2 DEF InThePast, Advances
  <1>5. ASSUME NEW h \in Handlers, Leaves(h)  PROVE InThePast'
    BY <1>5 DEF Leaves, InThePast, ContestTypes
  <1>6. ASSUME NEW h \in Handlers, NEW kind \in ItemKinds, Commits(h, kind)
        PROVE  InThePast'
    <2>1. \A g \in Handlers : request'[g] # Idle => request'[g] = request[g]
      BY <1>6 DEF Commits, ContestTypes
    <2>2. PICK n \in Nat : n = Len(items) /\ DOMAIN items = 1 .. n
      BY DEF ContestTypes
    <2>3. /\ DOMAIN items' = 1 .. n + 1 /\ \A i \in 1 .. n : items'[i] = items[i]
          /\ items'[n + 1].timestamp = request[h].timestamp
      BY <1>6, <2>2 DEF Commits, ContestTypes
    <2>4. \A i \in DOMAIN items' : items'[i].timestamp <= now
      BY <1>6, <2>2, <2>3 DEF InThePast, Commits
    <2> QED  BY <1>6, <2>1, <2>4 DEF InThePast, Commits
  <1>7. ASSUME NEW h \in Handlers, Starts(h)  PROVE InThePast'
    BY <1>7 DEF Starts, InThePast, ContestTypes
  <1> QED  BY <1>1, <1>2, <1>3, <1>4, <1>5, <1>6, <1>7, StepEffect, Zenon

-----------------------------------------------------------------------------
(* Limits. A row that is accepted and not committed takes a place already. *)

Found(kind, T) == {i \in DOMAIN items : items[i].kind = kind /\ items[i].task \in T}

Committing(kind, T) ==
    {h \in Handlers : /\ request[h] # Idle /\ request[h].kind = kind
                      /\ request[h].stage = "commit" /\ request[h].task \in T}

Kept(kind, T, max) ==
    Cardinality(Found(kind, T)) + Cardinality(Committing(kind, T))
        <= max + Cardinality(Handlers) - 1

AnyTask == Tasks \cup {None}

LimitsInv ==
    /\ Kept("print", AnyTask, contest.max_jobs_per_user)
    /\ ~contest.unrestricted => \A kind \in {"submission", "user_test"} :
          /\ contest.limits[kind].max_contest # None =>
                Kept(kind, AnyTask, contest.limits[kind].max_contest)
          /\ contest.limits[kind].max_task # None => \A task \in Tasks :
                Kept(kind, {task}, contest.limits[kind].max_task)

LEMMA CountsType ==
    ASSUME ContestTypes, NEW kind, NEW T
    PROVE  /\ IsFiniteSet(Found(kind, T)) /\ Cardinality(Found(kind, T)) \in Nat
           /\ IsFiniteSet(Committing(kind, T)) /\ Cardinality(Committing(kind, T)) \in Nat
           /\ Cardinality(Committing(kind, T)) <= Cardinality(Handlers)
  <1>1. Committing(kind, T) \in SUBSET Handlers
    BY DEF Committing
  <1>2. PICK n \in Nat : DOMAIN items = 1 .. n
    BY DEF ContestTypes
  <1>3. IsFiniteSet(1 .. n) /\ Found(kind, T) \in SUBSET (1 .. n)
    BY <1>2, FS_Interval DEF Found
  <1> QED  BY <1>1, <1>3, FS_Subset, FS_CardinalityType, ContestConstants

LEMMA AllFound ==
    ASSUME ContestTypes, NEW kind
    PROVE  /\ Found(kind, AnyTask) = OfKind(kind)
           /\ \A task : Found(kind, {task}) = OnTask(kind, task)
  <1>1. \A i \in DOMAIN items : items[i].task \in Tasks \cup {None}
    BY ItemsTyped
  <1> QED  BY <1>1 DEF Found, OfKind, OnTask, AnyTask

\* Whatever is counted, a step keeps it, if it was below the limit when accepted.
LEMMA StepKeeps ==
    ASSUME ContestTypes, NEW kind, NEW T, NEW max \in Nat, Kept(kind, T, max),
           [ContestNext]_contestVars,
           ASSUME NEW h \in Handlers, request[h].kind = kind, request[h].task \in T, Accepted(h)
           PROVE  Cardinality(Found(kind, T)) < max
    PROVE  Kept(kind, T, max)'
  <1> DEFINE F == Found(kind, T)
             C == Committing(kind, T)
  <1>1. ASSUME Found(kind, T)' = F, Committing(kind, T)' \subseteq C  PROVE Kept(kind, T, max)'
    <2>1. IsFiniteSet(C) /\ Cardinality(C) \in Nat /\ Cardinality(F) \in Nat
      BY CountsType
    <2>2. /\ Cardinality(Committing(kind, T)') <= Cardinality(C)
          /\ Cardinality(Committing(kind, T)') \in Nat
      <3> HIDE DEF C
      <3> QED  BY <1>1, <2>1, FS_Subset, FS_CardinalityType
    <2> QED  BY <1>1, <2>1, <2>2, ContestConstants DEF Kept
  <1>2. CASE Stays \/ Passes
    <2>1. Found(kind, T)' = F /\ Committing(kind, T)' = C
      BY <1>2 DEF Stays, Passes, Found, Committing
    <2> QED  BY <1>1, <2>1
  <1>3. ASSUME NEW h \in Handlers, NEW r \in Requests, Enters(h, r)  PROVE Kept(kind, T, max)'
    <2>1. r.stage = "check" /\ request' = [request EXCEPT ![h] = r] /\ items' = items
      BY <1>3 DEF Enters, Arrives
    <2>2. Found(kind, T)' = F /\ Committing(kind, T)' \subseteq C
      BY <2>1 DEF Found, Committing, ContestTypes
    <2> QED  BY <1>1, <2>2
  <1>4. ASSUME NEW h \in Handlers, Advances(h), Accepted(h)  PROVE Kept(kind, T, max)'
    <2>1. request[h] \in Requests
      BY <1>4 DEF Advances, ContestTypes
    <2>2. /\ items' = items /\ request'[h].kind = request[h].kind
          /\ request'[h].task = request[h].task
          /\ \A g \in Handlers \ {h} : request'[g] = request[g]
      BY <1>4, <2>1 DEF Advances, ContestTypes, Requests
    <2>3. Found(kind, T)' = F
      BY <2>2 DEF Found
    <2>4. CASE request[h].kind = kind /\ request[h].task \in T
      <3>1. Cardinality(F) < max
        BY <1>4, <2>4
      <3>2. Cardinality(Committing(kind, T)') <= Cardinality(Handlers)
            /\ Cardinality(Committing(kind, T)') \in Nat
        <4>1. Committing(kind, T)' \in SUBSET Handlers
          BY DEF Committing
        <4> QED  BY <4>1, FS_Subset, FS_CardinalityType, ContestConstants
      <3>3. Cardinality(F) \in Nat
        BY CountsType
      <3> HIDE DEF F
      <3> QED  BY <2>3, <3>1, <3>2, <3>3, ContestConstants DEF Kept
    <2>5. CASE ~(request[h].kind = kind /\ request[h].task \in T)
      <3>1. Committing(kind, T)' \subseteq C
        BY <2>2, <2>5 DEF Committing
      <3> QED  BY <1>1, <2>3, <3>1
    <2> QED  BY <2>4, <2>5
  <1>5. ASSUME NEW h \in Handlers, Leaves(h) \/ Starts(h)  PROVE Kept(kind, T, max)'
    <2>1. Found(kind, T)' = F /\ Committing(kind, T)' \subseteq C
      BY <1>5 DEF Leaves, Starts, Found, Committing, ContestTypes
    <2> QED  BY <1>1, <2>1
  <1>6. ASSUME NEW h \in Handlers, NEW k \in ItemKinds, Commits(h, k)  PROVE Kept(kind, T, max)'
    <2>1. PICK n \in Nat : n = Len(items) /\ DOMAIN items = 1 .. n
      BY DEF ContestTypes
    <2>2. /\ DOMAIN items' = 1 .. n + 1 /\ \A i \in 1 .. n : items'[i] = items[i]
          /\ items'[n + 1].kind = k /\ items'[n + 1].task = request[h].task
      BY <1>6, <2>1 DEF Commits, ContestTypes
    <2>3. request' = [request EXCEPT ![h] = Idle]
      BY <1>6 DEF Commits
    <2>4. Committing(kind, T)' = C \ {h}
      BY <2>3 DEF Committing, ContestTypes
    <2>5. CASE k = kind /\ request[h].task \in T
      <3>1. Found(kind, T)' = F \cup {n + 1} /\ n + 1 \notin F
        BY <2>1, <2>2, <2>5 DEF Found
      <3>2. h \in C
        BY <1>6, <2>5 DEF Committing, Commits
      <3>3. /\ IsFiniteSet(F) /\ Cardinality(F) \in Nat
            /\ IsFiniteSet(C) /\ Cardinality(C) \in Nat
        BY CountsType
      <3> HIDE DEF F, C
      <3>4. Cardinality(F \cup {n + 1}) = Cardinality(F) + 1
        BY <3>1, <3>3, FS_AddElement
      <3>5. Cardinality(C \ {h}) = Cardinality(C) - 1
        BY <3>2, <3>3, FS_RemoveElement
      <3> QED  BY <2>4, <3>1, <3>3, <3>4, <3>5, ContestConstants DEF Kept, F, C
    <2>6. CASE ~(k = kind /\ request[h].task \in T)
      <3>1. Found(kind, T)' = F
        BY <2>1, <2>2, <2>6 DEF Found
      <3> QED  BY <1>1, <2>4, <3>1
    <2> QED  BY <2>5, <2>6
  <1> QED  BY <1>2, <1>3, <1>4, <1>5, <1>6, StepEffect, Zenon

LEMMA ContestFacts ==
    ASSUME NEW c \in Contests
    PROVE  /\ c.start \in Int /\ c.stop \in Int /\ c.start <= c.stop
           /\ c.analysis_start # None =>
                 /\ c.analysis_start \in Int /\ c.analysis_stop \in Int
                 /\ c.stop <= c.analysis_start /\ c.analysis_start <= c.analysis_stop
           /\ c.per_user_time # None => c.per_user_time \in Nat /\ c.per_user_time > MaxHandling
           /\ c.delay_time \in Nat /\ c.extra_time \in Nat /\ c.max_jobs_per_user \in Nat
           /\ \A kind \in {"submission", "user_test"} : LimitsTyped(c.limits[kind])
           /\ RulesTyped(c.token) /\ RulesTyped(c.task_token)
  BY ContestAssumption

LEMMA LimitsKept ==
    ASSUME ContestTypes, LimitsInv, [ContestNext]_contestVars  PROVE LimitsInv'
  <1> USE DEF LimitsTyped
  <1>1. contest' = contest
    BY StepEffect DEF Stays, Passes, Enters
  <1>2. Kept("print", AnyTask, contest.max_jobs_per_user)'
    <2>1. PICK max \in Nat : max = contest.max_jobs_per_user
      BY ContestFacts DEF ContestTypes
    <2>2. ASSUME NEW h \in Handlers, request[h].kind = "print", Accepted(h)
          PROVE  Cardinality(Found("print", AnyTask)) < max
      BY <2>1, <2>2, AllFound DEF Accepted, WithinPrintLimit
    <2>3. Kept("print", AnyTask, max)
      BY <2>1 DEF LimitsInv
    <2>4. Kept("print", AnyTask, max)'
      BY <2>2, <2>3, StepKeeps
    <2> QED  BY <1>1, <2>1, <2>4
  <1>3. ASSUME NEW kind \in {"submission", "user_test"}, ~contest.unrestricted,
               contest.limits[kind].max_contest # None
        PROVE  Kept(kind, AnyTask, contest.limits[kind].max_contest)'
    <2>1. PICK max \in Nat : max = contest.limits[kind].max_contest
      BY <1>3, ContestFacts DEF ContestTypes
    <2>2. ASSUME NEW h \in Handlers, request[h].kind = kind, Accepted(h)
          PROVE  Cardinality(Found(kind, AnyTask)) < max
      BY <1>3, <2>1, <2>2, AllFound DEF Accepted, WithinLimits, CheckMaxNumber
    <2>3. Kept(kind, AnyTask, max)
      BY <1>3, <2>1 DEF LimitsInv
    <2>4. Kept(kind, AnyTask, max)'
      BY <2>2, <2>3, StepKeeps
    <2> QED  BY <1>1, <2>1, <2>4
  <1>4. ASSUME NEW kind \in {"submission", "user_test"}, NEW task \in Tasks,
               ~contest.unrestricted, contest.limits[kind].max_task # None
        PROVE  Kept(kind, {task}, contest.limits[kind].max_task)'
    <2>1. PICK max \in Nat : max = contest.limits[kind].max_task
      BY <1>4, ContestFacts DEF ContestTypes
    <2>2. ASSUME NEW h \in Handlers, request[h].kind = kind, request[h].task \in {task}, Accepted(h)
          PROVE  Cardinality(Found(kind, {task})) < max
      BY <1>4, <2>1, <2>2, AllFound DEF Accepted, WithinLimits, CheckMaxNumber
    <2>3. Kept(kind, {task}, max)
      BY <1>4, <2>1 DEF LimitsInv
    <2>4. Kept(kind, {task}, max)'
      BY <2>2, <2>3, StepKeeps
    <2> QED  BY <1>1, <2>1, <2>4
  <1> QED  BY <1>1, <1>2, <1>3, <1>4 DEF LimitsInv

LEMMA LimitsImplied ==
    ASSUME ContestTypes, LimitsInv  PROVE LimitsNearlyKept
  <1> DEFINE slack == Cardinality(Handlers) - 1
  <1>1. ASSUME NEW kind, NEW T, NEW max \in Nat, Kept(kind, T, max)
        PROVE  Cardinality(Found(kind, T)) <= max + slack
    BY <1>1, CountsType, ContestConstants DEF Kept
  <1>2. Cardinality(OfKind("print")) <= contest.max_jobs_per_user + slack
    BY <1>1, AllFound, ContestFacts DEF LimitsInv, ContestTypes
  <1>3. ASSUME NEW kind \in {"submission", "user_test"}, NEW task \in Tasks, ~contest.unrestricted
        PROVE  /\ contest.limits[kind].max_contest # None =>
                    Cardinality(OfKind(kind)) <= contest.limits[kind].max_contest + slack
               /\ contest.limits[kind].max_task # None =>
                    Cardinality(OnTask(kind, task)) <= contest.limits[kind].max_task + slack
    <2>1. LimitsTyped(contest.limits[kind])
      BY ContestFacts DEF ContestTypes
    <2> QED  BY <1>1, <1>3, <2>1, AllFound DEF LimitsInv, LimitsTyped
  <1> QED  BY <1>2, <1>3 DEF LimitsNearlyKept

-----------------------------------------------------------------------------
(* The pages count as the checks do.                                       *)

LEMMA MinMaxOfTwo ==
    ASSUME NEW a \in Int, NEW b \in Int
    PROVE  /\ Max({a, b}) = IF a >= b THEN a ELSE b
           /\ Min({a, b}) = IF a <= b THEN a ELSE b
  <1>1. CASE a >= b
    BY <1>1 DEF Max, Min
  <1>2. CASE a < b
    BY <1>2 DEF Max, Min
  <1> QED  BY <1>1, <1>2

LEMMA GreatestExists ==
    ASSUME NEW n \in Nat, NEW S \in SUBSET (0 .. n), S # {}
    PROVE  /\ Max(S) \in S /\ Max(S) \in Nat /\ Max(S) <= n
           /\ \A t \in S : t <= Max(S)
  <1> DEFINE T == {n - s : s \in S}
             Below == {ss \in Nat \X Nat : ss[1] < ss[2]}
  <1>1. T \subseteq Nat /\ T # {}
    <2>1. \A s \in S : n - s \in Nat
      OBVIOUS
    <2>2. PICK s \in S : TRUE
      OBVIOUS
    <2>3. n - s \in T
      OBVIOUS
    <2> QED  BY <2>1, <2>3
  <1>2. IsWellFoundedOn(Below, Nat)
    BY NatLessThanWellFounded DEF OpToRel
  <1> HIDE DEF Below
  <1>3. PICK m \in T : \A k \in T : <<k, m>> \notin Below
    <2> HIDE DEF T
    <2> QED  BY <1>1, <1>2, WFMin
  <1>4. PICK s \in S : m = n - s
    OBVIOUS
  <1>5. ASSUME NEW t \in S  PROVE s >= t
    <2>1. n - t \in T /\ n - t \in Nat /\ m \in Nat
      BY <1>1
    <2>2. ~(n - t < m)
      BY <1>3, <2>1 DEF Below
    <2> QED  BY <1>4, <2>1, <2>2
  <1>6. Max(S) \in S /\ \A t \in S : Max(S) >= t
    BY <1>5 DEF Max
  <1>7. Max(S) \in 0 .. n
    BY <1>6
  <1> QED  BY <1>6, <1>7

\* Long after the last row no interval stands in the way.
LEMMA LongAfter ==
    ASSUME ContestTypes, InThePast, NEW min \in 0 .. MaxTime \cup {None},
           NEW found \in SUBSET DOMAIN items
    PROVE  CheckMinInterval(min, now + MaxTime, found)
  <1> SUFFICES ASSUME min # None, found # {}
               PROVE  (now + MaxTime) - Max({items[i].timestamp : i \in found}) >= min
    BY DEF CheckMinInterval
  <1> DEFINE S == {items[i].timestamp : i \in found}
  <1>1. now \in Nat /\ MaxTime \in Nat
    BY ContestConstants DEF ContestTypes
  <1>2. \A i \in found : items[i].timestamp \in 0 .. now
    BY <1>1, ItemsTyped DEF InThePast
  <1>3. S \in SUBSET (0 .. now) /\ S # {}
    BY <1>2
  <1> HIDE DEF S
  <1>4. Max(S) \in Nat /\ Max(S) <= now
    BY <1>1, <1>3, GreatestExists
  <1> QED  BY <1>1, <1>4 DEF S

LEMMA LeftImplied ==
    ASSUME ContestTypes, InThePast  PROVE LeftAsShown
  <1> SUFFICES ASSUME NEW kind \in {"submission", "user_test"}, NEW task \in Tasks,
                      ~contest.unrestricted
               PROVE  LeftToSend(kind, task) = 0 <=> ~WithinLimits(kind, task, now + MaxTime)
    BY DEF LeftAsShown
  <1> DEFINE limits == contest.limits[kind]
             x == limits.max_contest
             y == limits.max_task
  <1>1. /\ x \in Nat \cup {None} /\ y \in Nat \cup {None}
        /\ limits.min_contest \in 0 .. MaxTime \cup {None}
        /\ limits.min_task \in 0 .. MaxTime \cup {None}
    <2>1. LimitsTyped(limits)
      BY ContestFacts DEF ContestTypes
    <2> QED  BY <2>1 DEF LimitsTyped
  <1>2. PICK m \in Nat, n \in Nat : m = Cardinality(OfKind(kind)) /\ n = Cardinality(OnTask(kind, task))
    BY AllFound, CountsType
  <1>3. OfKind(kind) \in SUBSET DOMAIN items /\ OnTask(kind, task) \in SUBSET DOMAIN items
    BY DEF OfKind, OnTask
  <1>4. WithinLimits(kind, task, now + MaxTime) <=> (x # None => m < x) /\ (y # None => n < y)
    <2>1. /\ CheckMinInterval(limits.min_contest, now + MaxTime, OfKind(kind))
          /\ CheckMinInterval(limits.min_task, now + MaxTime, OnTask(kind, task))
      BY <1>1, <1>3, LongAfter
    <2> QED  BY <1>2, <2>1 DEF WithinLimits, CheckMaxNumber
  <1> DEFINE left(max, c) == IF max = None THEN {} ELSE {max - c}
             known == left(x, m) \cup left(y, n)
  <1>5. LeftToSend(kind, task) = IF known = {} THEN None ELSE Max({0, Min(known)})
    BY <1>2 DEF LeftToSend
  <1>6. CASE x = None /\ y = None
    <2>1. LeftToSend(kind, task) = None
      BY <1>5, <1>6
    <2> QED  BY <1>4, <1>6, <2>1, ContestConstants
  <1>7. ASSUME NEW a \in Int, NEW b \in Int, known = {a, b}
        PROVE  LeftToSend(kind, task) = 0 <=> a <= 0 \/ b <= 0
    <2> HIDE DEF known
    <2>1. LeftToSend(kind, task) = Max({0, Min({a, b})})
      BY <1>5, <1>7
    <2>2. Min({a, b}) = IF a <= b THEN a ELSE b
      BY MinMaxOfTwo
    <2>3. Max({0, Min({a, b})}) = IF 0 >= Min({a, b}) THEN 0 ELSE Min({a, b})
      BY <2>2, MinMaxOfTwo
    <2> QED  BY <2>1, <2>2, <2>3
  <1>8. CASE x # None /\ y = None
    <2>1. x \in Nat /\ known = {x - m, x - m}
      BY <1>1, <1>8
    <2>2. x - m \in Int
      BY <2>1
    <2>3. LeftToSend(kind, task) = 0 <=> x - m <= 0
      <3> HIDE DEF known, x, y
      <3> QED  BY <1>7, <2>1, <2>2
    <2> QED  BY <1>4, <1>8, <2>1, <2>3
  <1>9. CASE x = None /\ y # None
    <2>1. y \in Nat /\ known = {y - n, y - n}
      BY <1>1, <1>9
    <2>2. y - n \in Int
      BY <2>1
    <2>3. LeftToSend(kind, task) = 0 <=> y - n <= 0
      <3> HIDE DEF known, x, y
      <3> QED  BY <1>7, <2>1, <2>2
    <2> QED  BY <1>4, <1>9, <2>1, <2>3
  <1>10. CASE x # None /\ y # None
    <2>1. x \in Nat /\ y \in Nat /\ known = {x - m, y - n}
      BY <1>1, <1>10
    <2>2. x - m \in Int /\ y - n \in Int
      BY <2>1
    <2>3. LeftToSend(kind, task) = 0 <=> x - m <= 0 \/ y - n <= 0
      <3> HIDE DEF known, x, y
      <3> QED  BY <1>7, <2>1, <2>2
    <2> QED  BY <1>4, <1>10, <2>1, <2>3
  <1> QED  BY <1>6, <1>8, <1>9, <1>10

-----------------------------------------------------------------------------
(* Phases. What compute_actual_phase answers, as a table: for a contest c, *)
(* at time t, with the contestant's own frame s .. e.                      *)

Is(a, phase, begin, end) == a.phase = phase /\ a.begin = begin /\ a.end = end

Latest(a, b) == IF a >= b THEN a ELSE b

AfterTable(a, t, c, begin, e) ==
    \/ c.analysis_start = None /\ Is(a, 4, begin, None)
    \/ c.analysis_start # None /\ t < c.analysis_start /\ Is(a, 2, begin, c.analysis_start)
    \/ /\ c.analysis_start # None /\ c.analysis_start <= t /\ t <= c.analysis_stop
       /\ Is(a, 3, Latest(c.analysis_start, e), c.analysis_stop)
    \/ /\ c.analysis_start # None /\ c.analysis_stop < t
       /\ Is(a, 4, Latest(c.analysis_stop, e), None)

KnownTable(a, t, c, s, e) ==
    \/ t < c.start /\ Is(a, -2, None, c.start)
    \/ c.start <= t /\ t < s /\ Is(a, -1, c.start, s)
    \/ s <= t /\ t <= e /\ Is(a, 0, s, e)
    \/ e < t /\ t <= c.stop /\ Is(a, 1, e, c.stop)
    \/ e < t /\ c.stop < t /\ AfterTable(a, t, c, Latest(c.stop, e), e)

UnknownTable(a, t, c) ==
    \/ t < c.start /\ Is(a, -2, None, c.start)
    \/ c.start <= t /\ t <= c.stop /\ Is(a, -1, c.start, c.stop)
    \/ c.stop < t /\ AfterTable(a, t, c, c.stop, c.stop)

\* A time brought into the contest.
Clamped(c, t) == IF t <= c.start THEN c.start ELSE IF t >= c.stop THEN c.stop ELSE t

LEMMA WithinIsClamped ==
    ASSUME NEW c \in Contests, NEW t \in Int
    PROVE  WithinContest(c, t) = Clamped(c, t) /\ Clamped(c, t) \in Int
  <1>1. c.start \in Int /\ c.stop \in Int /\ c.start <= c.stop
    BY ContestFacts
  <1>2. Max({t, c.start}) = Latest(t, c.start) /\ Latest(t, c.start) \in Int
    BY <1>1, MinMaxOfTwo DEF Latest
  <1>3. Min({Latest(t, c.start), c.stop}) = Clamped(c, t) /\ Clamped(c, t) \in Int
    <2>1. Min({Latest(t, c.start), c.stop}) =
             IF Latest(t, c.start) <= c.stop THEN Latest(t, c.start) ELSE c.stop
      BY <1>1, <1>2, MinMaxOfTwo
    <2> QED  BY <1>1, <2>1 DEF Latest, Clamped
  <1> QED  BY <1>2, <1>3 DEF WithinContest

\* The frame of a contestant: inside the contest, but for what was granted.
LEMMA FrameBounds ==
    ASSUME ContestTypes, ~FrameUnknown(contest, Participation)
    PROVE  /\ ActualStart(contest, Participation) \in Int
           /\ ActualStop(contest, Participation) \in Int
           /\ contest.start <= ActualStart(contest, Participation)
           /\ ActualStart(contest, Participation) <= ActualStop(contest, Participation)
  <1> DEFINE c == contest
  <1>1. /\ c \in Contests /\ c.start \in Int /\ c.stop \in Int /\ c.start <= c.stop
        /\ c.delay_time \in Nat /\ c.extra_time \in Nat
        /\ c.per_user_time # None => c.per_user_time \in Nat
    BY ContestFacts DEF ContestTypes
  <1>2. /\ Participation.starting_time = starting_time
        /\ Participation.delay_time = c.delay_time /\ Participation.extra_time = c.extra_time
    BY DEF Participation
  <1>3. CASE c.per_user_time = None
    <2>1. /\ ActualStart(c, Participation) = c.start + c.delay_time
          /\ ActualStop(c, Participation) = c.stop + c.delay_time + c.extra_time
      BY <1>2, <1>3 DEF ActualStart, ActualStop
    <2> QED  BY <1>1, <2>1
  <1>4. CASE c.per_user_time # None
    <2>1. starting_time \in Nat
      BY <1>2, <1>4 DEF FrameUnknown, ContestTypes
    <2>2. /\ ActualStart(c, Participation) = Clamped(c, starting_time) + c.delay_time
          /\ ActualStop(c, Participation) =
                Clamped(c, starting_time + c.per_user_time) + c.delay_time + c.extra_time
      BY <1>1, <1>2, <1>4, <2>1, WithinIsClamped DEF ActualStart, ActualStop
    <2>3. /\ Clamped(c, starting_time) \in Int /\ c.start <= Clamped(c, starting_time)
          /\ Clamped(c, starting_time + c.per_user_time) \in Int
          /\ Clamped(c, starting_time) <= Clamped(c, starting_time + c.per_user_time)
      BY <1>1, <1>4, <2>1 DEF Clamped
    <2> QED  BY <1>1, <2>2, <2>3
  <1> QED  BY <1>3, <1>4

LEMMA AfterAnswer ==
    ASSUME NEW c \in Contests, NEW p, NEW t \in Int, NEW begin, NEW e \in Int,
           FrameUnknown(c, p) => e = c.stop,
           ~FrameUnknown(c, p) => e = ActualStop(c, p)
    PROVE  AfterTable(AnalysisPhase(t, c, p, begin), t, c, begin, e)
  <1>1. c.analysis_start # None =>
           /\ c.analysis_start \in Int /\ c.analysis_stop \in Int
           /\ c.stop <= c.analysis_start /\ c.analysis_start <= c.analysis_stop
    BY ContestFacts
  <1>2. ASSUME NEW x \in Int, c.stop <= x  PROVE AfterOwnStop(c, p, x) = Latest(x, e)
    <2>1. CASE FrameUnknown(c, p)
      BY <1>2, <2>1 DEF AfterOwnStop, Latest
    <2>2. CASE ~FrameUnknown(c, p)
      BY <1>2, <2>2, MinMaxOfTwo DEF AfterOwnStop, Latest
    <2> QED  BY <2>1, <2>2
  <1>3. CASE c.analysis_start = None
    <2>1. AnalysisPhase(t, c, p, begin) = Phase(4, begin, None)
      BY <1>3 DEF AnalysisPhase
    <2> QED  BY <1>3, <2>1 DEF Phase, AfterTable, Is
  <1>4. CASE c.analysis_start # None /\ t < c.analysis_start
    <2>1. AnalysisPhase(t, c, p, begin) = Phase(2, begin, c.analysis_start)
      BY <1>1, <1>4 DEF AnalysisPhase
    <2> QED  BY <1>4, <2>1 DEF Phase, AfterTable, Is
  <1>5. CASE c.analysis_start # None /\ c.analysis_start <= t /\ t <= c.analysis_stop
    <2>1. AnalysisPhase(t, c, p, begin) = Phase(3, Latest(c.analysis_start, e), c.analysis_stop)
      BY <1>1, <1>2, <1>5 DEF AnalysisPhase
    <2> QED  BY <1>5, <2>1 DEF Phase, AfterTable, Is
  <1>6. CASE c.analysis_start # None /\ c.analysis_stop < t
    <2>1. c.stop \in Int /\ c.stop <= c.analysis_stop
      BY <1>1, <1>6, ContestFacts
    <2>2. AnalysisPhase(t, c, p, begin) = Phase(4, Latest(c.analysis_stop, e), None)
      BY <1>1, <1>2, <1>6, <2>1 DEF AnalysisPhase
    <2> QED  BY <1>6, <2>2 DEF Phase, AfterTable, Is
  <1> QED  BY <1>1, <1>3, <1>4, <1>5, <1>6

LEMMA UnknownAnswer ==
    ASSUME ContestTypes, FrameUnknown(contest, Participation), NEW t \in Int
    PROVE  UnknownTable(ComputeActualPhase(t, contest, Participation), t, contest)
  <1> DEFINE c == contest
             a == ComputeActualPhase(t, c, Participation)
  <1>1. c \in Contests /\ c.start \in Int /\ c.stop \in Int /\ c.start <= c.stop
    BY ContestFacts DEF ContestTypes
  <1>2. CASE t < c.start
    <2>1. UnknownFramePhase(t, c) = Phase(-2, None, c.start)
      BY <1>1, <1>2 DEF UnknownFramePhase
    <2>2. a = Phase(-2, None, c.start)
      BY <2>1 DEF ComputeActualPhase, Phase
    <2> HIDE DEF a
    <2>3. UnknownTable(a, t, c)
      BY <1>2, <2>2 DEF UnknownTable, Phase, Is
    <2> QED  BY <2>3 DEF a
  <1>3. CASE c.start <= t /\ t <= c.stop
    <2>1. UnknownFramePhase(t, c) = Phase(-1, c.start, c.stop)
      BY <1>1, <1>3 DEF UnknownFramePhase
    <2>2. a = Phase(-1, c.start, c.stop)
      BY <2>1 DEF ComputeActualPhase, Phase
    <2> HIDE DEF a
    <2>3. UnknownTable(a, t, c)
      BY <1>3, <2>2 DEF UnknownTable, Phase, Is
    <2> QED  BY <2>3 DEF a
  <1>4. CASE c.stop < t
    <2>1. UnknownFramePhase(t, c) = Phase(2, c.stop, None)
      BY <1>1, <1>4 DEF UnknownFramePhase
    <2>2. a = AnalysisPhase(t, c, Participation, c.stop)
      BY <2>1 DEF ComputeActualPhase, Phase
    <2>3. AfterTable(a, t, c, c.stop, c.stop)
      BY <1>1, <2>2, AfterAnswer
    <2> HIDE DEF a
    <2>4. UnknownTable(a, t, c)
      BY <1>4, <2>3 DEF UnknownTable
    <2> QED  BY <2>4 DEF a
  <1> QED  BY <1>1, <1>2, <1>3, <1>4

LEMMA KnownAnswer ==
    ASSUME ContestTypes, ~FrameUnknown(contest, Participation), NEW t \in Int
    PROVE  KnownTable(ComputeActualPhase(t, contest, Participation), t, contest,
                      ActualStart(contest, Participation), ActualStop(contest, Participation))
  <1> DEFINE c == contest
             a == ComputeActualPhase(t, c, Participation)
             main == KnownFramePhase(t, c, Participation)
             s == ActualStart(c, Participation)
             e == ActualStop(c, Participation)
  <1>1. c \in Contests /\ c.start \in Int /\ c.stop \in Int /\ c.start <= c.stop
    BY ContestFacts DEF ContestTypes
  <1>2. s \in Int /\ e \in Int /\ c.start <= s /\ s <= e
    BY FrameBounds
  <1>3. a = IF main.phase = 2 THEN AnalysisPhase(t, c, Participation, main.begin) ELSE main
    BY DEF ComputeActualPhase
  <1>4. Max({c.stop, e}) = Latest(c.stop, e)
    BY <1>1, <1>2, MinMaxOfTwo DEF Latest
  <1>5. main = CASE s <= t /\ t <= e -> Phase(0, s, e)
                 [] c.start <= t /\ t < s -> Phase(-1, c.start, s)
                 [] t < c.start -> Phase(-2, None, c.start)
                 [] e < t /\ t <= c.stop -> Phase(1, e, c.stop)
                 [] e < t /\ c.stop < t -> Phase(2, Max({c.stop, e}), None)
    BY DEF KnownFramePhase
  <1> HIDE DEF a, main, s, e
  <1>6. CASE t < c.start
    <2>1. main = Phase(-2, None, c.start)
      BY <1>1, <1>2, <1>5, <1>6
    <2>2. a = main
      BY <1>3, <2>1 DEF Phase
    <2>3. KnownTable(a, t, c, s, e)
      BY <1>6, <2>1, <2>2 DEF KnownTable, Phase, Is
    <2> QED  BY <2>3 DEF a, s, e
  <1>7. CASE c.start <= t /\ t < s
    <2>1. main = Phase(-1, c.start, s)
      BY <1>1, <1>2, <1>5, <1>7
    <2>2. a = main
      BY <1>3, <2>1 DEF Phase
    <2>3. KnownTable(a, t, c, s, e)
      BY <1>7, <2>1, <2>2 DEF KnownTable, Phase, Is
    <2> QED  BY <2>3 DEF a, s, e
  <1>8. CASE s <= t /\ t <= e
    <2>1. main = Phase(0, s, e)
      BY <1>1, <1>2, <1>5, <1>8
    <2>2. a = main
      BY <1>3, <2>1 DEF Phase
    <2>3. KnownTable(a, t, c, s, e)
      BY <1>8, <2>1, <2>2 DEF KnownTable, Phase, Is
    <2> QED  BY <2>3 DEF a, s, e
  <1>9. CASE e < t /\ t <= c.stop
    <2>1. main = Phase(1, e, c.stop)
      BY <1>1, <1>2, <1>5, <1>9
    <2>2. a = main
      BY <1>3, <2>1 DEF Phase
    <2>3. KnownTable(a, t, c, s, e)
      BY <1>9, <2>1, <2>2 DEF KnownTable, Phase, Is
    <2> QED  BY <2>3 DEF a, s, e
  <1>10. CASE e < t /\ c.stop < t
    <2>1. main = Phase(2, Latest(c.stop, e), None)
      BY <1>1, <1>2, <1>4, <1>5, <1>10
    <2>2. a = AnalysisPhase(t, c, Participation, Latest(c.stop, e))
      BY <1>3, <2>1 DEF Phase
    <2>3. AfterTable(a, t, c, Latest(c.stop, e), e)
      BY <1>1, <1>2, <2>2, AfterAnswer DEF e
    <2>4. KnownTable(a, t, c, s, e)
      BY <1>10, <2>3 DEF KnownTable
    <2> QED  BY <2>4 DEF a, s, e
  <1> QED  BY <1>1, <1>2, <1>6, <1>7, <1>8, <1>9, <1>10

\* The moment is within the boundaries answered, or strictly inside them.
Holds(a, t) == (a.begin = None \/ a.begin <= t) /\ (a.end = None \/ t <= a.end)
Inside(a, t) == (a.begin = None \/ a.begin < t) /\ (a.end = None \/ t < a.end)

Agree(a, t, b, u) ==
    /\ Holds(a, t)
    /\ Inside(a, u) => b.phase = a.phase
    /\ ~Holds(a, u) => b.phase # a.phase
    /\ t <= u => a.phase <= b.phase

\* Two answers after the contest agree; e is where the boundary may be late.
LEMMA AfterAgree ==
    ASSUME NEW c \in Contests, NEW t \in Int, NEW u \in Int, NEW a, NEW b,
           NEW m \in Int, NEW e \in Int, m = Latest(c.stop, e), m < t, m < u,
           AfterTable(a, t, c, m, e), AfterTable(b, u, c, m, e)
    PROVE  Agree(a, t, b, u)
  <1>1. /\ c.stop \in Int /\ None \notin Int
        /\ c.analysis_start # None =>
           /\ c.analysis_start \in Int /\ c.analysis_stop \in Int
           /\ c.stop <= c.analysis_start /\ c.analysis_start <= c.analysis_stop
    BY ContestFacts, ContestConstants
  <1>2. CASE c.analysis_start = None
    BY <1>1, <1>2 DEF AfterTable, Is, Agree, Holds, Inside, Latest
  <1>3. CASE c.analysis_start # None
    BY <1>1, <1>3 DEF AfterTable, Is, Agree, Holds, Inside, Latest
  <1> QED  BY <1>2, <1>3

\* What an answer after the contest says about moments before its end, and the reverse.
LEMMA AfterBounds ==
    ASSUME NEW c \in Contests, NEW t \in Int, NEW a, NEW m \in Int, NEW e \in Int,
           m = Latest(c.stop, e), m < t, AfterTable(a, t, c, m, e)
    PROVE  /\ a.phase \in 2 .. 4 /\ a.begin \in Int /\ m <= a.begin /\ Holds(a, t)
  <1>1. /\ c.stop \in Int /\ None \notin Int
        /\ c.analysis_start # None =>
           /\ c.analysis_start \in Int /\ c.analysis_stop \in Int
           /\ c.stop <= c.analysis_start /\ c.analysis_start <= c.analysis_stop
    BY ContestFacts, ContestConstants
  <1> QED  BY <1>1 DEF AfterTable, Is, Holds, Latest

LEMMA KnownAgree ==
    ASSUME NEW c \in Contests, NEW t \in Int, NEW u \in Int, NEW a, NEW b,
           NEW s \in Int, NEW e \in Int, c.start <= s, s <= e,
           KnownTable(a, t, c, s, e), KnownTable(b, u, c, s, e)
    PROVE  Agree(a, t, b, u)
  <1>1. c.start \in Int /\ c.stop \in Int /\ c.start <= c.stop /\ None \notin Int
    BY ContestFacts, ContestConstants
  <1> DEFINE m == Latest(c.stop, e)
  <1>2. m \in Int /\ c.stop <= m /\ e <= m
    BY <1>1 DEF Latest
  <1>3. \A x \in Int : e < x /\ c.stop < x <=> m < x
    BY <1>1 DEF Latest
  <1> HIDE DEF m
  <1> DEFINE Early(x, y) ==
               \/ y < c.start /\ Is(x, -2, None, c.start)
               \/ c.start <= y /\ y < s /\ Is(x, -1, c.start, s)
               \/ s <= y /\ y <= e /\ Is(x, 0, s, e)
               \/ e < y /\ y <= c.stop /\ Is(x, 1, e, c.stop)
             Late(x, y) == m < y /\ AfterTable(x, y, c, m, e)
  <1>4. Early(a, t) \/ Late(a, t)
    BY <1>3 DEF KnownTable, m
  <1>5. Early(b, u) \/ Late(b, u)
    BY <1>3 DEF KnownTable, m
  <1>6. CASE Late(a, t) /\ Late(b, u)
    BY <1>2, <1>6, AfterAgree DEF m
  <1>7. CASE Early(a, t) /\ Late(b, u)
    <2>1. b.phase \in 2 .. 4 /\ m < u
      BY <1>2, <1>7, AfterBounds DEF m
    <2> QED  BY <1>1, <1>2, <1>7, <2>1 DEF Is, Agree, Holds, Inside
  <1>8. CASE Late(a, t) /\ Early(b, u)
    <2>1. a.phase \in 2 .. 4 /\ m < t /\ a.begin \in Int /\ m <= a.begin /\ Holds(a, t)
      BY <1>2, <1>8, AfterBounds DEF m
    <2>2. u <= m /\ b.phase \in -2 .. 1
      BY <1>1, <1>2, <1>8 DEF Is
    <2> QED  BY <1>1, <1>2, <2>1, <2>2 DEF Agree, Inside
  <1>9. CASE Early(a, t) /\ Early(b, u)
    BY <1>1, <1>9 DEF Is, Agree, Holds, Inside
  <1> QED  BY <1>4, <1>5, <1>6, <1>7, <1>8, <1>9

LEMMA UnknownAgree ==
    ASSUME NEW c \in Contests, NEW t \in Int, NEW u \in Int, NEW a, NEW b,
           UnknownTable(a, t, c), UnknownTable(b, u, c)
    PROVE  Agree(a, t, b, u)
  <1>1. /\ c.start \in Int /\ c.stop \in Int /\ c.start <= c.stop /\ None \notin Int
        /\ c.stop = Latest(c.stop, c.stop)
    BY ContestFacts, ContestConstants DEF Latest
  <1> DEFINE Early(x, y) ==
               \/ y < c.start /\ Is(x, -2, None, c.start)
               \/ c.start <= y /\ y <= c.stop /\ Is(x, -1, c.start, c.stop)
             Late(x, y) == c.stop < y /\ AfterTable(x, y, c, c.stop, c.stop)
  <1>2. (Early(a, t) \/ Late(a, t)) /\ (Early(b, u) \/ Late(b, u))
    BY DEF UnknownTable
  <1>3. CASE Late(a, t) /\ Late(b, u)
    BY <1>1, <1>3, AfterAgree
  <1>4. CASE Early(a, t) /\ Late(b, u)
    <2>1. b.phase \in 2 .. 4 /\ c.stop < u
      BY <1>1, <1>4, AfterBounds
    <2> QED  BY <1>1, <1>4, <2>1 DEF Is, Agree, Holds, Inside
  <1>5. CASE Late(a, t) /\ Early(b, u)
    <2>1. a.phase \in 2 .. 4 /\ c.stop < t /\ a.begin \in Int /\ c.stop <= a.begin /\ Holds(a, t)
      BY <1>1, <1>5, AfterBounds
    <2>2. u <= c.stop /\ b.phase \in -2 .. 1
      BY <1>1, <1>5 DEF Is
    <2> QED  BY <1>1, <2>1, <2>2 DEF Agree, Inside, Holds
  <1>6. CASE Early(a, t) /\ Early(b, u)
    BY <1>1, <1>6 DEF Is, Agree, Holds, Inside
  <1> QED  BY <1>2, <1>3, <1>4, <1>5, <1>6

LEMMA PhasesImplied ==
    ASSUME ContestTypes  PROVE PhaseIntervals
  <1> DEFINE answer(t) == ComputeActualPhase(t, contest, Participation)
  <1>1. ASSUME NEW t \in Int, NEW u \in Int  PROVE Agree(answer(t), t, answer(u), u)
    <2>1. contest \in Contests
      BY DEF ContestTypes
    <2>2. CASE FrameUnknown(contest, Participation)
      <3>1. UnknownTable(answer(t), t, contest) /\ UnknownTable(answer(u), u, contest)
        BY <2>2, UnknownAnswer
      <3> HIDE DEF answer
      <3> QED  BY <2>1, <3>1, UnknownAgree
    <2>3. CASE ~FrameUnknown(contest, Participation)
      <3>1. PICK s \in Int, e \in Int : /\ s = ActualStart(contest, Participation)
                                        /\ e = ActualStop(contest, Participation)
                                        /\ contest.start <= s /\ s <= e
        BY <2>3, FrameBounds
      <3>2. KnownTable(answer(t), t, contest, s, e) /\ KnownTable(answer(u), u, contest, s, e)
        BY <2>3, <3>1, KnownAnswer
      <3> HIDE DEF answer
      <3> QED  BY <2>1, <3>1, <3>2, KnownAgree
    <2> QED  BY <2>2, <2>3
  <1>2. Horizon \subseteq Int
    BY ContestConstants DEF Horizon
  <1> HIDE DEF answer
  <1>3. ASSUME NEW t \in Horizon, NEW u \in Horizon
        PROVE  /\ Holds(answer(t), t)
               /\ Inside(answer(t), u) => answer(u).phase = answer(t).phase
               /\ ~Holds(answer(t), u) => answer(u).phase # answer(t).phase
               /\ t <= u => answer(t).phase <= answer(u).phase
    BY <1>1, <1>2 DEF Agree
  <1> QED  BY <1>3 DEF PhaseIntervals, Holds, Inside, answer

-----------------------------------------------------------------------------
(* Official submissions, sent or stored, lie in the frame, and were sent   *)
(* after every request to start that is still handled.                     *)

OfficialAt(t) ==
    \/ \E i \in DOMAIN items :
          items[i].kind = "submission" /\ items[i].official /\ items[i].timestamp = t
    \/ \E h \in Handlers :
          /\ request[h] # Idle /\ request[h].kind = "submission" /\ request[h].official
          /\ request[h].timestamp = t

InFrame(t) ==
    /\ ~FrameUnknown(contest, Participation)
    /\ ActualStart(contest, Participation) <= t /\ t <= ActualStop(contest, Participation)

\* The contestants whose frame cannot move once it has begun.
FrameFixed == ~contest.unrestricted /\ (contest.per_user_time # None => contest.delay_time = 0)

FrameInv ==
    FrameFixed =>
        /\ \A t \in Nat : OfficialAt(t) => InFrame(t)
        /\ contest.per_user_time # None =>
              \A h \in Handlers : request[h] # Idle /\ request[h].kind = "start" =>
                  \A t \in Nat : OfficialAt(t) => request[h].timestamp <= t

PartOf(c, x) == [starting_time |-> x, delay_time |-> c.delay_time, extra_time |-> c.extra_time]

\* The frame, for one who started at x.
LEMMA OwnFrame ==
    ASSUME NEW c \in Contests, c.per_user_time # None, c.delay_time = 0, NEW x \in Nat
    PROVE  /\ ~FrameUnknown(c, PartOf(c, x))
           /\ ActualStart(c, PartOf(c, x)) = Clamped(c, x)
           /\ ActualStop(c, PartOf(c, x)) = Clamped(c, x + c.per_user_time) + c.extra_time
  <1>1. c.per_user_time \in Nat /\ c.extra_time \in Nat /\ None \notin Int
    BY ContestFacts, ContestConstants
  <1>2. /\ WithinContest(c, x) = Clamped(c, x) /\ Clamped(c, x) \in Int
        /\ WithinContest(c, x + c.per_user_time) = Clamped(c, x + c.per_user_time)
        /\ Clamped(c, x + c.per_user_time) \in Int
    BY <1>1, WithinIsClamped
  <1> QED  BY <1>1, <1>2 DEF FrameUnknown, PartOf, ActualStart, ActualStop

LEMMA OfficialInPast ==
    ASSUME ContestTypes, InThePast, NEW t \in Nat, OfficialAt(t)  PROVE t <= now
  BY DEF OfficialAt, InThePast

\* Requests that arrive: official ones are inside, and "start" is not accepted again.
LEMMA EntersInFrame ==
    ASSUME ContestTypes, InThePast, FrameFixed, NEW h \in Handlers, NEW r \in Requests, Enters(h, r)
    PROVE  /\ r.timestamp = now
           /\ r.official => InFrame(now)
           /\ r.kind = "start" /\ contest.per_user_time # None => FrameUnknown(contest, Participation)
  <1> DEFINE c == contest
             a == ComputeActualPhase(now, c, Participation)
             s == ActualStart(c, Participation)
             e == ActualStop(c, Participation)
  <1>1. /\ r.timestamp = now /\ r.official = (a.phase = 0)
        /\ r.kind = "start" => a.phase = -1
    BY DEF Enters, Arrives, ActualPhaseRequired, OpenPhases, FrameFixed
  <1>2. now \in Int /\ c \in Contests /\ c.start \in Int /\ c.stop \in Int /\ c.start <= c.stop
    BY ContestFacts DEF ContestTypes
  <1>3. CASE FrameUnknown(c, Participation)
    <2>1. UnknownTable(a, now, c)
      BY <1>2, <1>3, UnknownAnswer
    <2> HIDE DEF a
    <2>2. a.phase # 0
      BY <2>1 DEF UnknownTable, AfterTable, Is
    <2> QED  BY <1>1, <1>3, <2>2
  <1>4. CASE ~FrameUnknown(c, Participation)
    <2>1. KnownTable(a, now, c, s, e) /\ s \in Int /\ e \in Int /\ c.start <= s /\ s <= e
      BY <1>2, <1>4, KnownAnswer, FrameBounds
    <2> HIDE DEF a, s, e
    <2>2. a.phase = 0 => s <= now /\ now <= e
      BY <2>1 DEF KnownTable, AfterTable, Is
    <2>3. a.phase = -1 => c.start <= now /\ now < s
      BY <2>1 DEF KnownTable, AfterTable, Is
    <2>4. a.phase = 0 => InFrame(now)
      BY <1>4, <2>2 DEF InFrame, s, e
    <2>5. ASSUME c.per_user_time # None, a.phase = -1  PROVE FALSE
      <3>1. starting_time \in Nat /\ starting_time <= now
        BY <1>4, <2>5 DEF FrameUnknown, Participation, ContestTypes, InThePast
      <3>2. Participation = PartOf(c, starting_time)
        BY DEF Participation, PartOf
      <3>3. s = Clamped(c, starting_time)
        BY <1>2, <2>5, <3>1, <3>2, OwnFrame DEF FrameFixed, s
      <3> QED  BY <1>2, <2>3, <2>5, <3>1, <3>3 DEF Clamped
    <2> QED  BY <1>1, <2>4, <2>5
  <1> QED  BY <1>3, <1>4

\* A start that is recorded late does not move the frame off an official submission.
LEMMA StartsInFrame ==
    ASSUME ContestTypes, InThePast, FrameFixed, FrameInv, NEW h \in Handlers, Starts(h),
           contest' = contest, NEW t \in Nat, OfficialAt(t)
    PROVE  InFrame(t)'
  <1> DEFINE c == contest
  <1>1. InFrame(t)
    BY DEF FrameInv
  <1>2. /\ c \in Contests /\ c.start \in Int /\ c.stop \in Int /\ c.start <= c.stop
        /\ c.extra_time \in Nat /\ c.delay_time \in Nat
        /\ c.per_user_time # None => c.per_user_time \in Nat /\ c.per_user_time > MaxHandling
    BY ContestFacts DEF ContestTypes
  <1>3. Participation = PartOf(c, starting_time) /\ Participation' = PartOf(c, starting_time')
    BY DEF Participation, PartOf
  <1>4. CASE c.per_user_time = None
    <2>1. \A x : /\ ~FrameUnknown(c, PartOf(c, x))
                 /\ ActualStart(c, PartOf(c, x)) = c.start + c.delay_time
                 /\ ActualStop(c, PartOf(c, x)) = c.stop + c.delay_time + c.extra_time
      BY <1>4 DEF FrameUnknown, ActualStart, ActualStop, PartOf
    <2> QED  BY <1>1, <1>3, <2>1 DEF InFrame
  <1>5. CASE c.per_user_time # None
    <2>1. PICK x \in Nat : x = request[h].timestamp
      BY DEF Starts, ContestTypes, Requests
    <2>2. starting_time' = x /\ x <= t /\ now - x <= MaxHandling
      BY <1>5, <2>1 DEF Starts, FrameInv, InThePast
    <2>3. starting_time \in Nat /\ c.delay_time = 0
      BY <1>1, <1>5 DEF InFrame, FrameUnknown, Participation, ContestTypes, FrameFixed
    <2>4. /\ Clamped(c, starting_time) <= t
          /\ t <= Clamped(c, starting_time + c.per_user_time) + c.extra_time
      BY <1>1, <1>2, <1>3, <1>5, <2>3, OwnFrame DEF InFrame
    <2>5. t <= now /\ now \in Nat /\ MaxHandling \in Nat
      BY OfficialInPast, ContestConstants DEF ContestTypes
    <2>6. c.start <= t /\ t <= c.stop + c.extra_time
      BY <1>2, <1>5, <2>3, <2>4 DEF Clamped
    <2>7. Clamped(c, x) <= t /\ t <= Clamped(c, x + c.per_user_time) + c.extra_time
      BY <1>2, <1>5, <2>2, <2>5, <2>6 DEF Clamped
    <2> QED  BY <1>2, <1>3, <1>5, <2>2, <2>3, <2>7, OwnFrame DEF InFrame
  <1> QED  BY <1>4, <1>5

LEMMA FrameKept ==
    ASSUME ContestTypes, InThePast, FrameInv, [ContestNext]_contestVars  PROVE FrameInv'
  <1>1. contest' = contest
    BY StepEffect DEF Stays, Passes, Enters
  <1>2. FrameFixed' <=> FrameFixed
    BY <1>1 DEF FrameFixed
  <1> SUFFICES ASSUME FrameFixed  PROVE FrameInv'
    BY <1>2 DEF FrameInv
  <1>3. /\ \A t \in Nat : OfficialAt(t) => InFrame(t)
        /\ contest.per_user_time # None =>
              \A g \in Handlers : request[g] # Idle /\ request[g].kind = "start" =>
                  \A t \in Nat : OfficialAt(t) => request[g].timestamp <= t
    BY DEF FrameInv
  \* The frame stays, and official submissions and requests to start become no more.
  <1>4. ASSUME starting_time' = starting_time,
               \A t \in Nat : OfficialAt(t)' => OfficialAt(t),
               \A g \in Handlers : request'[g] # Idle /\ request'[g].kind = "start" =>
                   /\ request[g] # Idle /\ request[g].kind = "start"
                   /\ request'[g].timestamp = request[g].timestamp
        PROVE  FrameInv'
    <2>1. \A t : InFrame(t)' <=> InFrame(t)
      BY <1>1, <1>4 DEF InFrame, Participation, FrameUnknown
    <2> QED  BY <1>1, <1>3, <1>4, <2>1 DEF FrameInv
  <1>5. CASE Stays \/ Passes
    <2>1. starting_time' = starting_time /\ request' = request /\ items' = items
      BY <1>5 DEF Stays, Passes
    <2> QED  BY <1>4, <2>1 DEF OfficialAt
  <1>6. ASSUME NEW h \in Handlers, NEW r \in Requests, Enters(h, r)  PROVE FrameInv'
    <2>1. /\ r.timestamp = now
          /\ r.official => InFrame(now)
          /\ r.kind = "start" /\ contest.per_user_time # None => FrameUnknown(contest, Participation)
      BY <1>6, EntersInFrame
    <2>2. /\ request' = [request EXCEPT ![h] = r] /\ items' = items /\ request[h] = Idle
          /\ starting_time' = starting_time /\ r # Idle
      BY <1>6, ContestConstants DEF Enters, Arrives
    <2>3. \A g \in Handlers : request'[g] = IF g = h THEN r ELSE request[g]
      BY <2>2 DEF ContestTypes
    <2>4. \A t \in Nat : OfficialAt(t)' => OfficialAt(t) \/ (r.official /\ t = now)
      BY <2>1, <2>2, <2>3 DEF OfficialAt
    <2>5. \A t : InFrame(t)' <=> InFrame(t)
      BY <1>1, <2>2 DEF InFrame, Participation, FrameUnknown
    <2>6. \A t \in Nat : OfficialAt(t)' => InFrame(t)'
      BY <1>3, <2>1, <2>4, <2>5
    <2>7. ASSUME contest.per_user_time # None, NEW g \in Handlers, request'[g] # Idle,
                 request'[g].kind = "start", NEW t \in Nat, OfficialAt(t)'
          PROVE  request'[g].timestamp <= t
      <3>1. CASE g = h
        <4>1. FrameUnknown(contest, Participation)
          BY <2>1, <2>3, <2>7, <3>1
        <4>2. InFrame(t)
          BY <2>5, <2>6, <2>7
        <4> QED  BY <4>1, <4>2 DEF InFrame
      <3>2. CASE g # h
        <4>1. request[g] # Idle /\ request[g].kind = "start" /\ request'[g] = request[g]
          BY <2>3, <2>7, <3>2
        <4>2. CASE OfficialAt(t)
          BY <1>3, <2>7, <4>1, <4>2
        <4>3. CASE t = now
          BY <4>1, <4>3 DEF InThePast
        <4> QED  BY <2>4, <2>7, <4>2, <4>3
      <3> QED  BY <3>1, <3>2
    <2> QED  BY <1>1, <2>6, <2>7 DEF FrameInv
  <1>7. ASSUME NEW h \in Handlers, Advances(h)  PROVE FrameInv'
    <2>1. request[h] \in Requests /\ request[h] # Idle
      BY <1>7 DEF Advances, ContestTypes
    <2>2. \A g \in Handlers : IF g = h THEN /\ request'[g].timestamp = request[g].timestamp
                                            /\ request'[g].kind = request[g].kind
                                            /\ request'[g].official = request[g].official
                                       ELSE request'[g] = request[g]
      BY <1>7, <2>1 DEF Advances, ContestTypes, Requests
    <2>3. items' = items /\ starting_time' = starting_time
      BY <1>7 DEF Advances
    <2>4. \A t \in Nat : OfficialAt(t)' => OfficialAt(t)
      BY <2>1, <2>2, <2>3 DEF OfficialAt
    <2> QED  BY <1>4, <2>1, <2>2, <2>3, <2>4
  <1>8. ASSUME NEW h \in Handlers, Leaves(h)  PROVE FrameInv'
    <2>1. \A g \in Handlers : request'[g] = IF g = h THEN Idle ELSE request[g]
      BY <1>8 DEF Leaves, ContestTypes
    <2>2. items' = items /\ starting_time' = starting_time
      BY <1>8 DEF Leaves
    <2>3. \A t \in Nat : OfficialAt(t)' => OfficialAt(t)
      BY <2>1, <2>2 DEF OfficialAt
    <2> QED  BY <1>4, <2>1, <2>2, <2>3
  <1>9. ASSUME NEW h \in Handlers, NEW kind \in ItemKinds, Commits(h, kind)  PROVE FrameInv'
    <2>1. \A g \in Handlers : request'[g] = IF g = h THEN Idle ELSE request[g]
      BY <1>9 DEF Commits, ContestTypes
    <2>2. PICK n \in Nat : n = Len(items) /\ DOMAIN items = 1 .. n
      BY DEF ContestTypes
    <2>3. /\ DOMAIN items' = 1 .. n + 1 /\ \A i \in 1 .. n : items'[i] = items[i]
          /\ items'[n + 1].kind = request[h].kind /\ items'[n + 1].official = request[h].official
          /\ items'[n + 1].timestamp = request[h].timestamp /\ request[h] # Idle
      BY <1>9, <2>2 DEF Commits, ContestTypes
    <2>4. \A t \in Nat : OfficialAt(t)' => OfficialAt(t)
      BY <2>1, <2>2, <2>3 DEF OfficialAt
    <2>5. starting_time' = starting_time
      BY <1>9 DEF Commits
    <2> QED  BY <1>4, <2>1, <2>4, <2>5
  <1>10. ASSUME NEW h \in Handlers, Starts(h)  PROVE FrameInv'
    <2>1. \A g \in Handlers : request'[g] = IF g = h THEN Idle ELSE request[g]
      BY <1>10 DEF Starts, ContestTypes
    <2>2. items' = items
      BY <1>10 DEF Starts
    <2>3. \A t \in Nat : OfficialAt(t)' => OfficialAt(t)
      BY <2>1, <2>2 DEF OfficialAt
    <2>4. \A t \in Nat : OfficialAt(t)' => InFrame(t)'
      BY <1>1, <1>10, <2>3, StartsInFrame
    <2> QED  BY <1>1, <1>3, <2>1, <2>3, <2>4 DEF FrameInv
  <1> QED  BY <1>5, <1>6, <1>7, <1>8, <1>9, <1>10, StepEffect, Zenon

LEMMA FrameImplied ==
    ASSUME ContestTypes, FrameInv  PROVE OfficialInFrame
  <1> SUFFICES ASSUME NEW i \in OfKind("submission"), items[i].official, FrameFixed
               PROVE  /\ ActualStart(contest, Participation) <= items[i].timestamp
                      /\ items[i].timestamp <= ActualStop(contest, Participation)
    BY DEF OfficialInFrame, FrameFixed
  <1>1. i \in DOMAIN items /\ items[i].kind = "submission"
    BY DEF OfKind
  <1>2. items[i].timestamp \in Nat
    BY <1>1, ItemsTyped
  <1>3. OfficialAt(items[i].timestamp)
    BY <1>1 DEF OfficialAt
  <1> QED  BY <1>2, <1>3 DEF FrameInv, InFrame

-----------------------------------------------------------------------------

ContestInv == ContestTypes /\ InThePast /\ LimitsInv /\ FrameInv

LEMMA ContestStarts == ContestInit => ContestInv
  <1> SUFFICES ASSUME ContestInit  PROVE ContestInv
    OBVIOUS
  <1>1. /\ contest \in Contests /\ now = 0 /\ starting_time = None /\ items = <<>>
        /\ request = [h \in Handlers |-> Idle] /\ DOMAIN items = {}
    BY DEF ContestInit
  <1>2. ContestTypes
    BY <1>1 DEF ContestTypes
  <1>3. InThePast
    BY <1>1 DEF InThePast
  <1>4. \A t : ~OfficialAt(t)
    BY <1>1 DEF OfficialAt
  <1>5. FrameInv
    BY <1>1, <1>4 DEF FrameInv
  <1>6. ASSUME NEW kind, NEW T, NEW max \in Nat  PROVE Kept(kind, T, max)
    <2>1. Found(kind, T) = {} /\ Committing(kind, T) = {}
      BY <1>1 DEF Found, Committing
    <2> QED  BY <2>1, FS_EmptySet, ContestConstants DEF Kept
  <1>7. LimitsInv
    <2>1. contest.max_jobs_per_user \in Nat
      BY <1>1, ContestFacts
    <2>2. \A kind \in {"submission", "user_test"} :
             /\ contest.limits[kind].max_contest \in Nat \cup {None}
             /\ contest.limits[kind].max_task \in Nat \cup {None}
      BY <1>1, ContestFacts DEF LimitsTyped
    <2> QED  BY <1>6, <2>1, <2>2 DEF LimitsInv
  <1> QED  BY <1>2, <1>3, <1>5, <1>7 DEF ContestInv

(* For any contest and any number of requests handled at the same time:    *)
(* compute_actual_phase answers with intervals that fit together, official *)
(* submissions stay in the contestant's frame however requests to start    *)
(* overtake each other, the limits are exceeded by fewer rows than there   *)
(* are handlers, and the pages show what the checks allow.                 *)
THEOREM ContestRulesHold == ContestSpec => []ContestRules
  <1>1. ContestInv /\ [ContestNext]_contestVars => ContestInv'
    BY ContestTyped, PastKept, LimitsKept, FrameKept DEF ContestInv
  <1>2. ContestInv => ContestRules
    BY PhasesImplied, FrameImplied, LimitsImplied, LeftImplied DEF ContestInv, ContestRules
  <1> QED  BY ContestStarts, <1>1, <1>2, PTL DEF ContestSpec

-----------------------------------------------------------------------------
(* Tokens: the periods in which they are generated.                        *)

LEMMA DivBounds ==
    ASSUME NEW a \in Int, NEW d \in Nat \ {0}
    PROVE  /\ a \div d \in Int
           /\ d * (a \div d) <= a
           /\ a < d * (a \div d + 1)
  <1>1. a \div d \in Int
    OBVIOUS
  <1>2. d * (a \div d) <= a
    OBVIOUS
  <1>3. a < d * (a \div d + 1)
    OBVIOUS
  <1> QED  BY <1>1, <1>2, <1>3

LEMMA DivUnique ==
    ASSUME NEW a \in Int, NEW d \in Nat \ {0}, NEW q \in Int, d * q <= a, a < d * (q + 1)
    PROVE  a \div d = q
  <1> PICK p \in Int : p = a \div d
    BY DivBounds
  <1>1. d * p <= a /\ a < d * (p + 1)
    BY DivBounds
  <1>2. ~(p < q)
    <2> SUFFICES ASSUME p + 1 <= q PROVE FALSE
      OBVIOUS
    <2>1. d * (p + 1) <= d * q
      OBVIOUS
    <2> QED  BY <1>1, <2>1
  <1>3. ~(q < p)
    <2> SUFFICES ASSUME q + 1 <= p PROVE FALSE
      OBVIOUS
    <2>1. d * (q + 1) <= d * p
      OBVIOUS
    <2> QED  BY <1>1, <2>1
  <1> QED  BY <1>2, <1>3

FiniteRules(rules) == RulesTyped(rules) /\ rules.mode = "finite"

\* The end of the period t is in.
PeriodEnd(rules, start, t) ==
    start + rules.gen_interval * ((t - start) \div rules.gen_interval + 1)

\* Periods: q, p and e as they are for the times a and c since the start.
PeriodsFit(d, a, c) ==
    \E q \in Int, p \in Int, e \in Int :
       /\ q = a \div d /\ p = c \div d /\ e = d * (q + 1)
       /\ a < e /\ q <= p /\ (c < e => p = q)
       /\ e \div d = q + 1

LEMMA PeriodsGrow ==
    ASSUME NEW d \in Nat \ {0}, NEW a \in Int, NEW c \in Int, a <= c
    PROVE  PeriodsFit(d, a, c)
  <1> PICK q \in Int : q = a \div d
    BY DivBounds
  <1> PICK p \in Int : p = c \div d
    BY DivBounds
  <1>0. d * (q + 1) \in Int
    OBVIOUS
  <1> PICK e \in Int : e = d * (q + 1)
    BY <1>0, Zenon
  <1>1. d * q <= a /\ a < e
    BY DivBounds
  <1>2. d * p <= c /\ c < d * (p + 1)
    BY DivBounds
  <1>3. q <= p
    <2> SUFFICES ASSUME p + 1 <= q  PROVE FALSE
      OBVIOUS
    <2>1. d * (p + 1) <= d * q
      OBVIOUS
    <2> QED  BY <1>1, <1>2, <2>1
  <1>4. ASSUME c < e  PROVE p = q
    <2>1. d * q <= c /\ c < d * (q + 1)
      BY <1>1, <1>4
    <2> QED  BY <2>1, DivUnique
  <1>5. e \div d = q + 1
    <2>1. d * ((q + 1) + 1) = d * (q + 1) + d
      OBVIOUS
    <2> QED  BY <2>1, DivUnique
  <1> QED  BY <1>1, <1>3, <1>4, <1>5 DEF PeriodsFit

\* What is generated stays the same until the period ends, and then grows.
LEMMA GenerationGrows ==
    ASSUME NEW rules, FiniteRules(rules), NEW start \in Int, NEW begin \in Int,
           NEW t \in Int, NEW u \in Int, t <= u
    PROVE  LET G(x) == GenerateTokens(rules, start, begin, x)
               end == PeriodEnd(rules, start, t)
           IN  /\ G(t) \in Int /\ G(u) \in Int /\ end \in Int /\ t < end
               /\ G(t) <= G(u)
               /\ u < end \/ rules.gen_number = 0 => G(u) = G(t)
               /\ G(end) = G(t) + rules.gen_number
  <1>1. PICK n \in Nat, d \in Nat \ {0} : n = rules.gen_number /\ d = rules.gen_interval
    BY DEF FiniteRules, RulesTyped
  <1>2. PICK b \in Int : b = (begin - start) \div d
    BY DivBounds
  <1>3. PICK a \in Int, c \in Int : a = t - start /\ c = u - start
    OBVIOUS
  <1>12. a <= c
    BY <1>3
  <1>4. PICK q \in Int, p \in Int, e \in Int :
              /\ q = a \div d /\ p = c \div d /\ e = d * (q + 1)
              /\ a < e /\ q <= p /\ (c < e => p = q)
              /\ e \div d = q + 1
    <2>1. PeriodsFit(d, a, c)
      BY <1>12, PeriodsGrow
    <2> QED  BY <2>1 DEF PeriodsFit
  <1>5. PeriodEnd(rules, start, t) = start + e /\ (start + e) - start = e
    BY <1>1, <1>3, <1>4 DEF PeriodEnd
  <1>6. /\ GenerateTokens(rules, start, begin, t) = n * (q - b)
        /\ GenerateTokens(rules, start, begin, u) = n * (p - b)
        /\ GenerateTokens(rules, start, begin, start + e) = n * ((q + 1) - b)
    BY <1>1, <1>2, <1>3, <1>4, <1>5 DEF GenerateTokens
  <1>7. n * (q - b) <= n * (p - b)
    BY <1>4
  <1>8. n * ((q + 1) - b) = n * (q - b) + n
    OBVIOUS
  <1>9. n * (q - b) \in Int /\ n * (p - b) \in Int
    OBVIOUS
  <1>10. n = 0 => n * (q - b) = n * (p - b)
    OBVIOUS
  <1>11. t < start + e /\ (u < start + e => p = q)
    BY <1>3, <1>4
  <1>13. start + e \in Int
    OBVIOUS
  <1> HIDE DEF GenerateTokens
  <1> QED  BY <1>1, <1>5, <1>6, <1>7, <1>8, <1>9, <1>10, <1>11, <1>13, Zenon

-----------------------------------------------------------------------------
LEMMA SetInduction ==
    ASSUME NEW S, 0 \in S, \A n \in Nat : n \in S => n + 1 \in S
    PROVE  Nat \subseteq S
  <1> DEFINE T == Nat \ S
             Below == {ss \in Nat \X Nat : ss[1] < ss[2]}
  <1> SUFFICES ASSUME T # {} PROVE FALSE
    OBVIOUS
  <1>1. T \subseteq Nat
    OBVIOUS
  <1>2. IsWellFoundedOn(Below, Nat)
    BY NatLessThanWellFounded DEF OpToRel
  <1> HIDE DEF T, Below
  <1>3. PICK n \in T : \A m \in T : <<m, n>> \notin Below
    BY <1>1, <1>2, WFMin
  <1>4. n # 0 /\ n - 1 \in Nat
    BY <1>1, <1>3 DEF T
  <1>5. <<n - 1, n>> \in Below
    BY <1>1, <1>4 DEF Below
  <1> QED  BY <1>3, <1>4, <1>5 DEF T

Counters == [avail : Int, prev : Int]

LEMMA GeneratedTyped ==
    ASSUME NEW rules, FiniteRules(rules), NEW start \in Int, NEW s \in Counters, NEW t \in Int
    PROVE  Generated(rules, start, s, t) \in Int
  <1>1. s.avail \in Int /\ s.prev \in Int
    BY DEF Counters
  <1>2. GenerateTokens(rules, start, s.prev, t) \in Int
    BY <1>1, GenerationGrows
  <1>3. PICK a \in Int : a = s.avail + GenerateTokens(rules, start, s.prev, t)
    BY <1>1, <1>2
  <1>4. rules.gen_max = None \/ rules.gen_max \in Int
    BY DEF FiniteRules, RulesTyped
  <1>5. Capped(rules, a) \in Int
    BY <1>4, MinMaxOfTwo DEF Capped
  <1> QED  BY <1>3, <1>5 DEF Generated

LEMMA ReplayedTyped ==
    ASSUME NEW rules, FiniteRules(rules), NEW start \in Int, NEW history \in Seq(Int)
    PROVE  Replayed(rules, start, history) \in Counters
  <1> DEFINE first == [avail |-> rules.gen_initial, prev |-> start]
             Body(f, m) == [i \in 0 .. m |-> IF i = 0 THEN first
                              ELSE TokenTaken(rules, start, f[i - 1], history[i])]
             T == {m \in Nat : \E f : f = Body(f, m)}
  <1>0. PICK n \in Nat : n = Len(history) /\ \A i \in 1 .. n : history[i] \in Int
    OBVIOUS
  <1>1. 0 \in T
    <2> DEFINE f == [k \in 0 .. 0 |-> first]
    <2>1. f = Body(f, 0)
      OBVIOUS
    <2> HIDE DEF f, Body
    <2> QED  BY <2>1
  <1>2. ASSUME NEW m \in Nat, m \in T PROVE m + 1 \in T
    <2>1. PICK g : g = Body(g, m)
      BY <1>2
    <2> DEFINE f == Body(g, m + 1)
    <2>2. \A k \in 0 .. m : f[k] = g[k]
      <3>1. \A k \in 0 .. m : g[k] = IF k = 0 THEN first
                                     ELSE TokenTaken(rules, start, g[k - 1], history[k])
        BY <2>1
      <3> HIDE DEF first
      <3> QED  BY <3>1
    <2>3. f = Body(f, m + 1)
      <3>1. \A k \in 0 .. (m + 1) : k # 0 => k - 1 \in 0 .. m
        OBVIOUS
      <3>2. \A k \in 0 .. (m + 1) : k # 0 => TokenTaken(rules, start, g[k - 1], history[k])
                                             = TokenTaken(rules, start, f[k - 1], history[k])
        <4> HIDE DEF f
        <4> QED  BY <2>2, <3>1
      <3> QED  BY <3>2, Zenon
    <2> HIDE DEF f, Body
    <2> QED  BY <2>3
  <1>3. n \in T
    <2> HIDE DEF T
    <2>1. Nat \subseteq T
      BY <1>1, <1>2, SetInduction
    <2> QED  BY <2>1
  <1> DEFINE after == CHOOSE f : f = Body(f, n)
  <1>4. after = Body(after, n)
    <2> HIDE DEF Body
    <2> QED  BY <1>3, Zenon
  <1>5. Replayed(rules, start, history) = after[n]
    BY <1>0 DEF Replayed
  <1>6. \A i \in 0 .. n : after[i] = IF i = 0 THEN first
                                    ELSE TokenTaken(rules, start, after[i - 1], history[i])
    <2> HIDE DEF after, first
    <2> QED  BY <1>4
  <1> DEFINE U == {i \in Nat : i <= n => after[i] \in Counters}
  <1>7. 0 \in U
    <2>1. first \in Counters
      BY DEF FiniteRules, RulesTyped, Counters
    <2> HIDE DEF after, first
    <2> QED  BY <1>6, <2>1
  <1>8. ASSUME NEW i \in Nat, i \in U  PROVE i + 1 \in U
    <2> HIDE DEF after, first
    <2> SUFFICES ASSUME i + 1 <= n  PROVE after[i + 1] \in Counters
      OBVIOUS
    <2>1. after[i] \in Counters /\ history[i + 1] \in Int /\ i + 1 \in 0 .. n
      BY <1>0, <1>8
    <2>2. after[i + 1] = TokenTaken(rules, start, after[i], history[i + 1])
      <3>1. i + 1 # 0 /\ (i + 1) - 1 = i
        OBVIOUS
      <3> QED  BY <1>6, <2>1, <3>1
    <2>3. Generated(rules, start, after[i], history[i + 1]) \in Int
      BY <2>1, GeneratedTyped
    <2> QED  BY <2>1, <2>2, <2>3 DEF TokenTaken, Counters
  <1>9. n \in U
    <2> HIDE DEF U
    <2>1. Nat \subseteq U
      BY <1>7, <1>8, SetInduction
    <2> QED  BY <2>1
  <1> HIDE DEF after
  <1> QED  BY <1>5, <1>9

-----------------------------------------------------------------------------
(* What an answer r at time t says of the answer x at a later time u, if   *)
(* no token is played in between; e is when one may be played.             *)

Steady(r, t, x, u, e) ==
    /\ r.avail \in Int /\ x.avail \in Int /\ r.avail <= x.avail
    /\ r.next = None => x.avail = r.avail
    /\ r.next # None => /\ r.next \in Int /\ t < r.next
                        /\ u < r.next => x.avail = r.avail
                        /\ u >= r.next => x.avail > r.avail
    /\ r.avail # 0 => r.expiration = IF e <= t THEN None ELSE e
    /\ x.avail # 0 => x.expiration = IF e <= u THEN None ELSE e

\* When a token may be played again.
PlayableAt(rules, start, history, t) ==
    IF rules.mode # "finite" THEN t
    ELSE IF history = <<>> THEN start
    ELSE history[Len(history)] + rules.min_interval

LEMMA SimulatedGrows ==
    ASSUME NEW rules, FiniteRules(rules), NEW start \in Int, NEW history \in Seq(Int),
           NEW t \in Int, NEW u \in Int, t <= u
    PROVE  LET A == Simulated(rules, start, history, t)
               B == Simulated(rules, start, history, u)
               next == NextGeneration(rules, start, A, t)
           IN  /\ A \in Int /\ B \in Int /\ A <= B
               /\ next = None => B = A
               /\ next # None => /\ next \in Int /\ t < next
                                 /\ u < next => B = A
                                 /\ u >= next => B > A
  <1>1. PICK s \in Counters : s = Replayed(rules, start, history)
    BY ReplayedTyped
  <1>2. PICK a \in Int, b \in Int : a = s.avail /\ b = s.prev
    BY DEF Counters
  <1> DEFINE G(x) == GenerateTokens(rules, start, b, x)
  <1>3. PICK end \in Int : end = PeriodEnd(rules, start, t) /\ t < end
    BY GenerationGrows
  <1>4. PICK g \in Int, h \in Int : g = G(t) /\ h = G(u)
    BY GenerationGrows
  <1>5. g <= h /\ (u < end \/ rules.gen_number = 0 => h = g)
    BY <1>3, <1>4, GenerationGrows
  <1>6. PICK n \in Nat : n = rules.gen_number
    BY DEF FiniteRules, RulesTyped
  <1>7. G(end) = g + n
    BY <1>3, <1>4, <1>6, GenerationGrows
  <1>8. u >= end => h >= g + n
    <2> SUFFICES ASSUME end <= u  PROVE G(end) <= h
      BY <1>7
    <2> QED  BY <1>4, GenerationGrows
  <1>9. /\ Simulated(rules, start, history, t) = Capped(rules, a + g)
        /\ Simulated(rules, start, history, u) = Capped(rules, a + h)
    BY <1>1, <1>2, <1>4 DEF Simulated, Generated
  <1>10. \A x \in Int : /\ rules.gen_max = None => Capped(rules, x) = x
                        /\ rules.gen_max # None =>
                              /\ rules.gen_max \in Int
                              /\ Capped(rules, x) = IF x <= rules.gen_max THEN x ELSE rules.gen_max
    <2>1. CASE rules.gen_max = None
      BY <2>1 DEF Capped
    <2>2. CASE rules.gen_max # None
      <3>1. PICK M \in Int : M = rules.gen_max
        BY <2>2 DEF FiniteRules, RulesTyped
      <3>2. \A x \in Int : Min({x, M}) = IF x <= M THEN x ELSE M
        BY MinMaxOfTwo
      <3> QED  BY <2>2, <3>1, <3>2 DEF Capped
    <2> QED  BY <2>1, <2>2
  <1>11. PICK A \in Int, B \in Int : A = Capped(rules, a + g) /\ B = Capped(rules, a + h)
    <2>1. a + g \in Int /\ a + h \in Int
      OBVIOUS
    <2> QED  BY <1>10, <2>1
  <1>12. NextGeneration(rules, start, A, t)
             = IF n > 0 /\ (rules.gen_max = None \/ A < rules.gen_max) THEN end ELSE None
    BY <1>3, <1>6 DEF NextGeneration, PeriodEnd
  <1>13. None \notin Int
    BY ContestConstants
  <1>14. CASE rules.gen_max = None
    <2>1. A = a + g /\ B = a + h
      BY <1>10, <1>11, <1>14
    <2>2. n = 0 \/ n > 0
      OBVIOUS
    <2> HIDE DEF G
    <2> QED  BY <1>3, <1>5, <1>6, <1>8, <1>9, <1>11, <1>12, <1>13, <1>14, <2>1, <2>2
  <1>15. CASE rules.gen_max # None
    <2>1. PICK M \in Int : M = rules.gen_max
      BY <1>10, <1>15
    <2>2. A = (IF a + g <= M THEN a + g ELSE M) /\ B = (IF a + h <= M THEN a + h ELSE M)
      BY <1>10, <1>11, <1>15, <2>1
    <2> HIDE DEF G
    <2>3. n = 0 \/ n > 0
      OBVIOUS
    <2> QED  BY <1>3, <1>5, <1>6, <1>8, <1>9, <1>11, <1>12, <1>13, <1>15, <2>1, <2>2, <2>3, SMTT(60)
  <1> QED  BY <1>14, <1>15

LEMMA TokensSteady ==
    ASSUME NEW rules, RulesTyped(rules), NEW start \in Int, NEW history \in Seq(Int),
           NEW t \in Int, NEW u \in Int, t <= u
    PROVE  /\ PlayableAt(rules, start, history, t) \in Int
           /\ Steady(TokensOf(rules, start, history, t), t, TokensOf(rules, start, history, u), u,
                     PlayableAt(rules, start, history, t))
  <1>1. CASE rules.mode = "disabled"
    <2>1. /\ TokensOf(rules, start, history, t) = Tokens(0, None, None)
          /\ TokensOf(rules, start, history, u) = Tokens(0, None, None)
          /\ PlayableAt(rules, start, history, t) = t
      BY <1>1 DEF TokensOf, PlayableAt
    <2> QED  BY <2>1 DEF Tokens, Steady
  <1>2. CASE rules.mode = "infinite"
    <2>1. /\ TokensOf(rules, start, history, t) = Tokens(-1, None, None)
          /\ TokensOf(rules, start, history, u) = Tokens(-1, None, None)
          /\ PlayableAt(rules, start, history, t) = t
      BY <1>2 DEF TokensOf, PlayableAt
    <2> QED  BY <2>1 DEF Tokens, Steady
  <1>3. CASE rules.mode = "finite"
    <2>1. FiniteRules(rules)
      BY <1>3 DEF FiniteRules
    <2>2. PICK A, B, next : /\ A = Simulated(rules, start, history, t)
                            /\ B = Simulated(rules, start, history, u)
                            /\ next = NextGeneration(rules, start, A, t)
      OBVIOUS
    <2>3. /\ A \in Int /\ B \in Int /\ A <= B
          /\ next = None => B = A
          /\ next # None => /\ next \in Int /\ t < next
                            /\ u < next => B = A
                            /\ u >= next => B > A
      BY <2>1, <2>2, SimulatedGrows
    <2>4. PICK e : e = PlayableAt(rules, start, history, t)
      OBVIOUS
    <2>5. e \in Int /\ e = IF history = <<>> THEN start
                           ELSE history[Len(history)] + rules.min_interval
      <3>1. history # <<>> => history[Len(history)] \in Int
        OBVIOUS
      <3>2. rules.min_interval \in Nat
        BY <2>1 DEF FiniteRules, RulesTyped
      <3> QED  BY <1>3, <2>4, <3>1, <3>2 DEF PlayableAt
    <2>6. PICK full, left : /\ full \in BOOLEAN /\ full = (rules.max_number # None)
                            /\ left = rules.max_number - Len(history)
      OBVIOUS
    <2>7. full => left \in Int
      BY <2>1, <2>6 DEF FiniteRules, RulesTyped
    <2> DEFINE Avail(X) == IF full /\ X >= left THEN left ELSE X
               Next(X, n) == IF full /\ X >= left THEN None ELSE n
               Exp(X, n, x) == IF e <= x \/ (Avail(X) = 0 /\ Next(X, n) = None) THEN None ELSE e
    <2>8. PICK later : later = NextGeneration(rules, start, B, u)
      OBVIOUS
    <2>9. TokensOf(rules, start, history, t) = Tokens(Avail(A), Next(A, next), Exp(A, next, t))
      BY <1>3, <2>2, <2>5, <2>6 DEF TokensOf, FiniteTokens
    <2>10. TokensOf(rules, start, history, u) = Tokens(Avail(B), Next(B, later), Exp(B, later, u))
      BY <1>3, <2>2, <2>5, <2>6, <2>8 DEF TokensOf, FiniteTokens
    <2>11. Steady(Tokens(Avail(A), Next(A, next), Exp(A, next, t)), t,
                  Tokens(Avail(B), Next(B, later), Exp(B, later, u)), u, e)
      <3>1. CASE full
        BY <2>3, <2>5, <2>7, <3>1, ContestConstants DEF Tokens, Steady
      <3>2. CASE ~full
        BY <2>3, <2>5, <3>2, ContestConstants DEF Tokens, Steady
      <3> QED  BY <2>6, <3>1, <3>2
    <2> QED  BY <2>4, <2>5, <2>9, <2>10, <2>11
  <1> QED  BY <1>1, <1>2, <1>3 DEF RulesTyped

-----------------------------------------------------------------------------
(* Contest tokens and task tokens together.                                *)

\* Infinitely many tokens stay so; otherwise there is a number of them.
Counts(r, x) == r.avail >= 0 \/ (r.avail = -1 /\ x.avail = -1)

LEMMA CombinedIs ==
    ASSUME NEW c, NEW k, c.avail \in Int, k.avail \in Int, c.avail >= -1, k.avail >= -1
    PROVE  LET r == Combined(c, k)
               which == IF c.avail = -1 /\ k.avail = -1 THEN "none"
                        ELSE IF k.avail = -1 \/ (c.avail # -1 /\ c.avail < k.avail) THEN "contest"
                        ELSE IF c.avail = -1 \/ k.avail < c.avail THEN "task"
                        ELSE "both"
           IN  /\ r.expiration = Later(k.expiration, c.expiration)
               /\ r.avail = IF which = "contest" THEN c.avail ELSE k.avail
               /\ r.next = CASE which = "none" -> None
                             [] which = "contest" -> c.next
                             [] which = "task" -> k.next
                             [] which = "both" -> NextOfBoth(c.next, k.next)
  <1>1. CASE c.avail = -1 /\ k.avail = -1
    <2>1. Combined(c, k) = Tokens(-1, None, Later(k.expiration, c.expiration))
      BY <1>1 DEF Combined
    <2> QED  BY <1>1, <2>1 DEF Tokens
  <1>2. CASE c.avail # -1 /\ k.avail = -1
    <2>1. Combined(c, k) = Tokens(c.avail, c.next, Later(k.expiration, c.expiration))
      BY <1>2 DEF Combined
    <2> QED  BY <1>2, <2>1 DEF Tokens
  <1>3. CASE c.avail = -1 /\ k.avail # -1
    <2>1. Combined(c, k) = Tokens(k.avail, k.next, Later(k.expiration, c.expiration))
      BY <1>3 DEF Combined
    <2> QED  BY <1>3, <2>1 DEF Tokens
  <1>4. CASE c.avail # -1 /\ k.avail # -1 /\ c.avail < k.avail
    <2>1. Combined(c, k) = Tokens(c.avail, c.next, Later(k.expiration, c.expiration))
      BY <1>4 DEF Combined
    <2> QED  BY <1>4, <2>1 DEF Tokens
  <1>5. CASE c.avail # -1 /\ k.avail # -1 /\ k.avail < c.avail
    <2>1. Combined(c, k) = Tokens(k.avail, k.next, Later(k.expiration, c.expiration))
      BY <1>5 DEF Combined
    <2> QED  BY <1>5, <2>1 DEF Tokens
  <1>6. CASE c.avail # -1 /\ k.avail # -1 /\ k.avail = c.avail
    <2>1. Combined(c, k)
              = Tokens(k.avail, NextOfBoth(c.next, k.next), Later(k.expiration, c.expiration))
      BY <1>6 DEF Combined
    <2> QED  BY <1>6, <2>1 DEF Tokens
  <1> QED  BY <1>1, <1>2, <1>3, <1>4, <1>5, <1>6

LEMMA LaterIs ==
    ASSUME NEW a \in Int, NEW b \in Int, NEW t \in Int
    PROVE  Later(IF a <= t THEN None ELSE a, IF b <= t THEN None ELSE b)
               = LET m == IF a >= b THEN a ELSE b IN IF m <= t THEN None ELSE m
  <1>1. CASE a <= t
    BY <1>1, ContestConstants DEF Later
  <1>2. CASE a > t /\ b <= t
    BY <1>2, ContestConstants DEF Later
  <1>3. CASE a > t /\ b > t
    BY <1>3, ContestConstants, MinMaxOfTwo DEF Later
  <1> QED  BY <1>1, <1>2, <1>3

LEMMA CombinedSteady ==
    ASSUME NEW t \in Int, NEW u \in Int, t <= u, NEW ec \in Int, NEW ek \in Int,
           NEW c, NEW k, NEW c2, NEW k2,
           Steady(c, t, c2, u, ec), Steady(k, t, k2, u, ek), Counts(c, c2), Counts(k, k2)
    PROVE  Steady(Combined(c, k), t, Combined(c2, k2), u, IF ek >= ec THEN ek ELSE ec)
  <1>1. PICK r, x : r = Combined(c, k) /\ x = Combined(c2, k2)
    OBVIOUS
  <1>2. /\ c.avail \in Int /\ k.avail \in Int /\ c.avail >= -1 /\ k.avail >= -1
        /\ c2.avail \in Int /\ k2.avail \in Int /\ c2.avail >= -1 /\ k2.avail >= -1
    BY DEF Steady, Counts
  <1>3. /\ r.expiration = Later(k.expiration, c.expiration)
        /\ x.expiration = Later(k2.expiration, c2.expiration)
    BY <1>1, <1>2, CombinedIs
  <1>4. /\ r.avail \in Int /\ (r.avail # 0 => c.avail # 0 /\ k.avail # 0)
        /\ x.avail \in Int /\ (x.avail # 0 => c2.avail # 0 /\ k2.avail # 0)
    BY <1>1, <1>2, CombinedIs
  <1>5. PICK e \in Int : e = IF ek >= ec THEN ek ELSE ec
    OBVIOUS
  <1>6. r.avail # 0 => r.expiration = IF e <= t THEN None ELSE e
    <2> SUFFICES ASSUME r.avail # 0  PROVE r.expiration = IF e <= t THEN None ELSE e
      OBVIOUS
    <2>1. /\ c.expiration = IF ec <= t THEN None ELSE ec
          /\ k.expiration = IF ek <= t THEN None ELSE ek
      BY <1>4 DEF Steady
    <2>2. Later(IF ek <= t THEN None ELSE ek, IF ec <= t THEN None ELSE ec)
              = IF e <= t THEN None ELSE e
      BY <1>5, LaterIs
    <2> QED  BY <1>3, <2>1, <2>2, Zenon
  <1>7. x.avail # 0 => x.expiration = IF e <= u THEN None ELSE e
    <2> SUFFICES ASSUME x.avail # 0  PROVE x.expiration = IF e <= u THEN None ELSE e
      OBVIOUS
    <2>1. /\ c2.expiration = IF ec <= u THEN None ELSE ec
          /\ k2.expiration = IF ek <= u THEN None ELSE ek
      BY <1>4 DEF Steady
    <2>2. Later(IF ek <= u THEN None ELSE ek, IF ec <= u THEN None ELSE ec)
              = IF e <= u THEN None ELSE e
      BY <1>5, LaterIs
    <2> QED  BY <1>3, <2>1, <2>2, Zenon
  <1> DEFINE Fewer(a, b) == a.avail # -1 /\ (b.avail = -1 \/ a.avail < b.avail)
             Goal == /\ r.avail <= x.avail
                     /\ r.next = None => x.avail = r.avail
                     /\ r.next # None => /\ r.next \in Int /\ t < r.next
                                         /\ u < r.next => x.avail = r.avail
                                         /\ u >= r.next => x.avail > r.avail
  <1>8. CASE c.avail = -1 /\ k.avail = -1
    <2>1. r.avail = -1 /\ r.next = None /\ x.avail = -1
      BY <1>1, <1>2, <1>8, CombinedIs DEF Counts
    <2> QED  BY <1>1, <1>4, <1>5, <1>6, <1>7, <2>1 DEF Steady
  <1>9. CASE Fewer(c, k)
    <2>1. r.avail = c.avail /\ r.next = c.next
      BY <1>1, <1>2, <1>9, CombinedIs
    <2>2. x.avail = IF k2.avail = -1 \/ c2.avail < k2.avail THEN c2.avail ELSE k2.avail
      BY <1>1, <1>2, <1>9, CombinedIs DEF Counts, Steady
    <2>3. Goal
      BY <1>2, <1>9, <2>1, <2>2 DEF Counts, Steady
    <2> QED  BY <1>1, <1>4, <1>5, <1>6, <1>7, <2>3 DEF Steady
  <1>10. CASE Fewer(k, c)
    <2>1. r.avail = k.avail /\ r.next = k.next
      BY <1>1, <1>2, <1>10, CombinedIs
    <2>2. x.avail = IF c2.avail # -1 /\ c2.avail < k2.avail THEN c2.avail ELSE k2.avail
      BY <1>1, <1>2, <1>10, CombinedIs DEF Counts, Steady
    <2>3. Goal
      BY <1>2, <1>10, <2>1, <2>2 DEF Counts, Steady
    <2> QED  BY <1>1, <1>4, <1>5, <1>6, <1>7, <2>3 DEF Steady
  <1>11. CASE c.avail # -1 /\ k.avail = c.avail
    <2>1. r.avail = k.avail /\ r.next = NextOfBoth(c.next, k.next)
      BY <1>1, <1>2, <1>11, CombinedIs
    <2>2. x.avail = IF c2.avail < k2.avail THEN c2.avail ELSE k2.avail
      BY <1>1, <1>2, <1>11, CombinedIs DEF Counts, Steady
    <2>3. CASE c.next = None \/ k.next = None
      <3>1. r.next = None
        BY <2>1, <2>3 DEF NextOfBoth
      <3>2. Goal
        BY <1>2, <1>11, <2>1, <2>2, <2>3, <3>1 DEF Counts, Steady
      <3> QED  BY <1>1, <1>4, <1>5, <1>6, <1>7, <3>2 DEF Steady
    <2>4. CASE c.next # None /\ k.next # None
      <3>1. PICK a \in Int, b \in Int : a = c.next /\ b = k.next
        BY <2>4 DEF Steady
      <3>2. r.next = IF a >= b THEN a ELSE b
        BY <2>1, <2>4, <3>1, MinMaxOfTwo DEF NextOfBoth
      <3>3. Goal
        BY <1>2, <1>11, <2>1, <2>2, <2>4, <3>1, <3>2 DEF Counts, Steady
      <3> QED  BY <1>1, <1>4, <1>5, <1>6, <1>7, <3>3 DEF Steady
    <2> QED  BY <2>3, <2>4
  <1> QED  BY <1>2, <1>8, <1>9, <1>10, <1>11

LEMMA CombinedCounts ==
    ASSUME NEW c, NEW k, NEW c2, NEW k2, Counts(c, c2), Counts(k, k2),
           c.avail \in Int, k.avail \in Int, c2.avail \in Int, k2.avail \in Int,
           c.avail <= c2.avail, k.avail <= k2.avail
    PROVE  Counts(Combined(c, k), Combined(c2, k2))
  <1>1. c.avail >= -1 /\ k.avail >= -1 /\ c2.avail >= -1 /\ k2.avail >= -1
    BY DEF Counts
  <1>2. CASE c.avail = -1 /\ k.avail = -1
    <2>1. Combined(c, k).avail = -1 /\ Combined(c2, k2).avail = -1
      BY <1>1, <1>2, CombinedIs DEF Counts
    <2> QED  BY <2>1 DEF Counts
  <1>3. CASE c.avail # -1 \/ k.avail # -1
    <2>1. Combined(c, k).avail >= 0
      BY <1>1, <1>3, CombinedIs
    <2> QED  BY <2>1 DEF Counts
  <1> QED  BY <1>2, <1>3

-----------------------------------------------------------------------------
(* The tokens in the database.                                             *)

TokenRows == [submission : Nat, timestamp : Nat]

TokensInv ==
    /\ tokens \in Seq(TokenRows)
    /\ \A k \in DOMAIN tokens : tokens[k].timestamp <= now

LEMMA TokensTyped ==
    ASSUME ContestTypes, TokensInv
    PROVE  now \in Nat /\ \A k \in DOMAIN tokens : tokens[k].timestamp \in 0 .. now
  <1>1. now \in Nat
    BY DEF ContestTypes
  <1>2. \A k \in DOMAIN tokens : tokens[k] \in TokenRows
    BY DEF TokensInv
  <1>3. \A k \in DOMAIN tokens : tokens[k].timestamp \in Nat
    BY <1>2 DEF TokenRows
  <1> QED  BY <1>1, <1>3 DEF TokensInv

LEMMA TokensStep ==
    ASSUME ContestTypes, [ContestNext]_contestVars
    PROVE  \/ tokens' = tokens /\ (now' = now \/ now' = now + 1)
           \/ \E h \in Handlers :
                 /\ now' = now /\ request[h] # Idle
                 /\ tokens' = Append(tokens, [submission |-> request[h].submission,
                                              timestamp |-> request[h].timestamp])
  <1>1. CASE UNCHANGED contestVars
    BY <1>1 DEF contestVars
  <1>2. CASE Tick
    BY <1>2 DEF Tick
  <1>3. ASSUME NEW h \in Handlers, NEW kind \in ItemKinds \cup {"token", "start"},
               NEW task \in Tasks \cup {None}, NEW submission \in 0 .. Len(items),
               Arrive(h, kind, task, submission)
        PROVE  tokens' = tokens /\ now' = now
    BY <1>3 DEF Arrive
  <1>4. ASSUME NEW h \in Handlers,
           \/ AcceptSubmission(h) \/ AcceptUserTest(h) \/ AcceptPrintJob(h) \/ Unacceptable(h)
           \/ SubmitHandler(h) \/ UserTestHandler(h) \/ PrintingHandler(h)
           \/ AcceptToken(h) \/ StartHandler(h)
        PROVE  tokens' = tokens /\ now' = now
    BY <1>4 DEF AcceptSubmission, AcceptUserTest, AcceptPrintJob, Check, Unacceptable,
                SubmitHandler, UserTestHandler, PrintingHandler, CommitItem, AcceptToken,
                StartHandler
  <1>5. ASSUME NEW h \in Handlers, UseTokenHandler(h)
        PROVE  /\ now' = now /\ request[h] # Idle
               /\ \/ tokens' = tokens
                  \/ tokens' = Append(tokens, [submission |-> request[h].submission,
                                               timestamp |-> request[h].timestamp])
    BY <1>5 DEF UseTokenHandler, At
  <1>6. CASE ContestNext
    <2>1. CASE \E h \in Handlers, kind \in ItemKinds \cup {"token", "start"},
                  task \in Tasks \cup {None}, submission \in 0 .. Len(items) :
                     Arrive(h, kind, task, submission)
      BY <1>3, <2>1, Zenon
    <2>2. CASE \E h \in Handlers :
           \/ AcceptSubmission(h) \/ AcceptUserTest(h) \/ AcceptPrintJob(h) \/ Unacceptable(h)
           \/ SubmitHandler(h) \/ UserTestHandler(h) \/ PrintingHandler(h)
           \/ AcceptToken(h) \/ StartHandler(h)
      BY <1>4, <2>2, Zenon
    <2>3. CASE \E h \in Handlers : UseTokenHandler(h)
      BY <1>5, <2>3, Zenon
    <2> QED  BY <1>2, <1>6, <2>1, <2>2, <2>3, Zenon DEF ContestNext
  <1> QED  BY <1>1, <1>6

LEMMA TokensKept ==
    ASSUME ContestTypes, InThePast, TokensInv, [ContestNext]_contestVars  PROVE TokensInv'
  <1>1. now \in Nat /\ tokens \in Seq(TokenRows)
    BY DEF ContestTypes, TokensInv
  <1>2. \A k \in DOMAIN tokens : tokens[k].timestamp \in 0 .. now
    BY TokensTyped
  <1>3. CASE tokens' = tokens /\ (now' = now \/ now' = now + 1)
    BY <1>1, <1>2, <1>3 DEF TokensInv
  <1>4. ASSUME NEW h \in Handlers, now' = now, request[h] # Idle,
               tokens' = Append(tokens, [submission |-> request[h].submission,
                                         timestamp |-> request[h].timestamp])
        PROVE  TokensInv'
    <2>1. request[h].timestamp \in 0 .. now /\ request[h].submission \in Nat
      BY <1>1, <1>4 DEF ContestTypes, InThePast, Requests
    <2> DEFINE row == [submission |-> request[h].submission,
                       timestamp |-> request[h].timestamp]
    <2>2. row \in TokenRows /\ row.timestamp <= now
      BY <2>1 DEF TokenRows
    <2>3. tokens' = Append(tokens, row)
      BY <1>4
    <2> HIDE DEF row
    <2>4. PICK n \in Nat : n = Len(tokens) /\ DOMAIN tokens = 1 .. n
      BY <1>1
    <2>5. /\ tokens' \in Seq(TokenRows) /\ DOMAIN tokens' = 1 .. n + 1
          /\ \A i \in 1 .. n : tokens'[i] = tokens[i]
          /\ tokens'[n + 1] = row
      BY <1>1, <2>2, <2>3, <2>4
    <2>6. \A k \in DOMAIN tokens' : tokens'[k].timestamp <= now
      BY <2>2, <2>4, <2>5 DEF TokensInv
    <2> QED  BY <1>4, <2>5, <2>6 DEF TokensInv
  <1> QED  BY <1>3, <1>4, TokensStep

LEMMA LeastExists ==
    ASSUME NEW S \in SUBSET Nat, S # {}  PROVE Min(S) \in S
  <1> DEFINE Below == {ss \in Nat \X Nat : ss[1] < ss[2]}
  <1>1. IsWellFoundedOn(Below, Nat)
    BY NatLessThanWellFounded DEF OpToRel
  <1> HIDE DEF Below
  <1>2. PICK m \in S : \A k \in S : <<k, m>> \notin Below
    BY <1>1, WFMin
  <1>3. ASSUME NEW k \in S  PROVE m <= k
    <2>1. k \in Nat /\ m \in Nat /\ <<k, m>> \notin Below
      BY <1>2
    <2> QED  BY <2>1 DEF Below
  <1> QED  BY <1>3 DEF Min

\* The history of the tokens does not change while none is played.
LEMMA HistoryStays ==
    ASSUME ContestTypes, TokensInv, NEW on, NEW t \in Int, now <= t
    PROVE  History(on, t) = History(on, now)
  <1>1. \A k \in DOMAIN tokens : tokens[k].timestamp \in Nat /\ tokens[k].timestamp <= now
    BY TokensTyped
  <1>2. \A k \in DOMAIN tokens : tokens[k].timestamp <= t
    BY <1>1 DEF ContestTypes
  <1>3. Played(on, t) = Played(on, now)
    BY <1>1, <1>2 DEF Played
  <1> QED  BY <1>3, Zenon DEF History

LEMMA HistoryTyped ==
    ASSUME ContestTypes, TokensInv, NEW on
    PROVE  History(on, now) \in Seq(Int)
  <1> DEFINE played == Played(on, now)
             by(x) == {k \in played : tokens[k].timestamp <= x}
             times == {tokens[k].timestamp : k \in played}
             S(i) == {x \in times : Cardinality(by(x)) >= i}
  <1>1. now \in Nat /\ \A k \in DOMAIN tokens : tokens[k].timestamp \in 0 .. now
    BY TokensTyped
  <1>2. PICK m \in Nat : DOMAIN tokens = 1 .. m
    BY DEF TokensInv
  <1>3. played \subseteq 1 .. m /\ times \in SUBSET (0 .. now)
    BY <1>1, <1>2 DEF Played
  <1>4. IsFiniteSet(played) /\ Cardinality(played) \in Nat
    <2>1. IsFiniteSet(1 .. m)
      BY FS_Interval
    <2>2. IsFiniteSet(played)
      <3> HIDE DEF played
      <3> QED  BY <1>3, <2>1, FS_Subset
    <2> QED  BY <2>2, FS_CardinalityType
  <1>5. PICK n \in Nat : n = Cardinality(played)
    BY <1>4
  <1>6. ASSUME NEW i \in 1 .. n  PROVE Min(S(i)) \in Int
    <2>1. played # {}
      BY <1>5, FS_EmptySet
    <2>2. times # {}
      BY <2>1
    <2> HIDE DEF played
    <2>3. PICK x \in times : \A y \in times : y <= x
      <3> HIDE DEF times
      <3> QED  BY <1>1, <1>3, <2>2, GreatestExists
    <2>4. by(x) = played
      BY <2>3
    <2>5. x \in S(i)
      BY <1>5, <2>4
    <2>6. S(i) \subseteq times
      OBVIOUS
    <2>7. S(i) \in SUBSET Nat /\ S(i) # {}
      <3>1. times \subseteq Nat
        <4> HIDE DEF times
        <4> QED  BY <1>1, <1>3
      <3> HIDE DEF times, S
      <3> QED  BY <2>5, <2>6, <3>1
    <2>8. Min(S(i)) \in S(i)
      <3> HIDE DEF S
      <3> QED  BY <2>7, LeastExists
    <2> HIDE DEF S
    <2> QED  BY <2>7, <2>8
  <1>7. History(on, now) = [i \in 1 .. n |-> Min(S(i))]
    BY <1>5, Zenon DEF History
  <1> HIDE DEF S
  <1> QED  BY <1>6, <1>7

LEMMA AnnouncedNow ==
    ASSUME ContestTypes, TokensInv, NEW task \in Tasks, TokenStart # None,
           contest.token.mode = "finite" => ContestTokens(now).avail >= 0,
           contest.task_token.mode = "finite" => TaskTokens(task, now).avail >= 0
    PROVE  \E e \in Int : \A u \in Int : now <= u =>
              /\ Steady(TokensAvailable(task, now), now, TokensAvailable(task, u), u, e)
              /\ Counts(TokensAvailable(task, now), TokensAvailable(task, u))
  <1>1. now \in Int /\ RulesTyped(contest.token) /\ RulesTyped(contest.task_token)
    BY ContestFacts DEF ContestTypes
  <1>2. PICK start \in Int : start = TokenStart
    BY ContestFacts DEF TokenStart, ContestTypes
  <1>3. PICK H \in Seq(Int), J \in Seq(Int) : H = History(Tasks, now) /\ J = History({task}, now)
    BY HistoryTyped
  <1> DEFINE C(u) == TokensOf(contest.token, start, H, u)
             K(u) == TokensOf(contest.task_token, start, J, u)
  <1>4. PICK ec, ek : /\ ec = PlayableAt(contest.token, start, H, now)
                      /\ ek = PlayableAt(contest.task_token, start, J, now)
    OBVIOUS
  <1>5. ec \in Int /\ ek \in Int
    <2>1. now <= now
      BY <1>1
    <2> QED  BY <1>1, <1>4, <2>1, TokensSteady
  <1>6. PICK e \in Int : e = IF ek >= ec THEN ek ELSE ec
    BY <1>5
  <1>7. ASSUME NEW u \in Int, now <= u
        PROVE  /\ Steady(TokensAvailable(task, now), now, TokensAvailable(task, u), u, e)
               /\ Counts(TokensAvailable(task, now), TokensAvailable(task, u))
    <2>1. History(Tasks, u) = H /\ History({task}, u) = J
      BY <1>3, <1>7, HistoryStays
    <2>2. /\ ContestTokens(now) = C(now) /\ ContestTokens(u) = C(u)
          /\ TaskTokens(task, now) = K(now) /\ TaskTokens(task, u) = K(u)
      BY <1>2, <1>3, <2>1 DEF ContestTokens, TaskTokens
    <2>3. Steady(C(now), now, C(u), u, ec) /\ Steady(K(now), now, K(u), u, ek)
      BY <1>1, <1>4, <1>7, TokensSteady
    <2>4. ASSUME NEW rules, RulesTyped(rules), NEW G,
                 rules.mode = "finite" => TokensOf(rules, start, G, now).avail >= 0
          PROVE  Counts(TokensOf(rules, start, G, now), TokensOf(rules, start, G, u))
      <3>1. CASE rules.mode = "finite"
        BY <2>4, <3>1 DEF Counts
      <3>2. CASE rules.mode = "infinite"
        BY <3>2 DEF Counts, TokensOf, Tokens
      <3>3. CASE rules.mode = "disabled"
        BY <3>3 DEF Counts, TokensOf, Tokens
      <3> QED  BY <2>4, <3>1, <3>2, <3>3 DEF RulesTyped
    <2>5. Counts(C(now), C(u)) /\ Counts(K(now), K(u))
      BY <1>1, <2>2, <2>4
    <2> HIDE DEF C, K
    <2>6. Steady(Combined(C(now), K(now)), now, Combined(C(u), K(u)), u, e)
      BY <1>1, <1>5, <1>6, <1>7, <2>3, <2>5, CombinedSteady
    <2>7. Counts(Combined(C(now), K(now)), Combined(C(u), K(u)))
      <3>1. /\ C(now).avail \in Int /\ K(now).avail \in Int /\ C(u).avail \in Int
            /\ K(u).avail \in Int /\ C(now).avail <= C(u).avail /\ K(now).avail <= K(u).avail
        BY <2>3 DEF Steady
      <3> QED  BY <2>5, <3>1, CombinedCounts
    <2> QED  BY <2>2, <2>6, <2>7 DEF TokensAvailable
  <1> QED  BY <1>7

LEMMA TokensImplied ==
    ASSUME ContestTypes, TokensInv  PROVE TokensAsAnnounced
  <1> DEFINE at(task, t) == TokensAvailable(task, t)
             until(t) == {u \in Horizon : now <= u /\ (t = None \/ u < t)}
  <1>1. /\ now \in Int /\ Horizon \subseteq Int /\ None \notin Int
    BY ContestConstants DEF ContestTypes, Horizon
  <1>2. ASSUME NEW task \in Tasks, TokenStart # None,
               contest.token.mode = "finite" => ContestTokens(now).avail >= 0,
               contest.task_token.mode = "finite" => TaskTokens(task, now).avail >= 0
        PROVE  LET r == at(task, now)
               IN  /\ \A t \in until(r.next) : at(task, t).avail = r.avail
                   /\ r.next # None => now < r.next /\ at(task, r.next).avail > r.avail
                   /\ r.avail # 0 /\ r.expiration # None =>
                         /\ \A t \in until(r.expiration) : NoTokenNow(at(task, t))
                         /\ ~NoTokenNow(at(task, r.expiration))
                   /\ r.avail # 0 /\ r.expiration = None => ~NoTokenNow(r)
    <2>1. PICK e \in Int : \A u \in Int : now <= u =>
              /\ Steady(at(task, now), now, at(task, u), u, e)
              /\ Counts(at(task, now), at(task, u))
      BY <1>2, AnnouncedNow
    <2> PICK r : r = at(task, now)
      OBVIOUS
    <2>2. \A u \in Int : now <= u => Steady(r, now, at(task, u), u, e) /\ Counts(r, at(task, u))
      BY <2>1
    <2> HIDE DEF at
    <2>3. \A t \in until(r.next) : at(task, t).avail = r.avail
      BY <1>1, <2>2 DEF Steady
    <2>4. ASSUME r.next # None  PROVE now < r.next /\ at(task, r.next).avail > r.avail
      <3>1. r.next \in Int /\ now < r.next
        BY <1>1, <2>2, <2>4 DEF Steady
      <3>2. Steady(r, now, at(task, r.next), r.next, e)
        BY <1>1, <2>2, <3>1
      <3> QED  BY <2>4, <3>1, <3>2 DEF Steady
    <2>5. ASSUME r.avail # 0  PROVE r.expiration = IF e <= now THEN None ELSE e
      BY <1>1, <2>2, <2>5 DEF Steady
    <2>6. ASSUME NEW u \in Int, now <= u, r.avail # 0, r.expiration # None
          PROVE  NoTokenNow(at(task, u)) <=> u < e
      <3>1. e > now
        BY <1>1, <2>5, <2>6
      <3>2. Steady(r, now, at(task, u), u, e) /\ Counts(r, at(task, u))
        BY <2>2, <2>6
      <3>3. at(task, u).avail # 0
        BY <2>6, <3>2 DEF Steady, Counts
      <3>4. at(task, u).expiration = IF e <= u THEN None ELSE e
        BY <3>2, <3>3 DEF Steady
      <3> QED  BY <1>1, <2>6, <3>1, <3>3, <3>4 DEF NoTokenNow
    <2>7. ASSUME r.avail # 0, r.expiration # None
          PROVE  /\ \A t \in until(r.expiration) : NoTokenNow(at(task, t))
                 /\ ~NoTokenNow(at(task, r.expiration))
      <3>1. r.expiration = e /\ now < e
        BY <1>1, <2>5, <2>7
      <3> QED  BY <1>1, <2>6, <2>7, <3>1
    <2>8. r.avail # 0 /\ r.expiration = None => ~NoTokenNow(r)
      BY DEF NoTokenNow
    <2> QED  BY <2>3, <2>4, <2>7, <2>8
  <1> QED  BY <1>2 DEF TokensAsAnnounced

(* What tokens_available promises (its docstring) is kept whatever tokens  *)
(* were played on whatever tasks, under any rules the tables allow: the    *)
(* number it answers stays until the time it announces and grows then, and *)
(* a token is accepted from the expiration on, not before. The arithmetic  *)
(* of periods is that of whole divisions; contest and task rules, each     *)
(* with its own next time and interval, agree on one answer.               *)
THEOREM TokensAreAsAnnounced == ContestSpec => []TokensAsAnnounced
  <1> DEFINE Inv == ContestTypes /\ InThePast /\ TokensInv
  <1>1. ContestInit => Inv
    BY ContestStarts DEF ContestInv, ContestInit, TokensInv
  <1>2. Inv /\ [ContestNext]_contestVars => Inv'
    BY ContestTyped, PastKept, TokensKept
  <1>3. Inv => TokensAsAnnounced
    BY TokensImplied
  <1> QED  BY <1>1, <1>2, <1>3, PTL DEF ContestSpec
=============================================================================

------------------------------ MODULE Authentication ------------------------------
(***************************************************************************)
(* Who a contestant is: cms/server/contest/authentication.py, with the     *)
(* handlers that log in, log out and register                              *)
(* (cms/server/contest/handlers/main.py, handlers/contest.py).             *)
(*                                                                         *)
(* A browser has an address and at most one cookie of the contest.  A      *)
(* request is answered in one step; administrators change passwords,       *)
(* addresses and settings between requests, and time passes.  Passwords    *)
(* are compared, never looked into.                                        *)
(***************************************************************************)
EXTENDS Integers, FiniteSets

CONSTANTS Users, Browsers, Passwords, Addresses,
          NoValue,          \* None
          CookieDuration,   \* config.cookie_duration
          MaxClock,         \* bound: the clock stops here
          MaxChanges        \* bound: changes made by administrators

Cookies == [user : Users, password : Passwords \union {NoValue}, update : Nat]

ASSUME AuthAssumption ==
    /\ CookieDuration \in Nat /\ MaxClock \in Nat /\ MaxChanges \in Nat
    /\ NoValue \notin Cookies

VARIABLES
    settings,       \* flags of the contest
    user_password,  \* User.password, NoValue: there is no such user
    participation,  \* the participations: password, ip (addresses or NoValue), hidden
    address,        \* the address of each browser
    cookie,         \* the cookie of each browser: user, password, time of the last update
    active,         \* when each browser was last used in a way that keeps it logged in
    clock, changes

authVars == <<settings, user_password, participation, address, cookie, active, clock, changes>>

Flags == {"allow_password_authentication", "ip_autologin", "ip_restriction",
          "block_hidden_participations", "allow_registration"}

NotRegistered == [registered |-> FALSE, password |-> NoValue, ip |-> NoValue, hidden |-> FALSE]

AuthInit ==
    /\ settings \in SUBSET Flags
    /\ \E p \in Passwords : user_password = [u \in Users |-> p]
    /\ participation = [u \in Users |-> [NotRegistered EXCEPT !.registered = TRUE]]
    /\ \E a \in Addresses : address = [b \in Browsers |-> a]
    /\ cookie = [b \in Browsers |-> NoValue]
    /\ active = [b \in Browsers |-> NoValue]
    /\ clock = 0
    /\ changes = 0

-----------------------------------------------------------------------------

Registered == {u \in Users : participation[u].registered}

GetPassword(u) == IF participation[u].password = NoValue THEN user_password[u]
                  ELSE participation[u].password

\* Restrictions checked after the contestant is known.
Admitted(u, ip) ==
    /\ "ip_restriction" \in settings /\ participation[u].ip # NoValue
          => ip \in participation[u].ip
    /\ "block_hidden_participations" \in settings => ~participation[u].hidden

NewCookie(u) == [user |-> u, password |-> GetPassword(u), update |-> clock]

ValidateLogin(u, password, ip) ==
    /\ "allow_password_authentication" \in settings
    /\ u \in Registered
    /\ password = GetPassword(u)
    /\ Admitted(u, ip)

\* The participations an address belongs to, for the automatic login.  The query looks
\* for the address itself among the networks.
OfAddress(ip) ==
    {u \in Registered :
        /\ participation[u].ip # NoValue
        /\ ip \in participation[u].ip
        /\ "block_hidden_participations" \in settings => ~participation[u].hidden}

\* A plausible slip: a cookie lasts for ever.
FromCookieForever(b) ==
    IF cookie[b] # NoValue
    THEN {u \in Registered : u = cookie[b].user /\ cookie[b].password = GetPassword(u)}
    ELSE {}

FromCookie(b) ==
    IF cookie[b] # NoValue
    THEN {u \in Registered : /\ u = cookie[b].user
                             /\ clock - cookie[b].update <= CookieDuration
                             /\ cookie[b].password = GetPassword(u)}
    ELSE {}

ByAddress(b) == IF "ip_autologin" \in settings THEN OfAddress(address[b]) ELSE {}

\* The contestant a request of the browser is made by (nobody or one), and whether the
\* cookie told.
AuthenticateRequest(b) ==
    LET by_cookie == ByAddress(b) = {} /\ "allow_password_authentication" \in settings
        found == CASE Cardinality(ByAddress(b)) > 1 -> {}
                   [] Cardinality(ByAddress(b)) = 1 -> ByAddress(b)
                   [] ByAddress(b) = {} -> IF by_cookie THEN FromCookie(b) ELSE {}
    IN  [users |-> {u \in found : Admitted(u, address[b])}, by_cookie |-> by_cookie]

-----------------------------------------------------------------------------

\* get_current_user: the cookie is refreshed, or kept by the handlers that the page calls
\* by itself (refresh_cookie is False), or cleared.
Request(b, refresh_cookie) ==
    LET r == AuthenticateRequest(b)
        valid == r.users # {} /\ r.by_cookie
    IN  /\ cookie' = [cookie EXCEPT ![b] =
              IF ~valid THEN NoValue
              ELSE IF refresh_cookie THEN NewCookie(CHOOSE u \in r.users : TRUE)
              ELSE cookie[b]]
        /\ active' = [active EXCEPT ![b] = IF valid /\ refresh_cookie THEN clock ELSE @]
        /\ UNCHANGED <<settings, user_password, participation, address, clock, changes>>

LoginHandler(b, u, password) ==
    /\ IF ValidateLogin(u, password, address[b])
       THEN /\ cookie' = [cookie EXCEPT ![b] = NewCookie(u)]
            /\ active' = [active EXCEPT ![b] = clock]
       ELSE /\ cookie' = [cookie EXCEPT ![b] = NoValue]
            /\ UNCHANGED active
    /\ UNCHANGED <<settings, user_password, participation, address, clock, changes>>

LogoutHandler(b) ==
    /\ cookie' = [cookie EXCEPT ![b] = NoValue]
    /\ UNCHANGED <<settings, user_password, participation, address, active, clock, changes>>

\* A new user, whose name must be free, or an existing one with the right password, who
\* does not participate yet.
RegistrationHandler(u, password, new_user) ==
    /\ "allow_registration" \in settings
    /\ changes < MaxChanges /\ changes' = changes + 1
    /\ IF new_user THEN user_password[u] = NoValue
                   ELSE user_password[u] = password /\ u \notin Registered
    /\ user_password' = [user_password EXCEPT ![u] = password]
    /\ participation' = [participation EXCEPT ![u] = [NotRegistered EXCEPT !.registered = TRUE]]
    /\ UNCHANGED <<settings, address, cookie, active, clock>>

\* Administrators change a participation, a user or the contest.
AdminChanges ==
    /\ changes < MaxChanges /\ changes' = changes + 1
    /\ \/ /\ \E u \in Registered, p \in Passwords \union {NoValue} :
                participation' = [participation EXCEPT ![u].password = p]
          /\ UNCHANGED <<settings, user_password>>
       \/ /\ \E u \in Registered, S \in SUBSET Addresses \ {{}} :
                participation' = [participation EXCEPT ![u].ip = S]
          /\ UNCHANGED <<settings, user_password>>
       \/ /\ \E u \in Registered :
                participation' = [participation EXCEPT ![u].hidden = ~@]
          /\ UNCHANGED <<settings, user_password>>
       \/ /\ \E u \in Registered :
                participation' = [participation EXCEPT ![u] = NotRegistered]
          /\ UNCHANGED <<settings, user_password>>
       \/ /\ \E u \in Users, p \in Passwords :
                /\ user_password[u] # NoValue
                /\ user_password' = [user_password EXCEPT ![u] = p]
          /\ UNCHANGED <<settings, participation>>
       \/ /\ \E u \in Users : user_password' = [user_password EXCEPT ![u] = NoValue]
                              /\ participation' = [participation EXCEPT ![u] = NotRegistered]
          /\ UNCHANGED settings
       \/ /\ \E f \in Flags : settings' = (settings \ {f}) \union ({f} \ settings)
          /\ UNCHANGED <<user_password, participation>>
    /\ UNCHANGED <<address, cookie, active, clock>>

\* The contestant moves to another place.
Moves(b) ==
    /\ \E a \in Addresses : a # address[b] /\ address' = [address EXCEPT ![b] = a]
    /\ UNCHANGED <<settings, user_password, participation, cookie, active, clock, changes>>

ClockTick ==
    /\ clock < MaxClock
    /\ clock' = clock + 1
    /\ UNCHANGED <<settings, user_password, participation, address, cookie, active, changes>>

AuthNext ==
    \/ \E b \in Browsers :
          \/ \E refresh \in BOOLEAN : Request(b, refresh)
          \/ \E u \in Users, p \in Passwords : LoginHandler(b, u, p)
          \/ LogoutHandler(b)
          \/ Moves(b)
    \/ \E u \in Users, p \in Passwords, new \in BOOLEAN : RegistrationHandler(u, p, new)
    \/ AdminChanges
    \/ ClockTick

AuthSpec == AuthInit /\ [][AuthNext]_authVars

-----------------------------------------------------------------------------
(* Properties.                                                             *)

\* Logging in is enough: a contestant whose password is accepted is recognised in the
\* very next request from the same address, unless the address itself logs somebody in
\* or is claimed by several.
LoginIsEnough ==
    [][\A b \in Browsers, u \in Users :
          /\ cookie'[b] # NoValue /\ cookie'[b] # cookie[b] /\ cookie'[b].user = u
          /\ ByAddress(b) = {}
          => AuthenticateRequest(b).users' = {u}]_authVars

\* A browser left alone for longer than a cookie lasts is not recognised by it, however
\* often its pages poll for notifications; and the password in a cookie that is accepted
\* is the one that is on record now.
SessionEnds(b) ==
    LET r == AuthenticateRequest(b)
    IN  r.by_cookie /\ r.users # {} =>
            /\ clock - active[b] <= CookieDuration
            /\ \A u \in r.users : \/ cookie[b].password = participation[u].password
                                  \/ /\ participation[u].password = NoValue
                                     /\ cookie[b].password = user_password[u]

(* Both: a login is enough, and does not last for ever.                    *)
SessionsSound == LoginIsEnough /\ [](\A b \in Browsers : SessionEnds(b))
=============================================================================

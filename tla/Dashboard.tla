----------------------------- MODULE Dashboard ------------------------------
(***************************************************************************)
(* The dashboard's sessions: a browser's tabs share one cookie jar, every  *)
(* page is rendered from API calls made with the token of the cookie the   *)
(* request came with, and the answer's Set-Cookie and redirect reach the   *)
(* browser later, when another tab or the clock may have changed what the  *)
(* jar holds.  (src/internal/web)                                          *)
(***************************************************************************)
EXTENDS Naturals

CONSTANTS
  Tabs,       \* the tabs of the browser
  MaxLogins,  \* bound: sessions that are opened
  MaxHops     \* bound: redirects a browser follows

Sessions == 1..MaxLogins
NoCookie == 0
\* An answer without a Set-Cookie
Keep == MaxLogins + 2

ASSUME DashboardAssumption == {MaxLogins, MaxHops} \subseteq Nat \ {0}

VARIABLES
  jar,      \* the session cookie, or NoCookie
  opened,   \* how many sessions were opened
  expired,  \* the sessions whose token is no longer valid
  tab,      \* per tab: [at, path, cookie, to, jar]
  hops,     \* per tab: redirects followed since the user's last click
  changes   \* per tab: changes of the jar by others and expiries, since then

dashVars == <<jar, opened, expired, tab, hops, changes>>

Pages == {"/", "/jobs", "/jobs/new", "/jobs/id", "/partials", "/login", "/register", "/logout"}
Forms == {"POST/login", "POST/register", "POST/jobs", "POST/jobs/id"}
Paths == Pages \union Forms
\* No redirect: what is shown is the answer's own page.
Here == "page"

Answer(to, change) == [to |-> to, jar |-> change]
Shows == Answer(Here, Keep)
Redirects(path) == Answer(path, Keep)

\* A tab that shows a page; it may ask for any path next.
AtRest == [at |-> "page", path |-> "/", cookie |-> NoCookie, to |-> Here, jar |-> Keep]

DashTypeOK ==
  /\ opened \in 0..MaxLogins /\ jar \in 0..opened /\ expired \subseteq 1..opened
  /\ tab \in [Tabs -> [at : {"page", "asked", "answered"}, path : Paths, cookie : 0..opened,
                       to : Paths \union {Here}, jar : 0..opened \union {Keep}]]
  /\ hops \in [Tabs -> 0..MaxHops] /\ changes \in [Tabs -> Nat]

DashInit ==
  /\ jar = NoCookie /\ opened = 0 /\ expired = {}
  /\ tab = [t \in Tabs |-> AtRest]
  /\ hops = [t \in Tabs |-> 0] /\ changes = [t \in Tabs |-> 0]

-----------------------------------------------------------------------------
\* Mutant: a dead session is sent to the form with its cookie
RedirectKeeping == Answer("/login", Keep)

\* redirectLogin
RedirectLogin == Answer("/login", NoCookie)

\* The pages behind requireSession, with an error of the API shown as a page:
\* it is down, slow, without its database, or refuses what the form says.
OnError(path) == IF path = "POST/jobs/id" THEN Redirects("/jobs/id") ELSE Shows

\* The token is good ...
OnSuccess(path) ==
  CASE path = "POST/jobs" -> {Redirects("/jobs/id")}
    [] path = "POST/jobs/id" -> {Redirects("/jobs/id"), Redirects("/")}
    [] OTHER -> {Shows}

\* ... or the API answers 401; a fragment navigates by HX-Redirect, which
\* leaves the cookie.
OnRefusal(path) == IF path = "/partials" THEN Redirects("/login") ELSE RedirectLogin

BehindSession(path, cookie) ==
  IF cookie = NoCookie THEN {Redirects("/login")}
  ELSE CASE path = "/jobs" -> {Redirects("/")}
         [] path = "/jobs/new" -> {Shows}
         [] OTHER -> {OnError(path)} \union (IF cookie \in expired THEN {OnRefusal(path)} ELSE OnSuccess(path))

\* What the server may answer to a request with this cookie.  A registration
\* logs in by itself; when that fails it leads to the login.
MayAnswer(path, cookie) ==
  CASE path = "/login" -> {IF cookie = NoCookie THEN Shows ELSE Redirects("/")}
    [] path = "/register" -> {Shows}
    [] path = "/logout" -> {RedirectLogin}
    [] path = "POST/login" -> {Answer("/", opened + 1), Shows}
    [] path = "POST/register" -> {Answer("/", opened + 1), Shows, Redirects("/login")}
    [] OTHER -> BehindSession(path, cookie)

-----------------------------------------------------------------------------
Asking(path, cookie) == [at |-> "asked", path |-> path, cookie |-> cookie, to |-> Here, jar |-> Keep]

\* The tabs that are waiting for a page when the session changes under them
Notice(others) == [t \in Tabs |-> IF t \in others /\ tab[t].at # "page" THEN changes[t] + 1 ELSE changes[t]]

\* The user follows a link, sends a form, or a page polls its fragments.
Clicks(t, path) ==
  /\ tab[t].at = "page"
  /\ tab' = [tab EXCEPT ![t] = Asking(path, jar)]
  /\ UNCHANGED <<jar, opened, expired, hops, changes>>

\* The server's handler, up to its answer
Serves(t) ==
  /\ tab[t].at = "asked"
  /\ \E a \in MayAnswer(tab[t].path, tab[t].cookie) :
       /\ a.jar = opened + 1 => opened < MaxLogins
       /\ tab' = [tab EXCEPT ![t].at = "answered", ![t].to = a.to, ![t].jar = a.jar]
       /\ opened' = IF a.jar = opened + 1 THEN opened + 1 ELSE opened
  /\ UNCHANGED <<jar, expired, hops, changes>>

\* The browser takes the cookie of the answer and follows its redirect.
Receives(t) ==
  /\ tab[t].at = "answered"
  /\ jar' = IF tab[t].jar = Keep THEN jar ELSE tab[t].jar
  /\ LET others == IF jar' = jar THEN changes ELSE Notice(Tabs \ {t}) IN
       IF tab[t].to = Here \/ hops[t] = MaxHops
       THEN /\ tab' = [tab EXCEPT ![t] = AtRest]
            /\ hops' = [hops EXCEPT ![t] = 0] /\ changes' = [others EXCEPT ![t] = 0]
       ELSE /\ tab' = [tab EXCEPT ![t] = Asking(tab[t].to, jar')]
            /\ hops' = [hops EXCEPT ![t] = @ + 1] /\ changes' = others
  /\ UNCHANGED <<opened, expired>>

\* The token's expiry, which the API checks, and the cookie's own
Expires(s) ==
  /\ s \in 1..opened /\ s \notin expired
  /\ expired' = expired \union {s}
  /\ changes' = Notice(Tabs)
  /\ UNCHANGED <<jar, opened, tab, hops>>
Forgets ==
  /\ jar # NoCookie /\ jar' = NoCookie
  /\ changes' = Notice(Tabs)
  /\ UNCHANGED <<opened, expired, tab, hops>>

DashNext ==
  \/ Forgets
  \/ \E s \in Sessions : Expires(s)
  \/ \E t \in Tabs : Serves(t) \/ Receives(t) \/ \E path \in Paths : Clicks(t, path)

DashSpec == DashInit /\ [][DashNext]_dashVars

-----------------------------------------------------------------------------
\* A click always leads to a page: the login form sends a browser that has a
\* cookie to the dashboard, and the dashboard sends one whose token is dead to
\* the login form, but the redirects in between are at most three, and one
\* more for each time the session changes meanwhile (redirectLogin's cleared
\* cookie, routeLogin's and requireSession's redirects, htmxRedirect's cookie
\* that stays).
RedirectsEnd == \A t \in Tabs : hops[t] <= 3 + changes[t]
=============================================================================

------------------------------- MODULE Session -------------------------------
(***************************************************************************)
(* The signed-in web pages: app/auth.py and the page routes of app/web.py. *)
(* The session lives in the browser.  A request carries all of it in its   *)
(* cookie, the handler changes its own copy, and the answer replaces what  *)
(* the browser holds by then, so requests of two tabs race.  A page has no *)
(* effect but on its copy: it is served in the step that asks for it.  A   *)
(* form acts on the stores in a step of its own, at any time after it was  *)
(* sent.  Any answer may come late or be lost.                             *)
(***************************************************************************)
EXTENDS Integers, FiniteSets

CONSTANTS
    Tab,            \* tabs of one browser; they share its cookie
    User,           \* accounts at the OIDC provider
    Token,          \* CSRF tokens
    Item,           \* app passwords, feed links and events that get created
    Kind,           \* what the forms create
    Cap,            \* settings.max_app_passwords and max_ics_feeds
    None

ASSUME SessionAssumption ==
    /\ None \notin User /\ None \notin Token /\ None \notin Item
    /\ Kind \subseteq {"password", "feed", "event"}
    /\ Cap \in Nat

\* The page with the form for each kind.
FormOf == [password |-> "/passwords", feed |-> "/feeds", event |-> "/events/new"]
FormPage == {"/passwords", "/feeds", "/events/new"}
\* Where the navigation and the sign-in button of the pages lead.
Link == {"/", "/calendar", "/login", "/logout"} \cup FormPage

VARIABLES
    jar,            \* the session cookie the browser holds
    page,           \* tab -> the form page it displays
    pc,             \* tab -> is a request of it under way?
    sess,           \* tab -> request.session
    form,           \* tab -> the form it has submitted
    answer,         \* tab -> the response on its way back
    items,          \* item -> the row or event, None before it is created
    shown,          \* item -> times its secret was displayed
    lost,           \* was an answer ever lost?
    current,        \* tabs whose page is newer than the last sign-in or -out
    overlapped,     \* have two tabs had requests under way together?
    quiet,          \* tabs whose logout has overlapped with no other request
    out             \* signed out by such a logout?

netVars == <<pc, sess, form, answer>>
serialVars == <<shown, lost, current, overlapped>>
vars == <<jar, page, netVars, items, serialVars, quiet, out>>

\* user, csrf and the pending logins are auth.py's; web.py leaves a new secret.
\* Its one-time messages (a cap was reached, an event was added) are left out.
Sessions == [user : User \cup {None}, csrf : Token \cup {None}, pending : SUBSET Tab, secret : Item \cup {None}]
Displays == [name : FormPage \cup {None}, user : User \cup {None}, csrf : Token \cup {None},
             secret : Item \cup {None}]
\* user and csrf are those of the page that was submitted.
Forms == [kind : Kind, revoke : Item \cup {None}, user : User \cup {None}, csrf : Token \cup {None}]
Redirects == Link \cup {"provider"}
\* cookie: is there a Set-Cookie header?  switch: does it sign in or out?
Answers == [cookie : BOOLEAN, switch : {"none", "in", "out"}, redirect : Redirects \cup {None}, page : Displays]
Rows == [kind : Kind, owner : User, reader : User \cup {None}, revoked : BOOLEAN]

ASSUME NoneAssumption == None \notin Forms /\ None \notin Rows /\ None \notin Redirects

NoSession == [user |-> None, csrf |-> None, pending |-> {}, secret |-> None]
Blank == [name |-> None, user |-> None, csrf |-> None, secret |-> None]
NoAnswer == [cookie |-> FALSE, switch |-> "none", redirect |-> None, page |-> Blank]

TypeOK ==
    /\ jar \in Sessions
    /\ page \in [Tab -> Displays]
    /\ pc \in [Tab -> {"view", "posted", "answered", "redirect"}]
    /\ sess \in [Tab -> Sessions]
    /\ form \in [Tab -> Forms \cup {None}]
    /\ \A t \in Tab : pc[t] = "posted" => form[t] # None
    /\ answer \in [Tab -> Answers]
    /\ items \in [Item -> Rows \cup {None}]
    /\ shown \in [Item -> 0..2]
    /\ lost \in BOOLEAN /\ overlapped \in BOOLEAN /\ out \in BOOLEAN
    /\ current \in SUBSET Tab /\ quiet \in SUBSET Tab

Init ==
    /\ jar = NoSession
    /\ page = [t \in Tab |-> Blank]
    /\ pc = [t \in Tab |-> "view"]
    /\ sess = [t \in Tab |-> NoSession]
    /\ form = [t \in Tab |-> None]
    /\ answer = [t \in Tab |-> NoAnswer]
    /\ items = [i \in Item |-> None]
    /\ shown = [i \in Item |-> 0]
    /\ lost = FALSE /\ overlapped = FALSE /\ out = FALSE
    /\ current = {} /\ quiet = {}

-----------------------------------------------------------------------------
(* Requests and answers.                                                   *)

Others(t) == {u \in Tab \ {t} : pc[u] # "view"}

\* A request of t leaves.  What only serial requests promise is forgotten once
\* two have overlapped.
Leaves(t, logout) ==
    /\ quiet' = IF logout /\ Others(t) = {} THEN {t} ELSE {}
    /\ IF Others(t) = {} THEN UNCHANGED serialVars
       ELSE /\ overlapped' = TRUE
            /\ shown' = [i \in Item |-> 0]
            /\ lost' = FALSE
            /\ current' = {}

\* The answer to t, whose request came with session `from`, with session `to`:
\* SessionMiddleware sends it back unless it was and is empty.
Answer(t, from, to, redirect, switch, display) ==
    /\ pc' = [pc EXCEPT ![t] = "answered"]
    /\ sess' = [sess EXCEPT ![t] = to]
    /\ form' = [form EXCEPT ![t] = None]
    /\ answer' = [answer EXCEPT ![t] = [cookie |-> from # NoSession \/ to # NoSession,
                                        switch |-> switch, redirect |-> redirect, page |-> display]]
    /\ UNCHANGED <<jar, page, out>>

Redirect(t, from, to, path) == Answer(t, from, to, path, "none", Blank)

\* Every cookie, page and form that carries a token.
Bearers == {jar} \cup {page[t] : t \in Tab} \cup {sess[t] : t \in Tab} \cup {answer[t].page : t \in Tab}
                 \cup ({form[t] : t \in Tab} \ {None})

NewToken == Token \ {b.csrf : b \in Bearers}

\* Mutant: every page gets a token of its own.
CsrfTokenRotates(s) == NewToken

\* csrf_token(): the session's token, or one nobody has seen.
CsrfToken(s) == IF s.csrf = None THEN NewToken ELSE {s.csrf}

\* render(): pages without a form are alike.
Render(t, from, to, name, secret) ==
    \E c \in CsrfToken(to) :
        Answer(t, from, [to EXCEPT !.csrf = c], None, "none",
               IF name \in FormPage THEN [name |-> name, user |-> to.user, csrf |-> c, secret |-> secret]
                                    ELSE Blank)

\* The response arrives: its cookie replaces the browser's.
Receive(t) ==
    LET a == answer[t] IN
    /\ pc[t] = "answered"
    /\ jar' = IF a.cookie THEN sess[t] ELSE jar
    /\ page' = [page EXCEPT ![t] = a.page]
    /\ IF a.redirect = None
       THEN /\ pc' = [pc EXCEPT ![t] = "view"]
            /\ answer' = [answer EXCEPT ![t] = NoAnswer]
       ELSE /\ pc' = [pc EXCEPT ![t] = "redirect"]
            /\ answer' = [answer EXCEPT ![t] = [NoAnswer EXCEPT !.redirect = a.redirect]]
    /\ sess' = [sess EXCEPT ![t] = NoSession]
    /\ IF overlapped THEN UNCHANGED <<shown, current>>
       ELSE /\ shown' = [i \in Item |-> IF i = a.page.secret /\ shown[i] < 2 THEN shown[i] + 1 ELSE shown[i]]
            /\ current' = (IF a.switch = "none" THEN current ELSE {}) \cup {t}
    /\ out' = CASE a.switch = "out" -> t \in quiet
                [] a.switch = "in" -> FALSE
                [] OTHER -> out
    /\ quiet' = quiet \ {t}
    /\ UNCHANGED <<form, items, lost, overlapped>>

\* The request, or its answer, is lost: the connection breaks, the handler
\* raises, or the process dies, before or after the store's block commits.
Lose(t) ==
    /\ pc[t] # "view"
    /\ pc' = [pc EXCEPT ![t] = "view"]
    /\ page' = [page EXCEPT ![t] = Blank]
    /\ sess' = [sess EXCEPT ![t] = NoSession]
    /\ form' = [form EXCEPT ![t] = None]
    /\ answer' = [answer EXCEPT ![t] = NoAnswer]
    /\ lost' = ~overlapped
    /\ quiet' = quiet \ {t}
    /\ UNCHANGED <<jar, items, shown, current, overlapped, out>>

-----------------------------------------------------------------------------
(* Pages: the routes that answer a GET, with the cookie it is sent with.    *)

\* An address, a link or a reload in t, or the redirect it was answered with.
Visits(t, path) ==
    /\ \/ pc[t] = "view"
       \/ pc[t] = "redirect" /\ answer[t].redirect = path
    /\ Leaves(t, path = "/logout")
    /\ UNCHANGED items

Index(t) ==
    /\ Visits(t, "/")
    /\ IF jar.user = None THEN Render(t, jar, jar, "/", None)
                          ELSE Redirect(t, jar, jar, "/calendar")

\* Every other page asks for a sign-in first; `after` is the session it leaves.
Page(t, name, after, secret) ==
    /\ Visits(t, name)
    /\ IF jar.user = None THEN Redirect(t, jar, jar, "/")
                          ELSE Render(t, jar, after, name, secret)

CalendarView(t) == Page(t, "/calendar", jar, None)

NewEventForm(t) == Page(t, "/events/new", jar, None)

\* Mutant: the secret is read from the session and stays there.
PasswordsPageKeeps(t) == Page(t, "/passwords", jar, jar.secret)

PasswordsPage(t) == Page(t, "/passwords", [jar EXCEPT !.secret = None], jar.secret)

FeedsPage(t) == Page(t, "/feeds", jar, None)

\* authorize_redirect() notes the state of this login in the session.
Login(t) ==
    /\ Visits(t, "/login")
    /\ Redirect(t, jar, [jar EXCEPT !.pending = @ \cup {t}], "provider")

\* The provider has sent the browser back to /auth/callback.
Returns(t) ==
    /\ pc[t] = "redirect" /\ answer[t].redirect = "provider"
    /\ Leaves(t, FALSE)
    /\ UNCHANGED items

\* Mutant: the user is replaced in a session that is not cleared.
CallbackKeeps(t, u) ==
    /\ Returns(t)
    /\ t \in jar.pending
    /\ Answer(t, jar, [jar EXCEPT !.user = u], "/calendar", "in", Blank)

\* Mutant: the session is given to the login's state.
CallbackState(t, u) ==
    /\ Returns(t)
    /\ t \in jar.pending
    /\ Answer(t, jar, [NoSession EXCEPT !.user = t], "/calendar", "in", Blank)

Callback(t, u) ==
    /\ Returns(t)
    /\ t \in jar.pending
    /\ Answer(t, jar, [NoSession EXCEPT !.user = u], "/calendar", "in", Blank)

\* The state is not in the session, the token exchange fails, or the claims hold
\* no username.  The session is not cleared; the login's state may be.
CallbackFails(t) ==
    /\ Returns(t)
    /\ \E rest \in {jar.pending, jar.pending \ {t}} :
           Redirect(t, jar, [jar EXCEPT !.pending = rest], "/")

\* Mutant: only the token is dropped.
LogoutKeeps(t) ==
    /\ Visits(t, "/logout")
    /\ Answer(t, jar, [jar EXCEPT !.csrf = None], "/", "out", Blank)

Logout(t) ==
    /\ Visits(t, "/logout")
    /\ Answer(t, jar, NoSession, "/", "out", Blank)

-----------------------------------------------------------------------------
(* Forms.                                                                  *)

\* Submitted from the page t displays, with the cookie of that moment.
Submit(t, kind, revoke) ==
    /\ pc[t] = "view"
    /\ page[t].name = FormOf[kind]
    /\ pc' = [pc EXCEPT ![t] = "posted"]
    /\ sess' = [sess EXCEPT ![t] = jar]
    /\ form' = [form EXCEPT ![t] = [kind |-> kind, revoke |-> revoke,
                                    user |-> page[t].user, csrf |-> page[t].csrf]]
    /\ Leaves(t, FALSE)
    /\ UNCHANGED <<jar, page, answer, items, out>>

SubmitCreate(t, kind) == Submit(t, kind, None)

\* The credential pages list the reader's rows, each with a revoke form.
SubmitRevoke(t, i) ==
    /\ items[i] # None
    /\ items[i].owner = page[t].user
    /\ items[i].kind # "event"
    /\ Submit(t, items[i].kind, i)

\* require_user() and verify_csrf().
Allowed(t) == sess[t].user # None /\ sess[t].csrf # None /\ form[t].csrf = sess[t].csrf

Acts(t) ==
    /\ pc[t] = "posted"
    /\ UNCHANGED <<serialVars, quiet>>

\* 401 or 403.
Refused(t) ==
    /\ Acts(t) /\ ~Allowed(t)
    /\ Answer(t, sess[t], sess[t], None, "none", Blank)
    /\ UNCHANGED items

Creates(t, kinds) == Acts(t) /\ Allowed(t) /\ form[t].revoke = None /\ form[t].kind \in kinds

Active(user, kind) ==
    {i \in Item : items[i] # None /\ items[i].owner = user /\ items[i].kind = kind /\ ~items[i].revoked}

AtLimit(t) == Cardinality(Active(sess[t].user, form[t].kind)) >= Cap

\* The row or event that t asks for.
Insert(t, i) ==
    /\ items[i] = None
    /\ items' = [items EXCEPT ![i] = [kind |-> form[t].kind, owner |-> sess[t].user,
                                      reader |-> form[t].user, revoked |-> FALSE]]

\* create_password() leaves the secret for the page it redirects to; a feed's
\* page lists the links with their tokens, so create_feed() leaves nothing.
CreateCredential(t, i) ==
    /\ Creates(t, Kind \ {"event"}) /\ ~AtLimit(t)
    /\ Insert(t, i)
    /\ Redirect(t, sess[t], IF form[t].kind = "password" THEN [sess[t] EXCEPT !.secret = i] ELSE sess[t],
                FormOf[form[t].kind])

LimitReached(t) ==
    /\ Creates(t, Kind \ {"event"}) /\ AtLimit(t)
    /\ Redirect(t, sess[t], sess[t], FormOf[form[t].kind])
    /\ UNCHANGED items

\* put_event() was told that the event is stored.
CreateEvent(t, i) ==
    /\ Creates(t, {"event"})
    /\ Insert(t, i)
    /\ Redirect(t, sess[t], sess[t], "/calendar")

\* The form is wrong, or the PUT fails: the form comes back.  The backend may
\* have stored the event all the same.
EventFails(t) ==
    /\ Creates(t, {"event"})
    /\ UNCHANGED items \/ \E i \in Item : Insert(t, i)
    /\ Render(t, sess[t], sess[t], "/events/new", None)

Revoke(t) ==
    LET i == form[t].revoke IN
    /\ Acts(t) /\ Allowed(t)
    /\ i # None
    /\ items' = IF i \in Active(sess[t].user, form[t].kind) THEN [items EXCEPT ![i].revoked = TRUE] ELSE items
    /\ Redirect(t, sess[t], sess[t], FormOf[form[t].kind])

-----------------------------------------------------------------------------
Visit(t) ==
    \/ Index(t) \/ CalendarView(t) \/ NewEventForm(t) \/ PasswordsPage(t) \/ FeedsPage(t)
    \/ Login(t) \/ (\E u \in User : Callback(t, u)) \/ CallbackFails(t) \/ Logout(t)

Post(t) ==
    \/ Refused(t) \/ LimitReached(t) \/ EventFails(t) \/ Revoke(t)
    \/ \E i \in Item : CreateCredential(t, i) \/ CreateEvent(t, i)

Next ==
    \E t \in Tab :
        \/ Visit(t) \/ Post(t) \/ Receive(t) \/ Lose(t)
        \/ \E kind \in Kind : SubmitCreate(t, kind)
        \/ \E i \in Item : SubmitRevoke(t, i)

Spec == Init /\ [][Next]_vars
-----------------------------------------------------------------------------
(* Properties.                                                             *)

\* A form acts for the account its page was rendered for, also when it stayed
\* open in a tab while the browser changed accounts.
FormsActForTheirReader ==
    \A i \in Item : items[i] # None => items[i].reader = items[i].owner

\* A page shows a new secret to nobody but the account it was created for.
SecretsReachTheirOwner ==
    \A t \in Tab : LET i == page[t].secret IN
        i # None => /\ items[i] # None
                    /\ items[i].kind = "password"
                    /\ items[i].owner = page[t].user

Carried(i) == jar.secret = i \/ \E t \in Tab : sess[t].secret = i \/ answer[t].page.secret = i

\* Without overlapping requests a secret is shown at most once, and it is on its
\* way to its page until it is shown, unless an answer was lost.
SecretsShownOnce ==
    \A i \in Item :
        ~overlapped /\ items[i] # None /\ items[i].kind = "password" =>
            /\ shown[i] <= 1
            /\ shown[i] = 1 => ~Carried(i)
            /\ shown[i] = 0 /\ ~lost => Carried(i)

\* A form that was rendered since the last sign-in works, in every tab.
OpenFormsWork ==
    \A t \in Tab :
        ~overlapped /\ t \in current /\ page[t].csrf # None
            => page[t].csrf = jar.csrf /\ page[t].user = jar.user

\* A logout that was answered while nothing else was under way holds until the
\* next sign-in, whatever is open in other tabs.
QuietLogoutHolds == out => jar.user = None /\ jar.secret = None
=============================================================================

---------------------------- MODULE SessionProofs ----------------------------
(***************************************************************************)
(* Proofs about Session, for any number of tabs, accounts, tokens and      *)
(* items.  The argument is about what a token and a secret say of the      *)
(* account: two places that hold one token belong to one account, because  *)
(* a token is made for one session and a sign-in starts a new session, and *)
(* a place that holds a secret belongs to the account the secret was made  *)
(* for.                                                                    *)
(***************************************************************************)
EXTENDS Session, TLAPS

CoreType ==
    /\ jar \in Sessions
    /\ page \in [Tab -> Displays]
    /\ pc \in [Tab -> {"view", "posted", "answered", "redirect"}]
    /\ sess \in [Tab -> Sessions]
    /\ form \in [Tab -> Forms \cup {None}]
    /\ \A t \in Tab : pc[t] = "posted" => form[t] # None
    /\ answer \in [Tab -> Answers]
    /\ items \in [Item -> Rows \cup {None}]

GhostType ==
    /\ shown \in [Item -> 0..2]
    /\ lost \in BOOLEAN /\ overlapped \in BOOLEAN /\ out \in BOOLEAN
    /\ current \in SUBSET Tab /\ quiet \in SUBSET Tab

\* One token, one account.
TokensPair ==
    \A b, d \in Bearers : b.csrf = d.csrf /\ b.csrf # None => b.user = d.user

\* What carries or shows a secret belongs to the account the secret is for.
SecretOf(b, its) ==
    b.secret # None => /\ its[b.secret] # None
                       /\ its[b.secret].kind = "password"
                       /\ its[b.secret].owner = b.user

SecretsPair ==
    /\ SecretOf(jar, items)
    /\ \A t \in Tab : SecretOf(page[t], items) /\ SecretOf(sess[t], items) /\ SecretOf(answer[t].page, items)

Core == CoreType /\ TokensPair /\ SecretsPair /\ FormsActForTheirReader

\* After a quiet logout only a sign-in brings an account back.
SignedOut(s) == s.user = None /\ s.secret = None

QuietWaits ==
    \A t \in quiet : /\ pc[t] = "answered" /\ answer[t].switch = "out"
                     /\ SignedOut(sess[t])
                     /\ ~answer[t].cookie => SignedOut(jar)
                     /\ \A u \in Tab \ {t} : pc[u] = "view"

OutHolds ==
    out => /\ SignedOut(jar)
           /\ \A t \in Tab : pc[t] = "posted" \/ (pc[t] = "answered" /\ answer[t].switch # "in") => SignedOut(sess[t])

QuietInv == QuietWaits /\ OutHolds

IInv == Core /\ GhostType /\ QuietInv
-----------------------------------------------------------------------------
USE SessionAssumption, NoneAssumption DEF SessionAssumption, NoneAssumption

LEMMA Blanks ==
    /\ NoSession \in Sessions /\ Blank \in Displays /\ NoAnswer \in Answers
    /\ NoSession.csrf = None /\ NoSession.user = None /\ NoSession.secret = None
    /\ Blank.csrf = None /\ Blank.secret = None /\ NoAnswer.page = Blank
  BY DEF NoSession, Sessions, Blank, Displays, NoAnswer, Answers

LEMMA InitIInv == Init => IInv
  <1> SUFFICES ASSUME Init PROVE IInv
    OBVIOUS
  <1> USE Blanks DEF Init
  <1>1. CoreType
    BY DEF CoreType
  <1>2. TokensPair
    <2>1. \A b \in Bearers : b.csrf = None
      BY DEF Bearers
    <2> QED BY <2>1 DEF TokensPair
  <1>3. SecretsPair /\ FormsActForTheirReader
    BY DEF SecretsPair, SecretOf, FormsActForTheirReader
  <1>4. GhostType
    <2>1. shown \in [Item -> 0..2] /\ current \in SUBSET Tab /\ quiet \in SUBSET Tab
      OBVIOUS
    <2>2. lost \in BOOLEAN /\ overlapped \in BOOLEAN /\ out \in BOOLEAN
      BY Zenon
    <2> QED BY <2>1, <2>2 DEF GhostType
  <1>5. QuietInv
    BY DEF QuietInv, QuietWaits, OutHolds
  <1> QED BY <1>1, <1>2, <1>3, <1>4, <1>5 DEF IInv, Core

\* Rows keep their account and kind, and new ones act for their reader.
ItemsGrow ==
    /\ items' \in [Item -> Rows \cup {None}]
    /\ \A i \in Item : items[i] # None => /\ items'[i] # None
                                          /\ items'[i].owner = items[i].owner
                                          /\ items'[i].kind = items[i].kind
    /\ FormsActForTheirReader'

\* A token and an account that go together: held together already, or the token
\* is new.
Together(k, u) == (\E d \in Bearers : d.csrf = k /\ d.user = u) \/ k \in NewToken

Bears(b, k, u) == b.csrf = None \/ (b.csrf = k /\ b.user = u) \/ \E d \in Bearers : d.csrf = b.csrf /\ d.user = b.user

LEMMA TokensStay ==
    ASSUME TokensPair, NEW k, NEW u, Together(k, u), \A b \in Bearers' : Bears(b, k, u)
    PROVE  TokensPair'
  <1> SUFFICES ASSUME NEW b \in Bearers', NEW d \in Bearers', b.csrf = d.csrf, b.csrf # None
               PROVE  b.user = d.user
    BY DEF TokensPair
  <1>1. Bears(b, k, u) /\ Bears(d, k, u)
    OBVIOUS
  <1>2. ASSUME NEW x \in Bearers, x.csrf = k, k # None PROVE x.user = u
    BY <1>2 DEF Together, NewToken, TokensPair
  <1> QED BY <1>1, <1>2 DEF Bears, TokensPair

\* An answer keeps the invariant if its session and page do.
LEMMA AnswerKeeps ==
    ASSUME Core, ItemsGrow,
           NEW t \in Tab, NEW from, NEW to \in Sessions, NEW redirect \in Redirects \cup {None},
           NEW switch \in {"none", "in", "out"}, NEW display \in Displays,
           Answer(t, from, to, redirect, switch, display),
           NEW k, NEW u, Together(k, u), Bears(to, k, u), Bears(display, k, u),
           SecretOf(to, items'), SecretOf(display, items')
    PROVE  Core'
  <1> USE DEF Core, Answer
  <1>1. CoreType'
    BY DEF CoreType, ItemsGrow, Answers
  <1>2. \A b \in Bearers' : Bears(b, k, u)
    <2> SUFFICES ASSUME NEW b \in Bearers', b # to, b # display
                 PROVE  b \in Bearers
      BY DEF Bears
    <2> QED BY DEF Bearers, CoreType
  <1>3. TokensPair'
    BY <1>2, TokensStay
  <1>4. SecretsPair'
    <2>1. \A b \in Sessions \cup Displays : SecretOf(b, items) => SecretOf(b, items')
      BY DEF SecretOf, ItemsGrow, Sessions, Displays
    <2>2. /\ jar \in Sessions
          /\ \A v \in Tab : page[v] \in Displays /\ sess[v] \in Sessions /\ answer[v].page \in Displays
      BY DEF CoreType, Answers
    <2>3. jar' = jar /\ page' = page
      OBVIOUS
    <2>4. \A v \in Tab : SecretOf(sess'[v], items') /\ SecretOf((answer[v].page)', items')
      BY <2>1, <2>2 DEF SecretsPair, CoreType
    <2> QED BY <2>1, <2>2, <2>3, <2>4 DEF SecretsPair
  <1> QED BY <1>1, <1>3, <1>4 DEF ItemsGrow

LEMMA SameItems == ASSUME Core, UNCHANGED items PROVE ItemsGrow
  BY DEF Core, CoreType, ItemsGrow, FormsActForTheirReader

\* A redirect that leaves the account, the token and the secret alone or drops
\* the secret.
LEMMA RedirectKeeps ==
    ASSUME Core, ItemsGrow, NEW t \in Tab, NEW from \in Bearers, NEW to \in Sessions,
           to.user = from.user, to.csrf = from.csrf, SecretOf(to, items'),
           NEW path \in Redirects \cup {None}, NEW switch \in {"none", "in", "out"},
           Answer(t, from, to, path, switch, Blank)
    PROVE  Core'
  <1>1. Together(from.csrf, from.user) /\ Bears(to, from.csrf, from.user) /\ Bears(Blank, from.csrf, from.user)
    BY Blanks DEF Together, Bears
  <1>2. SecretOf(Blank, items')
    BY Blanks DEF SecretOf
  <1> QED BY <1>1, <1>2, AnswerKeeps, Blanks

LEMMA RenderKeeps ==
    ASSUME Core, ItemsGrow, NEW t \in Tab, NEW from \in Bearers, NEW to \in Sessions,
           to.user = from.user, to.csrf = from.csrf, SecretOf(to, items'),
           NEW name \in Link, NEW secret \in Item \cup {None},
           SecretOf([to EXCEPT !.secret = secret], items'),
           Render(t, from, to, name, secret)
    PROVE  Core'
  <1>1. PICK c \in CsrfToken(to) :
            Answer(t, from, [to EXCEPT !.csrf = c], None, "none",
                   IF name \in FormPage THEN [name |-> name, user |-> to.user, csrf |-> c, secret |-> secret]
                                        ELSE Blank)
    BY DEF Render
  <1> DEFINE after == [to EXCEPT !.csrf = c]
             display == IF name \in FormPage THEN [name |-> name, user |-> to.user, csrf |-> c, secret |-> secret]
                                             ELSE Blank
  <1>2. c \in Token /\ Together(c, to.user)
    <2>1. CASE to.csrf = None
      BY <2>1 DEF CsrfToken, NewToken, Together
    <2>2. CASE to.csrf # None
      BY <2>2 DEF CsrfToken, Together, Sessions
    <2> QED BY <2>1, <2>2
  <1>3. /\ after \in Sessions /\ after.csrf = c /\ after.user = to.user /\ after.secret = to.secret
    BY <1>2 DEF Sessions
  <1>4. display \in Displays
    BY <1>2, Blanks DEF Displays, Sessions
  <1>5. Bears(after, c, to.user) /\ Bears(display, c, to.user)
    BY <1>3, Blanks DEF Bears
  <1>6. SecretOf(after, items')
    BY <1>3 DEF SecretOf
  <1>7. SecretOf(display, items')
    BY Blanks DEF SecretOf, Sessions
  <1> HIDE DEF after, display
  <1>8. Answer(t, from, after, None, "none", display)
    BY <1>1 DEF after, display
  <1> QED BY <1>2, <1>3, <1>4, <1>5, <1>6, <1>7, <1>8, AnswerKeeps

LEMMA PageKeeps ==
    ASSUME Core, NEW t \in Tab, NEW name \in Link, NEW after \in Sessions,
           after.user = jar.user, after.csrf = jar.csrf, after.secret \in {jar.secret, None},
           NEW secret \in {jar.secret, None}, Page(t, name, after, secret)
    PROVE  Core'
  <1>1. ItemsGrow /\ items' = items
    BY SameItems DEF Page, Visits
  <1>2. jar \in Bearers /\ jar \in Sessions /\ SecretOf(jar, items)
    BY DEF Bearers, Core, CoreType, SecretsPair
  <1>3. CASE jar.user = None
    <2>1. Answer(t, jar, jar, "/", "none", Blank)
      BY <1>3 DEF Page, Redirect
    <2> QED BY <1>1, <1>2, <2>1, RedirectKeeps DEF Redirects, Link
  <1>4. CASE jar.user # None
    <2>1. Render(t, jar, after, name, secret)
      BY <1>4 DEF Page
    <2>2. secret \in Item \cup {None}
      BY <1>2 DEF Sessions
    <2>3. SecretOf(after, items) /\ SecretOf([after EXCEPT !.secret = secret], items)
      BY <1>2 DEF SecretOf, Sessions
    <2> QED BY <1>1, <1>2, <2>1, <2>2, <2>3, RenderKeeps
  <1> QED BY <1>3, <1>4

LEMMA VisitKeeps == ASSUME Core, NEW t \in Tab, Visit(t) PROVE Core'
  <1>1. /\ jar \in Bearers /\ jar \in Sessions /\ SecretOf(jar, items)
        /\ {"/", "/calendar", "/login", "/logout", "/passwords", "/feeds", "/events/new"} = Link
        /\ Link \cup {"provider"} = Redirects
    BY DEF Bearers, Core, CoreType, SecretsPair, Link, FormPage, Redirects
  <1>2. \A t1, path : Visits(t1, path) \/ Returns(t1) => ItemsGrow /\ items' = items
    BY SameItems DEF Visits, Returns
  <1>3. CASE Index(t)
    <2>1. Visits(t, "/")
      BY <1>3 DEF Index
    <2>2. CASE jar.user = None
      <3>1. Render(t, jar, jar, "/", None)
        BY <1>3, <2>2 DEF Index
      <3>2. SecretOf([jar EXCEPT !.secret = None], items)
        BY <1>1 DEF SecretOf, Sessions
      <3> QED BY <1>1, <1>2, <2>1, <3>1, <3>2, RenderKeeps
    <2>3. CASE jar.user # None
      <3>1. Answer(t, jar, jar, "/calendar", "none", Blank)
        BY <1>3, <2>3 DEF Index, Redirect
      <3> QED BY <1>1, <1>2, <2>1, <3>1, RedirectKeeps
    <2> QED BY <2>2, <2>3
  <1>4. CASE CalendarView(t) \/ NewEventForm(t) \/ FeedsPage(t)
    BY <1>1, <1>4, PageKeeps DEF CalendarView, NewEventForm, FeedsPage
  <1>5. CASE PasswordsPage(t)
    <2> DEFINE a == [jar EXCEPT !.secret = None]
    <2>1. a \in Sessions /\ a.user = jar.user /\ a.csrf = jar.csrf /\ a.secret = None
      BY <1>1 DEF Sessions
    <2>2. Page(t, "/passwords", a, jar.secret)
      BY <1>5 DEF PasswordsPage
    <2> QED BY <1>1, <2>1, <2>2, PageKeeps
  <1>6. CASE Login(t)
    <2> DEFINE a == [jar EXCEPT !.pending = @ \cup {t}]
    <2>1. a \in Sessions /\ a.user = jar.user /\ a.csrf = jar.csrf /\ a.secret = jar.secret
      BY <1>1 DEF Sessions
    <2>2. Answer(t, jar, a, "provider", "none", Blank) /\ Visits(t, "/login")
      BY <1>6 DEF Login, Redirect
    <2>3. SecretOf(a, items)
      BY <1>1, <2>1 DEF SecretOf
    <2> QED BY <1>1, <1>2, <2>1, <2>2, <2>3, RedirectKeeps
  <1>7. ASSUME NEW u \in User, Callback(t, u) PROVE Core'
    <2> DEFINE a == [NoSession EXCEPT !.user = u]
    <2>1. a \in Sessions /\ a.csrf = None /\ a.secret = None
      BY Blanks DEF Sessions, NoSession
    <2>2. Answer(t, jar, a, "/calendar", "in", Blank) /\ Returns(t)
      BY <1>7 DEF Callback
    <2>3. Together(jar.csrf, jar.user) /\ Bears(a, jar.csrf, jar.user) /\ Bears(Blank, jar.csrf, jar.user)
      BY <1>1, <2>1, Blanks DEF Together, Bears
    <2>4. SecretOf(a, items) /\ SecretOf(Blank, items)
      BY <2>1, Blanks DEF SecretOf
    <2> HIDE DEF a
    <2> QED BY <1>1, <1>2, <2>1, <2>2, <2>3, <2>4, Blanks, AnswerKeeps
  <1>8. CASE CallbackFails(t)
    <2>1. PICK rest \in {jar.pending, jar.pending \ {t}} : Redirect(t, jar, [jar EXCEPT !.pending = rest], "/")
      BY <1>8 DEF CallbackFails
    <2> DEFINE a == [jar EXCEPT !.pending = rest]
    <2>2. a \in Sessions /\ a.user = jar.user /\ a.csrf = jar.csrf /\ a.secret = jar.secret
      BY <1>1, <2>1 DEF Sessions
    <2>3. Answer(t, jar, a, "/", "none", Blank) /\ Returns(t)
      BY <1>8, <2>1 DEF CallbackFails, Redirect
    <2>4. SecretOf(a, items)
      BY <1>1, <2>2 DEF SecretOf
    <2> QED BY <1>1, <1>2, <2>2, <2>3, <2>4, RedirectKeeps
  <1>9. CASE Logout(t)
    <2>1. Answer(t, jar, NoSession, "/", "out", Blank) /\ Visits(t, "/logout")
      BY <1>9 DEF Logout
    <2>2. Together(jar.csrf, jar.user) /\ Bears(NoSession, jar.csrf, jar.user) /\ Bears(Blank, jar.csrf, jar.user)
      BY <1>1, Blanks DEF Together, Bears
    <2>3. SecretOf(NoSession, items) /\ SecretOf(Blank, items)
      BY Blanks DEF SecretOf
    <2> QED BY <1>1, <1>2, <2>1, <2>2, <2>3, Blanks, AnswerKeeps
  <1> QED BY <1>3, <1>4, <1>5, <1>6, <1>7, <1>8, <1>9 DEF Visit

LEMMA InsertGrows ==
    ASSUME Core, NEW t \in Tab, pc[t] = "posted", Allowed(t), NEW i \in Item, Insert(t, i)
    PROVE  ItemsGrow /\ items' = [items EXCEPT ![i] = [kind |-> form[t].kind, owner |-> sess[t].user,
                                                      reader |-> form[t].user, revoked |-> FALSE]]
                     /\ items'[i] \in Rows
  <1> DEFINE row == [kind |-> form[t].kind, owner |-> sess[t].user, reader |-> form[t].user, revoked |-> FALSE]
  <1>1. form[t] \in Bearers /\ sess[t] \in Bearers
    BY DEF Bearers, Core, CoreType
  <1>2. form[t].user = sess[t].user
    BY <1>1 DEF Allowed, Core, TokensPair
  <1>3. row \in Rows /\ row.reader = row.owner
    BY <1>2 DEF Rows, Core, CoreType, Allowed, Sessions, Forms
  <1>4. items' = [items EXCEPT ![i] = row] /\ items[i] = None
    BY DEF Insert
  <1> HIDE DEF row
  <1>5. items' \in [Item -> Rows \cup {None}]
    BY <1>3, <1>4 DEF Core, CoreType
  <1>6. \A j \in Item : items[j] # None => items'[j] = items[j]
    BY <1>4 DEF Core, CoreType
  <1>7. FormsActForTheirReader'
    BY <1>3, <1>4 DEF FormsActForTheirReader, Core, CoreType
  <1>8. items'[i] = row
    BY <1>4 DEF Core, CoreType
  <1> QED BY <1>3, <1>4, <1>5, <1>6, <1>7, <1>8 DEF ItemsGrow, row

LEMMA PostKeeps == ASSUME Core, NEW t \in Tab, Post(t) PROVE Core'
  <1> USE DEF Core
  <1>1. /\ sess[t] \in Bearers /\ sess[t] \in Sessions /\ SecretOf(sess[t], items)
        /\ \A its : ItemsGrow /\ its = items' => SecretOf(sess[t], its)
    BY DEF Bearers, CoreType, SecretsPair, SecretOf, ItemsGrow, Sessions
  <1>2. /\ {"/", "/calendar", "/login", "/logout", "/passwords", "/feeds", "/events/new"} = Link
        /\ Link \cup {"provider"} = Redirects
        /\ \A k \in Kind : FormOf[k] \in Redirects
    <2>1. FormOf["password"] = "/passwords" /\ FormOf["feed"] = "/feeds" /\ FormOf["event"] = "/events/new"
      BY DEF FormOf
    <2>2. \A k \in Kind : FormOf[k] \in FormPage
      BY <2>1 DEF FormPage
    <2> QED BY <2>2 DEF Link, FormPage, Redirects
  <1>3. form[t] # None /\ pc[t] = "posted" => form[t] \in Forms /\ form[t].kind \in Kind
    BY DEF CoreType, Forms
  <1>4. CASE Refused(t)
    <2>1. Answer(t, sess[t], sess[t], None, "none", Blank) /\ ItemsGrow
      BY <1>4, SameItems DEF Refused
    <2> QED BY <1>1, <2>1, RedirectKeeps
  <1>5. CASE LimitReached(t)
    <2>1. form[t].kind \in Kind
      BY <1>3, <1>5 DEF LimitReached, Creates, Acts, CoreType
    <2>2. Answer(t, sess[t], sess[t], FormOf[form[t].kind], "none", Blank) /\ ItemsGrow
      BY <1>5, SameItems DEF LimitReached, Redirect
    <2> QED BY <1>1, <1>2, <2>1, <2>2, RedirectKeeps
  <1>6. CASE EventFails(t)
    <2>1. Render(t, sess[t], sess[t], "/events/new", None)
      BY <1>6 DEF EventFails
    <2>2. ItemsGrow
      BY <1>6, SameItems, InsertGrows DEF EventFails, Creates, Acts
    <2>3. SecretOf(sess[t], items') /\ SecretOf([sess[t] EXCEPT !.secret = None], items')
      BY <1>1, <2>2 DEF SecretOf, Sessions
    <2> QED BY <1>1, <1>2, <2>1, <2>2, <2>3, RenderKeeps
  <1>7. CASE Revoke(t)
    <2>1. Answer(t, sess[t], sess[t], FormOf[form[t].kind], "none", Blank) /\ form[t].kind \in Kind
      BY <1>3, <1>7 DEF Revoke, Redirect, Acts, CoreType
    <2>2. ItemsGrow
      <3> DEFINE i == form[t].revoke
      <3>1. CASE i \in Active(sess[t].user, form[t].kind)
        <4>1. i \in Item /\ items[i] # None /\ items' = [items EXCEPT ![i].revoked = TRUE]
          BY <1>7, <3>1 DEF Revoke, Active
        <4>2. items[i] \in Rows
          BY <4>1 DEF CoreType
        <4>3. items' = [items EXCEPT ![i] = [items[i] EXCEPT !.revoked = TRUE]]
          BY <4>1
        <4>4. /\ [items[i] EXCEPT !.revoked = TRUE] \in Rows
              /\ [items[i] EXCEPT !.revoked = TRUE].owner = items[i].owner
              /\ [items[i] EXCEPT !.revoked = TRUE].reader = items[i].reader
              /\ [items[i] EXCEPT !.revoked = TRUE].kind = items[i].kind
          BY <4>2 DEF Rows
        <4>5. items' \in [Item -> Rows \cup {None}]
          BY <4>3, <4>4 DEF CoreType
        <4>6. \A j \in Item : items'[j] = items[j] \/ (j = i /\ items'[j] = [items[i] EXCEPT !.revoked = TRUE])
          BY <4>1, <4>3 DEF CoreType
        <4> QED BY <4>1, <4>4, <4>5, <4>6 DEF ItemsGrow, FormsActForTheirReader
      <3>2. CASE i \notin Active(sess[t].user, form[t].kind)
        BY <1>7, <3>2, SameItems DEF Revoke
      <3> QED BY <3>1, <3>2
    <2> QED BY <1>1, <1>2, <2>1, <2>2, RedirectKeeps
  <1>8. ASSUME NEW i \in Item, CreateCredential(t, i) PROVE Core'
    <2> DEFINE a == IF form[t].kind = "password" THEN [sess[t] EXCEPT !.secret = i] ELSE sess[t]
    <2>1. form[t] # None /\ form[t].kind \in Kind /\ Allowed(t) /\ pc[t] = "posted"
      BY <1>3, <1>8 DEF CreateCredential, Creates, Acts, CoreType
    <2>2. /\ ItemsGrow
          /\ items' = [items EXCEPT ![i] = [kind |-> form[t].kind, owner |-> sess[t].user,
                                           reader |-> form[t].user, revoked |-> FALSE]]
          /\ items'[i] \in Rows
      BY <1>8, <2>1, InsertGrows DEF CreateCredential
    <2>3. Answer(t, sess[t], a, FormOf[form[t].kind], "none", Blank)
      BY <1>8 DEF CreateCredential, Redirect
    <2>4. a \in Sessions /\ a.user = sess[t].user /\ a.csrf = sess[t].csrf
      BY <1>1 DEF Sessions
    <2>5. SecretOf(a, items')
      <3>1. CASE form[t].kind = "password"
        <4>1. a.secret = i
          BY <1>1, <3>1 DEF Sessions
        <4>2. items'[i].kind = "password" /\ items'[i].owner = sess[t].user
          BY <2>2, <3>1 DEF CoreType
        <4> QED BY <2>2, <2>4, <4>1, <4>2 DEF SecretOf
      <3>2. CASE form[t].kind # "password"
        BY <1>1, <2>2, <3>2
      <3> QED BY <3>1, <3>2
    <2> HIDE DEF a
    <2> QED BY <1>1, <1>2, <2>1, <2>2, <2>3, <2>4, <2>5, RedirectKeeps
  <1>9. ASSUME NEW i \in Item, CreateEvent(t, i) PROVE Core'
    <2>1. Allowed(t) /\ pc[t] = "posted"
      BY <1>9 DEF CreateEvent, Creates, Acts
    <2>2. Answer(t, sess[t], sess[t], "/calendar", "none", Blank) /\ ItemsGrow
      BY <1>9, <2>1, InsertGrows DEF CreateEvent, Redirect
    <2> QED BY <1>1, <1>2, <2>2, RedirectKeeps
  <1> QED BY <1>4, <1>5, <1>6, <1>7, <1>8, <1>9 DEF Post

\* What a step that takes nothing from an answer adds to the bearers.
LEMMA FewerBearers ==
    ASSUME Core, CoreType', UNCHANGED items, \A b \in Bearers' : b.csrf = None \/ \E d \in Bearers : d.csrf = b.csrf /\ d.user = b.user,
           SecretsPair'
    PROVE  Core'
  <1>1. Together(jar.csrf, jar.user) /\ \A b \in Bearers' : Bears(b, jar.csrf, jar.user)
    BY DEF Together, Bears, Bearers
  <1> QED BY <1>1, TokensStay DEF Core, FormsActForTheirReader

LEMMA SubmitKeeps ==
    ASSUME Core, NEW t \in Tab, NEW kind \in Kind, NEW revoke \in Item \cup {None}, Submit(t, kind, revoke)
    PROVE  Core'
  <1> USE DEF Core, Submit
  <1> DEFINE f == [kind |-> kind, revoke |-> revoke, user |-> page[t].user, csrf |-> page[t].csrf]
  <1>1. f \in Forms /\ f.csrf = page[t].csrf /\ f.user = page[t].user /\ page[t] \in Bearers /\ jar \in Bearers
    BY DEF CoreType, Forms, Displays, Bearers
  <1>2. form' = [form EXCEPT ![t] = f] /\ sess' = [sess EXCEPT ![t] = jar]
    OBVIOUS
  <1>3. f # None
    BY <1>1
  <1> HIDE DEF f
  <1>4. CoreType'
    BY <1>1, <1>2, <1>3 DEF CoreType
  <1>5. \A b \in Bearers' : b = f \/ b \in Bearers
    BY <1>2 DEF Bearers, CoreType
  <1>6. SecretsPair'
    BY <1>2 DEF SecretsPair, SecretOf, CoreType
  <1> QED BY <1>1, <1>4, <1>5, <1>6, FewerBearers

LEMMA ReceiveKeeps == ASSUME Core, NEW t \in Tab, Receive(t) PROVE Core'
  <1> USE DEF Core, Receive
  <1> DEFINE rest == IF answer[t].redirect = None THEN NoAnswer ELSE [NoAnswer EXCEPT !.redirect = answer[t].redirect]
  <1>1. /\ jar' \in {jar, sess[t]}
        /\ page' = [page EXCEPT ![t] = answer[t].page]
        /\ pc' = [pc EXCEPT ![t] = IF answer[t].redirect = None THEN "view" ELSE "redirect"]
        /\ answer' = [answer EXCEPT ![t] = rest]
        /\ sess' = [sess EXCEPT ![t] = NoSession]
        /\ UNCHANGED <<form, items>>
    OBVIOUS
  <1>2. rest \in Answers /\ rest.page = Blank
    BY Blanks DEF Answers, NoAnswer, CoreType
  <1> HIDE DEF rest
  <1>3. answer[t].page \in Displays /\ SecretOf(answer[t].page, items) /\ SecretOf(NoSession, items) /\ SecretOf(Blank, items)
    BY Blanks DEF CoreType, Answers, SecretsPair, SecretOf
  <1>4. CoreType'
    BY <1>1, <1>2, <1>3, Blanks DEF CoreType
  <1>5. \A b \in Bearers' : b = NoSession \/ b = Blank \/ b \in Bearers
    BY <1>1, <1>2 DEF Bearers, CoreType
  <1>6. SecretsPair'
    BY <1>1, <1>2, <1>3 DEF SecretsPair, CoreType
  <1> QED BY <1>1, <1>4, <1>5, <1>6, Blanks, FewerBearers

LEMMA LoseKeeps == ASSUME Core, NEW t \in Tab, Lose(t) PROVE Core'
  <1> USE DEF Core, Lose
  <1>1. CoreType'
    BY Blanks DEF CoreType
  <1>2. \A b \in Bearers' : b = NoSession \/ b = Blank \/ b \in Bearers
    BY Blanks DEF Bearers, CoreType
  <1>3. SecretOf(NoSession, items) /\ SecretOf(Blank, items)
    BY Blanks DEF SecretOf
  <1>4. SecretsPair'
    BY <1>3, Blanks DEF SecretsPair, CoreType
  <1> QED BY <1>1, <1>2, <1>4, Blanks, FewerBearers

LEMMA CoreInductive == Core /\ [Next]_vars => Core'
  <1> SUFFICES ASSUME Core, [Next]_vars PROVE Core'
    OBVIOUS
  <1>1. ASSUME NEW t \in Tab, NEW kind \in Kind, SubmitCreate(t, kind) PROVE Core'
    BY <1>1, SubmitKeeps DEF SubmitCreate
  <1>2. ASSUME NEW t \in Tab, NEW i \in Item, SubmitRevoke(t, i) PROVE Core'
    <2>1. items[i].kind \in Kind
      BY <1>2 DEF SubmitRevoke, Core, CoreType, Rows
    <2> QED BY <1>2, <2>1, SubmitKeeps DEF SubmitRevoke
  <1>3. CASE UNCHANGED vars
    BY <1>3 DEF vars, netVars, serialVars, Core, CoreType, TokensPair, Bearers, SecretsPair, FormsActForTheirReader
  <1> QED BY <1>1, <1>2, <1>3, VisitKeeps, PostKeeps, ReceiveKeeps, LoseKeeps DEF Next

-----------------------------------------------------------------------------
LEMMA LeavesGhosts ==
    ASSUME GhostType, NEW t \in Tab, NEW logout \in BOOLEAN, Leaves(t, logout), UNCHANGED out
    PROVE  GhostType'
  <1> USE DEF GhostType, Leaves, serialVars
  <1>1. shown' \in [Item -> 0..2] /\ current' \in SUBSET Tab /\ quiet' \in SUBSET Tab
    OBVIOUS
  <1>2. lost' \in BOOLEAN /\ overlapped' \in BOOLEAN
    <2>1. CASE Others(t) = {}
      BY <2>1
    <2>2. CASE Others(t) # {}
      <3>1. lost' = FALSE /\ overlapped' = TRUE
        BY <2>2
      <3> QED BY <3>1, Zenon
    <2> QED BY <2>1, <2>2
  <1>3. out' \in BOOLEAN
    OBVIOUS
  <1> QED BY <1>1, <1>2, <1>3

\* A GET takes the jar's session along; only a login answers with another account.
Answered(t, logout) ==
    /\ Leaves(t, logout)
    /\ UNCHANGED <<jar, out>>
    /\ pc' = [pc EXCEPT ![t] = "answered"]
    /\ \E to, a : /\ sess' = [sess EXCEPT ![t] = to]
                  /\ answer' = [answer EXCEPT ![t] = a]
                  /\ SignedOut(jar) => a.switch = "in" \/ SignedOut(to)

LEMMA AnswerIsAnswered ==
    ASSUME NEW t, NEW to, NEW redirect, NEW switch, NEW display, NEW logout, Leaves(t, logout),
           Answer(t, jar, to, redirect, switch, display),
           SignedOut(jar) => switch = "in" \/ SignedOut(to)
    PROVE  Answered(t, logout)
  <1> DEFINE a == [cookie |-> jar # NoSession \/ to # NoSession, switch |-> switch, redirect |-> redirect, page |-> display]
  <1>1. answer' = [answer EXCEPT ![t] = a] /\ a.switch = switch
    BY DEF Answer
  <1> HIDE DEF a
  <1> QED BY <1>1 DEF Answered, Answer

LEMMA RenderIsAnswered ==
    ASSUME Core, NEW t, NEW to \in Sessions, NEW name, NEW secret, NEW logout, Leaves(t, logout),
           Render(t, jar, to, name, secret),
           SignedOut(jar) => SignedOut(to)
    PROVE  Answered(t, logout)
  <1>1. PICK c \in CsrfToken(to) :
            Answer(t, jar, [to EXCEPT !.csrf = c], None, "none",
                   IF name \in FormPage THEN [name |-> name, user |-> to.user, csrf |-> c, secret |-> secret]
                                        ELSE Blank)
    BY DEF Render
  <1>2. SignedOut(to) => SignedOut([to EXCEPT !.csrf = c])
    BY DEF SignedOut, Sessions
  <1> QED BY <1>1, <1>2, AnswerIsAnswered

LEMMA VisitIsAnswered ==
    ASSUME Core, NEW t \in Tab, Visit(t)
    PROVE  Answered(t, FALSE) \/ Logout(t)
  <1>1. jar \in Sessions
    BY DEF Core, CoreType
  <1>2. \A path \in Link \ {"/logout"} : Visits(t, path) => Leaves(t, FALSE)
    <2>1. ASSUME NEW path \in Link \ {"/logout"}, Visits(t, path) PROVE Leaves(t, FALSE)
      <3>1. (path = "/logout") = FALSE
        OBVIOUS
      <3> QED BY <2>1, <3>1 DEF Visits
    <2> QED BY <2>1
  <1>3. {"/", "/calendar", "/login", "/passwords", "/feeds", "/events/new"} = Link \ {"/logout"}
    BY DEF Link, FormPage
  <1>4. CASE Index(t)
    BY <1>1, <1>2, <1>3, <1>4, RenderIsAnswered, AnswerIsAnswered DEF Index, Redirect
  <1>5. ASSUME NEW name \in Link \ {"/logout"}, NEW after \in Sessions, NEW secret, Page(t, name, after, secret)
        PROVE  Answered(t, FALSE)
    <2>1. Leaves(t, FALSE)
      BY <1>2, <1>5 DEF Page
    <2>2. CASE jar.user = None
      BY <1>5, <2>1, <2>2, AnswerIsAnswered DEF Page, Redirect
    <2>3. CASE jar.user # None
      BY <1>5, <2>1, <2>3, RenderIsAnswered DEF Page, SignedOut
    <2> QED BY <2>2, <2>3
  <1>6. CASE CalendarView(t) \/ NewEventForm(t) \/ FeedsPage(t)
    BY <1>1, <1>3, <1>5, <1>6 DEF CalendarView, NewEventForm, FeedsPage
  <1>7. CASE PasswordsPage(t)
    <2>1. [jar EXCEPT !.secret = None] \in Sessions
      BY <1>1 DEF Sessions
    <2> QED BY <1>3, <1>5, <1>7, <2>1 DEF PasswordsPage
  <1>8. CASE Login(t)
    <2>1. SignedOut(jar) => SignedOut([jar EXCEPT !.pending = @ \cup {t}])
      BY <1>1 DEF Sessions, SignedOut
    <2>2. Leaves(t, FALSE)
      BY <1>2, <1>3, <1>8 DEF Login
    <2> QED BY <1>8, <2>1, <2>2, AnswerIsAnswered DEF Login, Redirect
  <1>9. ASSUME NEW u \in User, Callback(t, u) PROVE Answered(t, FALSE)
    BY <1>9, AnswerIsAnswered DEF Callback, Returns
  <1>10. CASE CallbackFails(t)
    <2>1. PICK rest \in {jar.pending, jar.pending \ {t}} : Redirect(t, jar, [jar EXCEPT !.pending = rest], "/")
      BY <1>10 DEF CallbackFails
    <2>2. SignedOut(jar) => SignedOut([jar EXCEPT !.pending = rest])
      BY <1>1 DEF Sessions, SignedOut
    <2>3. Leaves(t, FALSE)
      BY <1>10 DEF CallbackFails, Returns
    <2> QED BY <2>1, <2>2, <2>3, AnswerIsAnswered DEF Redirect
  <1> QED BY <1>4, <1>6, <1>7, <1>8, <1>9, <1>10 DEF Visit

LEMMA PostAnswers ==
    ASSUME NEW t \in Tab, Post(t)
    PROVE  /\ pc[t] = "posted" /\ pc' = [pc EXCEPT ![t] = "answered"]
           /\ UNCHANGED <<jar, out, serialVars, quiet>>
           /\ \E to, a : sess' = [sess EXCEPT ![t] = to] /\ answer' = [answer EXCEPT ![t] = a]
           /\ Refused(t) \/ Allowed(t)
  BY DEF Post, Refused, LimitReached, EventFails, Revoke, CreateCredential, CreateEvent, Creates, Acts, Render, Redirect, Answer

LEMMA SubmitLeaves ==
    ASSUME NEW t \in Tab, (\E kind \in Kind : SubmitCreate(t, kind)) \/ (\E i \in Item : SubmitRevoke(t, i))
    PROVE  /\ pc' = [pc EXCEPT ![t] = "posted"] /\ sess' = [sess EXCEPT ![t] = jar]
           /\ UNCHANGED <<jar, out, answer>> /\ Leaves(t, FALSE)
  BY DEF SubmitCreate, SubmitRevoke, Submit

LEMMA GhostsInductive == Core /\ GhostType /\ [Next]_vars => GhostType'
  <1> SUFFICES ASSUME Core, GhostType, [Next]_vars PROVE GhostType'
    OBVIOUS
  <1>1. ASSUME NEW t \in Tab, Visit(t) PROVE GhostType'
    <2>1. CASE Answered(t, FALSE)
      BY <2>1, LeavesGhosts DEF Answered
    <2>2. CASE Logout(t)
      <3>1. Leaves(t, TRUE) /\ UNCHANGED out
        <4>1. ("/logout" = "/logout") = TRUE
          OBVIOUS
        <4> QED BY <2>2, <4>1 DEF Logout, Visits, Answer
      <3> QED BY <3>1, LeavesGhosts
    <2> QED BY <1>1, <2>1, <2>2, VisitIsAnswered
  <1>2. ASSUME NEW t \in Tab, Post(t) PROVE GhostType'
    BY <1>2, PostAnswers DEF GhostType, serialVars
  <1>3. ASSUME NEW t \in Tab, (\E kind \in Kind : SubmitCreate(t, kind)) \/ (\E i \in Item : SubmitRevoke(t, i)) PROVE GhostType'
    BY <1>3, SubmitLeaves, LeavesGhosts
  <1>4. ASSUME NEW t \in Tab, Receive(t) PROVE GhostType'
    <2>1. shown' \in [Item -> 0..2] /\ current' \in SUBSET Tab /\ quiet' \in SUBSET Tab
      BY <1>4 DEF Receive, GhostType
    <2>2. lost' \in BOOLEAN /\ overlapped' \in BOOLEAN
      BY <1>4 DEF Receive, GhostType
    <2>3. out' \in BOOLEAN
      <3>1. CASE answer[t].switch = "out"
        BY <1>4, <3>1 DEF Receive
      <3>2. CASE answer[t].switch = "in"
        BY <1>4, <3>2 DEF Receive
      <3>3. CASE answer[t].switch \notin {"out", "in"}
        BY <1>4, <3>3 DEF Receive, GhostType
      <3> QED BY <3>1, <3>2, <3>3
    <2> QED BY <2>1, <2>2, <2>3 DEF GhostType
  <1>5. ASSUME NEW t \in Tab, Lose(t) PROVE GhostType'
    <2>1. shown' \in [Item -> 0..2] /\ current' \in SUBSET Tab /\ quiet' \in SUBSET Tab
      BY <1>5 DEF Lose, GhostType
    <2>2. overlapped' \in BOOLEAN /\ out' \in BOOLEAN
      BY <1>5 DEF Lose, GhostType
    <2>3. lost' \in BOOLEAN
      BY <1>5 DEF Lose
    <2> QED BY <2>1, <2>2, <2>3 DEF GhostType
  <1>6. CASE UNCHANGED vars
    BY <1>6 DEF vars, serialVars, GhostType
  <1> QED BY <1>1, <1>2, <1>3, <1>4, <1>5, <1>6 DEF Next

LEMMA QuietInductive == IInv /\ [Next]_vars => QuietInv'
  <1> SUFFICES ASSUME IInv, [Next]_vars PROVE QuietInv'
    OBVIOUS
  <1>0. /\ jar \in Sessions /\ sess \in [Tab -> Sessions] /\ pc \in [Tab -> {"view", "posted", "answered", "redirect"}]
        /\ answer \in [Tab -> Answers] /\ quiet \in SUBSET Tab /\ SignedOut(NoSession)
    BY Blanks DEF IInv, Core, CoreType, GhostType, SignedOut
  <1>1. ASSUME NEW t \in Tab, Leaves(t, FALSE) PROVE quiet' = {}
    BY <1>1 DEF Leaves
  <1>2. ASSUME NEW t \in Tab, Answered(t, FALSE) PROVE QuietInv'
    <2>1. PICK to, a : /\ sess' = [sess EXCEPT ![t] = to]
                       /\ answer' = [answer EXCEPT ![t] = a]
                       /\ SignedOut(jar) => a.switch = "in" \/ SignedOut(to)
      BY <1>2 DEF Answered
    <2>2. quiet' = {} /\ pc' = [pc EXCEPT ![t] = "answered"] /\ UNCHANGED <<jar, out>>
      BY <1>1, <1>2 DEF Answered
    <2> QED BY <1>0, <2>1, <2>2 DEF QuietInv, QuietWaits, OutHolds, IInv
  <1>3. ASSUME NEW t \in Tab, Logout(t) PROVE QuietInv'
    <2> DEFINE a == [cookie |-> jar # NoSession \/ NoSession # NoSession, switch |-> "out", redirect |-> "/", page |-> Blank]
    <2>1. /\ pc' = [pc EXCEPT ![t] = "answered"] /\ sess' = [sess EXCEPT ![t] = NoSession]
          /\ answer' = [answer EXCEPT ![t] = a] /\ UNCHANGED <<jar, out>>
          /\ \A u \in quiet' : u = t /\ Others(t) = {}
      BY <1>3 DEF Logout, Answer, Visits, Leaves
    <2>2. a.switch = "out" /\ (~a.cookie => SignedOut(jar))
      BY <1>0
    <2> HIDE DEF a
    <2>3. \A u \in quiet' : \A v \in Tab \ {u} : pc[v] = "view"
      BY <2>1 DEF Others
    <2>4. QuietWaits'
      BY <1>0, <2>1, <2>2, <2>3 DEF QuietWaits
    <2>5. OutHolds'
      BY <1>0, <2>1 DEF OutHolds, IInv, QuietInv
    <2> QED BY <2>4, <2>5 DEF QuietInv
  <1>4. ASSUME NEW t \in Tab, Post(t) PROVE QuietInv'
    <2>1. quiet = {}
      BY <1>0, <1>4, PostAnswers DEF IInv, QuietInv, QuietWaits, OutHolds
    <2>2. CASE out
      <3>1. SignedOut(sess[t])
        BY <1>4, <2>2, PostAnswers DEF IInv, QuietInv, QuietWaits, OutHolds
      <3>2. Refused(t)
        BY <1>4, <3>1, PostAnswers DEF Allowed, SignedOut
      <3>3. sess' = [sess EXCEPT ![t] = sess[t]]
        BY <3>2 DEF Refused, Answer
      <3> QED BY <1>0, <1>4, <2>1, <2>2, <3>1, <3>3, PostAnswers DEF IInv, QuietInv, QuietWaits, OutHolds
    <2>3. CASE ~out
      BY <1>4, <2>1, <2>3, PostAnswers DEF QuietInv, QuietWaits, OutHolds
    <2> QED BY <2>2, <2>3
  <1>5. ASSUME NEW t \in Tab, (\E kind \in Kind : SubmitCreate(t, kind)) \/ (\E i \in Item : SubmitRevoke(t, i))
        PROVE  QuietInv'
    BY <1>0, <1>1, <1>5, SubmitLeaves DEF IInv, QuietInv, QuietWaits, OutHolds
  <1>6. ASSUME NEW t \in Tab, Receive(t) PROVE QuietInv'
    <2>1. pc[t] = "answered" /\ \A u \in quiet : u = t
      BY <1>6 DEF Receive, IInv, QuietInv, QuietWaits, OutHolds
    <2>2. /\ quiet' = {}
          /\ jar' = IF answer[t].cookie THEN sess[t] ELSE jar
          /\ sess' = [sess EXCEPT ![t] = NoSession]
          /\ pc' \in {[pc EXCEPT ![t] = "view"], [pc EXCEPT ![t] = "redirect"]}
          /\ \A u \in Tab \ {t} : answer'[u] = answer[u]
      BY <1>0, <1>6, <2>1 DEF Receive
    <2>3. CASE answer[t].switch = "out"
      <3>1. out' = (t \in quiet)
        BY <1>6, <2>3 DEF Receive
      <3>2. t \in quiet => SignedOut(jar') /\ \A u \in Tab \ {t} : pc'[u] = "view"
        BY <1>0, <2>2 DEF IInv, QuietInv, QuietWaits, OutHolds
      <3> QED BY <1>0, <2>2, <3>1, <3>2 DEF QuietInv, QuietWaits, OutHolds
    <2>4. CASE answer[t].switch = "in"
      <3>1. out' = FALSE
        BY <1>6, <2>4 DEF Receive
      <3> QED BY <2>2, <3>1 DEF QuietInv, QuietWaits, OutHolds
    <2>5. CASE answer[t].switch \notin {"out", "in"}
      <3>1. out' = out
        BY <1>6, <2>5 DEF Receive
      <3>2. out => SignedOut(sess[t]) /\ SignedOut(jar)
        BY <2>1, <2>5 DEF IInv, QuietInv, QuietWaits, OutHolds
      <3> QED BY <1>0, <2>2, <3>1, <3>2 DEF IInv, QuietInv, QuietWaits, OutHolds
    <2> QED BY <2>3, <2>4, <2>5
  <1>7. ASSUME NEW t \in Tab, Lose(t) PROVE QuietInv'
    <2>1. /\ pc' = [pc EXCEPT ![t] = "view"] /\ sess' = [sess EXCEPT ![t] = NoSession]
          /\ answer' = [answer EXCEPT ![t] = NoAnswer] /\ quiet' = quiet \ {t} /\ UNCHANGED <<jar, out>>
      BY <1>7 DEF Lose
    <2> QED BY <1>0, <2>1 DEF IInv, QuietInv, QuietWaits, OutHolds
  <1>8. CASE UNCHANGED vars
    BY <1>8 DEF vars, netVars, IInv, QuietInv, QuietWaits, OutHolds, SignedOut
  <1> QED BY <1>2, <1>3, <1>4, <1>5, <1>6, <1>7, <1>8, VisitIsAnswered DEF Next, IInv

-----------------------------------------------------------------------------
LEMMA Invariant == Spec => []IInv
  <1>1. IInv /\ [Next]_vars => IInv'
    BY CoreInductive, GhostsInductive, QuietInductive DEF IInv
  <1> QED BY InitIInv, <1>1, PTL DEF Spec

-----------------------------------------------------------------------------
(* Requests one at a time.                                                 *)

\* An answer keeps the account and the token of the session it was given, or
\* shows no form.
Serves(from, to, a) ==
    /\ ~a.cookie => to = from
    /\ \/ a.switch # "none" /\ a.page = Blank
       \/ /\ to.user = from.user
          /\ from.csrf # None => to.csrf = from.csrf
          /\ a.page.csrf # None => a.page.csrf = to.csrf /\ a.page.user = to.user

Serial ==
    ~overlapped =>
        /\ \A t, u \in Tab : t # u => pc[t] = "view" \/ pc[u] = "view"
        /\ \A t \in Tab : pc[t] = "posted" => sess[t] = jar
        /\ \A t \in Tab : pc[t] = "answered" => Serves(jar, sess[t], answer[t])
        /\ \A t \in current : page[t].csrf # None => page[t].csrf = jar.csrf /\ page[t].user = jar.user

ServedFrom(t, from) ==
    /\ pc' = [pc EXCEPT ![t] = "answered"]
    /\ UNCHANGED <<jar, page>>
    /\ \E to, a : /\ sess' = [sess EXCEPT ![t] = to] /\ answer' = [answer EXCEPT ![t] = a]
                  /\ Serves(from, to, a)

LEMMA RedirectServes ==
    ASSUME NEW t \in Tab, NEW from, NEW to, NEW path, Redirect(t, from, to, path), to.user = from.user, to.csrf = from.csrf
    PROVE  ServedFrom(t, from)
  <1> DEFINE a == [cookie |-> from # NoSession \/ to # NoSession, switch |-> "none", redirect |-> path, page |-> Blank]
  <1>1. answer' = [answer EXCEPT ![t] = a] /\ sess' = [sess EXCEPT ![t] = to]
    BY DEF Redirect, Answer
  <1>2. Serves(from, to, a)
    BY Blanks DEF Serves
  <1> HIDE DEF a
  <1> QED BY <1>1, <1>2 DEF ServedFrom, Redirect, Answer

LEMMA SwitchServes ==
    ASSUME NEW t \in Tab, NEW from, NEW to, NEW path, NEW switch, Answer(t, from, to, path, switch, Blank), switch # "none"
    PROVE  ServedFrom(t, from)
  <1> DEFINE a == [cookie |-> from # NoSession \/ to # NoSession, switch |-> switch, redirect |-> path, page |-> Blank]
  <1>1. answer' = [answer EXCEPT ![t] = a] /\ sess' = [sess EXCEPT ![t] = to]
    BY DEF Answer
  <1>2. Serves(from, to, a)
    BY DEF Serves
  <1> HIDE DEF a
  <1> QED BY <1>1, <1>2 DEF ServedFrom, Answer

LEMMA RenderServes ==
    ASSUME NEW t \in Tab, NEW from \in Sessions, NEW to \in Sessions, NEW name, NEW secret,
           Render(t, from, to, name, secret), to.user = from.user, to.csrf = from.csrf
    PROVE  ServedFrom(t, from)
  <1> DEFINE display(c) == IF name \in FormPage THEN [name |-> name, user |-> to.user, csrf |-> c, secret |-> secret]
                                               ELSE Blank
  <1>1. PICK c \in CsrfToken(to) : Answer(t, from, [to EXCEPT !.csrf = c], None, "none", display(c))
    BY DEF Render
  <1> DEFINE s == [to EXCEPT !.csrf = c]
             a == [cookie |-> from # NoSession \/ s # NoSession, switch |-> "none", redirect |-> None, page |-> display(c)]
  <1>2. s.user = from.user /\ s.csrf = c /\ (from.csrf # None => c = from.csrf)
    BY <1>1 DEF Sessions, CsrfToken
  <1>3. display(c).csrf # None => display(c).csrf = c /\ display(c).user = to.user
    BY Blanks
  <1>4. answer' = [answer EXCEPT ![t] = a] /\ sess' = [sess EXCEPT ![t] = s]
        /\ pc' = [pc EXCEPT ![t] = "answered"] /\ UNCHANGED <<jar, page>>
    BY <1>1 DEF Answer
  <1> HIDE DEF s, display
  <1>5. Serves(from, s, a)
    BY <1>2, <1>3 DEF Serves
  <1> HIDE DEF a
  <1> QED BY <1>4, <1>5 DEF ServedFrom

LEMMA VisitServes ==
    ASSUME Core, NEW t \in Tab, Visit(t)
    PROVE  ServedFrom(t, jar) /\ \E logout \in BOOLEAN : Leaves(t, logout)
  <1>1. jar \in Sessions
    BY DEF Core, CoreType
  <1>2. ASSUME NEW path, Visits(t, path) PROVE \E logout \in BOOLEAN : Leaves(t, logout)
    BY <1>2 DEF Visits
  <1>3. ASSUME NEW name, NEW after \in Sessions, NEW secret, Page(t, name, after, secret),
               after.user = jar.user, after.csrf = jar.csrf
        PROVE  ServedFrom(t, jar) /\ \E logout \in BOOLEAN : Leaves(t, logout)
    BY <1>1, <1>2, <1>3, RedirectServes, RenderServes DEF Page
  <1>4. CASE Index(t)
    BY <1>1, <1>2, <1>4, RedirectServes, RenderServes DEF Index
  <1>5. CASE CalendarView(t) \/ NewEventForm(t) \/ FeedsPage(t)
    BY <1>1, <1>3, <1>5 DEF CalendarView, NewEventForm, FeedsPage
  <1>6. CASE PasswordsPage(t)
    <2> DEFINE after == [jar EXCEPT !.secret = None]
    <2>1. after \in Sessions /\ after.user = jar.user /\ after.csrf = jar.csrf
      BY <1>1 DEF Sessions
    <2>2. Page(t, "/passwords", after, jar.secret)
      BY <1>6 DEF PasswordsPage
    <2> HIDE DEF after
    <2> QED BY <1>3, <2>1, <2>2
  <1>7. CASE Login(t)
    <2> DEFINE after == [jar EXCEPT !.pending = @ \cup {t}]
    <2>1. after.user = jar.user /\ after.csrf = jar.csrf
      BY <1>1 DEF Sessions
    <2>2. Visits(t, "/login") /\ Redirect(t, jar, after, "provider")
      BY <1>7 DEF Login
    <2> HIDE DEF after
    <2> QED BY <1>2, <2>1, <2>2, RedirectServes
  <1>8. ASSUME NEW u \in User, Callback(t, u)
        PROVE  ServedFrom(t, jar) /\ \E logout \in BOOLEAN : Leaves(t, logout)
    BY <1>8, SwitchServes DEF Callback, Returns
  <1>9. CASE CallbackFails(t)
    <2>1. PICK rest \in {jar.pending, jar.pending \ {t}} : Redirect(t, jar, [jar EXCEPT !.pending = rest], "/")
      BY <1>9 DEF CallbackFails
    <2> DEFINE after == [jar EXCEPT !.pending = rest]
    <2>2. after.user = jar.user /\ after.csrf = jar.csrf
      BY <1>1 DEF Sessions
    <2>3. Redirect(t, jar, after, "/")
      BY <2>1
    <2> HIDE DEF after
    <2> QED BY <1>9, <2>2, <2>3, RedirectServes DEF CallbackFails, Returns
  <1>10. CASE Logout(t)
    BY <1>2, <1>10, SwitchServes DEF Logout
  <1> QED BY <1>4, <1>5, <1>6, <1>7, <1>8, <1>9, <1>10 DEF Visit

LEMMA PostServes ==
    ASSUME Core, NEW t \in Tab, Post(t)
    PROVE  ServedFrom(t, sess[t])
  <1>1. sess[t] \in Sessions
    BY DEF Core, CoreType
  <1>2. CASE Refused(t)
    <2> DEFINE a == [cookie |-> sess[t] # NoSession \/ sess[t] # NoSession, switch |-> "none", redirect |-> None, page |-> Blank]
    <2>1. /\ answer' = [answer EXCEPT ![t] = a] /\ sess' = [sess EXCEPT ![t] = sess[t]]
          /\ pc' = [pc EXCEPT ![t] = "answered"] /\ UNCHANGED <<jar, page>>
      BY <1>2 DEF Refused, Answer
    <2>2. Serves(sess[t], sess[t], a)
      BY Blanks DEF Serves
    <2> HIDE DEF a
    <2> QED BY <2>1, <2>2 DEF ServedFrom
  <1>3. CASE LimitReached(t)
    BY <1>3, RedirectServes DEF LimitReached
  <1>4. CASE EventFails(t)
    BY <1>1, <1>4, RenderServes DEF EventFails
  <1>5. CASE Revoke(t)
    BY <1>5, RedirectServes DEF Revoke
  <1>6. ASSUME NEW i \in Item, CreateCredential(t, i) PROVE ServedFrom(t, sess[t])
    <2> DEFINE after == IF form[t].kind = "password" THEN [sess[t] EXCEPT !.secret = i] ELSE sess[t]
    <2>1. after.user = sess[t].user /\ after.csrf = sess[t].csrf
      BY <1>1 DEF Sessions
    <2>2. Redirect(t, sess[t], after, FormOf[form[t].kind])
      BY <1>6 DEF CreateCredential
    <2> HIDE DEF after
    <2> QED BY <2>1, <2>2, RedirectServes
  <1>7. ASSUME NEW i \in Item, CreateEvent(t, i) PROVE ServedFrom(t, sess[t])
    BY <1>7, RedirectServes DEF CreateEvent
  <1> QED BY <1>2, <1>3, <1>4, <1>5, <1>6, <1>7 DEF Post

LEMMA SerialInit == Init => Serial
  BY DEF Init, Serial

LEMMA SerialInductive == Core /\ GhostType /\ Serial /\ [Next]_vars => Serial'
  <1> SUFFICES ASSUME Core, GhostType, Serial, [Next]_vars PROVE Serial'
    OBVIOUS
  <1>1. /\ pc \in [Tab -> {"view", "posted", "answered", "redirect"}] /\ sess \in [Tab -> Sessions]
        /\ answer \in [Tab -> Answers] /\ page \in [Tab -> Displays] /\ current \in SUBSET Tab
    BY DEF Core, CoreType, GhostType
  <1>2. ASSUME NEW t \in Tab, NEW logout \in BOOLEAN, Leaves(t, logout), ~overlapped'
        PROVE  ~overlapped /\ UNCHANGED <<current, overlapped>> /\ \A u \in Tab \ {t} : pc[u] = "view"
    BY <1>2 DEF Leaves, Others, serialVars
  <1>3. ASSUME NEW t \in Tab, Visit(t) PROVE Serial'
    <2> SUFFICES ASSUME ~overlapped' PROVE Serial'
      BY DEF Serial
    <2>1. ~overlapped /\ current' = current /\ \A u \in Tab \ {t} : pc[u] = "view"
      BY <1>2, <1>3, VisitServes
    <2>2. ServedFrom(t, jar)
      BY <1>3, VisitServes
    <2>3. PICK to, a : /\ sess' = [sess EXCEPT ![t] = to] /\ answer' = [answer EXCEPT ![t] = a] /\ Serves(jar, to, a)
      BY <2>2 DEF ServedFrom
    <2>4. pc' = [pc EXCEPT ![t] = "answered"] /\ jar' = jar /\ page' = page
      BY <2>2 DEF ServedFrom
    <2> QED BY <1>1, <2>1, <2>3, <2>4 DEF Serial
  <1>4. ASSUME NEW t \in Tab, Post(t) PROVE Serial'
    <2> SUFFICES ASSUME ~overlapped' PROVE Serial'
      BY DEF Serial
    <2>1. ~overlapped /\ current' = current /\ pc[t] = "posted"
      BY <1>4, PostAnswers DEF serialVars
    <2>2. sess[t] = jar /\ \A u \in Tab \ {t} : pc[u] = "view"
      BY <2>1 DEF Serial
    <2>3. ServedFrom(t, jar)
      BY <1>4, <2>2, PostServes
    <2>4. PICK to, a : /\ sess' = [sess EXCEPT ![t] = to] /\ answer' = [answer EXCEPT ![t] = a] /\ Serves(jar, to, a)
      BY <2>3 DEF ServedFrom
    <2>5. pc' = [pc EXCEPT ![t] = "answered"] /\ jar' = jar /\ page' = page
      BY <2>3 DEF ServedFrom
    <2> QED BY <1>1, <2>1, <2>2, <2>4, <2>5 DEF Serial
  <1>5. ASSUME NEW t \in Tab, (\E kind \in Kind : SubmitCreate(t, kind)) \/ (\E i \in Item : SubmitRevoke(t, i)) PROVE Serial'
    <2> SUFFICES ASSUME ~overlapped' PROVE Serial'
      BY DEF Serial
    <2>1. /\ pc' = [pc EXCEPT ![t] = "posted"] /\ sess' = [sess EXCEPT ![t] = jar]
          /\ jar' = jar /\ page' = page /\ answer' = answer
      BY <1>5 DEF SubmitCreate, SubmitRevoke, Submit
    <2>2. ~overlapped /\ current' = current /\ \A u \in Tab \ {t} : pc[u] = "view"
      BY <1>2, <1>5, SubmitLeaves
    <2> QED BY <1>1, <2>1, <2>2 DEF Serial
  <1>6. ASSUME NEW t \in Tab, Receive(t) PROVE Serial'
    <2> SUFFICES ASSUME ~overlapped' PROVE Serial'
      BY DEF Serial
    <2>1. /\ ~overlapped /\ pc[t] = "answered"
          /\ pc' \in {[pc EXCEPT ![t] = "view"], [pc EXCEPT ![t] = "redirect"]}
          /\ jar' = IF answer[t].cookie THEN sess[t] ELSE jar
          /\ page' = [page EXCEPT ![t] = answer[t].page]
          /\ current' = (IF answer[t].switch = "none" THEN current ELSE {}) \cup {t}
      BY <1>6 DEF Receive
    <2>2. Serves(jar, sess[t], answer[t]) /\ \A u \in Tab \ {t} : pc[u] = "view"
      BY <2>1 DEF Serial
    <2>3. jar' = sess[t]
      BY <2>1, <2>2 DEF Serves
    <2>4. \A u \in current' : page'[u].csrf # None => page'[u].csrf = jar'.csrf /\ page'[u].user = jar'.user
      <3> SUFFICES ASSUME NEW u \in current', page'[u].csrf # None
                   PROVE  page'[u].csrf = jar'.csrf /\ page'[u].user = jar'.user
        OBVIOUS
      <3>1. CASE u = t
        BY <1>1, <2>1, <2>2, <2>3, <3>1, Blanks DEF Serves
      <3>2. CASE u # t
        <4>1. u \in current /\ answer[t].switch = "none" /\ page'[u] = page[u]
          BY <1>1, <2>1, <3>2
        <4>2. page[u].csrf = jar.csrf /\ page[u].user = jar.user
          BY <2>1, <4>1 DEF Serial
        <4> QED BY <2>2, <2>3, <4>1, <4>2 DEF Serves
      <3> QED BY <3>1, <3>2
    <2>5. \A u \in Tab : pc'[u] \notin {"posted", "answered"}
      BY <1>1, <2>1, <2>2
    <2>6. \A u, v \in Tab : u # v => pc'[u] = "view" \/ pc'[v] = "view"
      BY <1>1, <2>1, <2>2
    <2> QED BY <2>4, <2>5, <2>6 DEF Serial
  <1>7. ASSUME NEW t \in Tab, Lose(t) PROVE Serial'
    <2>1. /\ pc' = [pc EXCEPT ![t] = "view"] /\ sess' = [sess EXCEPT ![t] = NoSession]
          /\ page' = [page EXCEPT ![t] = Blank] /\ answer' = [answer EXCEPT ![t] = NoAnswer]
          /\ UNCHANGED <<jar, current, overlapped>>
      BY <1>7 DEF Lose
    <2> QED BY <1>1, <2>1, Blanks DEF Serial
  <1>8. CASE UNCHANGED vars
    BY <1>8 DEF vars, netVars, serialVars, Serial, Serves
  <1> QED BY <1>3, <1>4, <1>5, <1>6, <1>7, <1>8 DEF Next

-----------------------------------------------------------------------------
(* New secrets, while requests come one at a time.                         *)

Passwords == {i \in Item : items[i] # None /\ items[i].kind = "password"}

\* A display is of the jar's secret, which the session behind it has given up.
ShownOnce ==
    ~overlapped =>
        /\ \A t \in Tab : pc[t] \in {"view", "redirect"} => sess[t].secret = None
        /\ \A t \in Tab : pc[t] # "answered" => answer[t].page.secret = None
        /\ \A t \in Tab : pc[t] = "answered" /\ answer[t].page.secret # None
                            => answer[t].page.secret = jar.secret /\ sess[t].secret = None
        /\ \A i \in Item : shown[i] <= 1 /\ (shown[i] = 1 => i \in Passwords /\ ~Carried(i))

\* t is about to ask for the jar's secret, or to display it.
Fetches(t) ==
    \/ pc[t] = "redirect" /\ answer[t].redirect = "/passwords"
    \/ pc[t] = "answered" /\ answer[t].page.secret = jar.secret

\* Without a lost answer a secret leads to its page at once.
OnItsWay ==
    ~overlapped /\ ~lost =>
        /\ jar.secret # None => \E t \in Tab : Fetches(t)
        /\ \A t \in Tab : pc[t] = "answered" /\ sess[t].secret # None => answer[t].redirect = "/passwords"
        /\ \A i \in Passwords : shown[i] = 0 => Carried(i)

\* What a page does to the secret of the session it came with.
Moves(from, to, a) ==
    /\ a.page.secret \in {None, from.secret}
    /\ to.secret \in {None, from.secret}
    /\ a.page.secret # None => to.secret = None

LEMMA AnswerMoves ==
    ASSUME CoreType, NEW t \in Tab, NEW from, NEW to, NEW redirect, NEW switch, NEW display,
           Answer(t, from, to, redirect, switch, display)
    PROVE  sess'[t] = to /\ answer'[t].page = display /\ answer'[t].redirect = redirect
  BY DEF Answer, CoreType

LEMMA RenderMoves ==
    ASSUME CoreType, NEW t \in Tab, NEW from, NEW to \in Sessions, NEW name, NEW secret,
           Render(t, from, to, name, secret)
    PROVE  sess'[t].secret = to.secret /\ answer'[t].page.secret = IF name \in FormPage THEN secret ELSE None
  <1> DEFINE display(c) == IF name \in FormPage THEN [name |-> name, user |-> to.user, csrf |-> c, secret |-> secret]
                                               ELSE Blank
  <1>1. PICK c \in CsrfToken(to) : Answer(t, from, [to EXCEPT !.csrf = c], None, "none", display(c))
    BY DEF Render
  <1>2. [to EXCEPT !.csrf = c].secret = to.secret
    BY DEF Sessions
  <1>3. display(c).secret = IF name \in FormPage THEN secret ELSE None
    BY Blanks
  <1> HIDE DEF display
  <1> QED BY <1>1, <1>2, <1>3, AnswerMoves

LEMMA VisitMoves ==
    ASSUME Core, NEW t \in Tab, Visit(t)
    PROVE  /\ UNCHANGED items
           /\ Moves(jar, sess'[t], answer'[t])
           /\ pc[t] = "redirect" /\ answer[t].redirect = "/passwords" /\ jar.user # None
                 => answer'[t].page.secret = jar.secret
  <1> DEFINE Asked == pc[t] = "redirect" /\ answer[t].redirect = "/passwords"
  <1>1. jar \in Sessions /\ CoreType
    BY DEF Core, CoreType
  <1>2. ASSUME NEW path, Visits(t, path), path # "/passwords" PROVE ~Asked /\ UNCHANGED items
    BY <1>2 DEF Visits
  <1>3. Returns(t) => ~Asked /\ UNCHANGED items
    BY DEF Returns
  <1>4. ASSUME NEW to, NEW redirect, NEW switch, Answer(t, jar, to, redirect, switch, Blank),
               to.secret \in {None, jar.secret}
        PROVE  Moves(jar, sess'[t], answer'[t])
    BY <1>1, <1>4, AnswerMoves, Blanks DEF Moves
  <1>5. CASE Index(t)
    <2>1. "/" \notin FormPage
      BY DEF FormPage
    <2> QED BY <1>1, <1>2, <1>4, <1>5, <2>1, RenderMoves DEF Index, Redirect, Moves
  <1>6. ASSUME NEW name, name # "/passwords", Page(t, name, jar, None)
        PROVE  ~Asked /\ UNCHANGED items /\ Moves(jar, sess'[t], answer'[t])
    BY <1>1, <1>2, <1>4, <1>6, RenderMoves DEF Page, Redirect, Moves
  <1>7. CASE CalendarView(t) \/ NewEventForm(t) \/ FeedsPage(t)
    BY <1>6, <1>7 DEF CalendarView, NewEventForm, FeedsPage
  <1>8. CASE PasswordsPage(t)
    <2> DEFINE after == [jar EXCEPT !.secret = None]
    <2>1. after \in Sessions /\ after.secret = None /\ "/passwords" \in FormPage
      BY <1>1 DEF Sessions, FormPage
    <2>2. Page(t, "/passwords", after, jar.secret)
      BY <1>8 DEF PasswordsPage
    <2> HIDE DEF after
    <2>3. UNCHANGED items
      BY <2>2 DEF Page, Visits
    <2>4. CASE jar.user = None
      BY <1>4, <2>2, <2>3, <2>4 DEF Page, Redirect
    <2>5. CASE jar.user # None
      BY <1>1, <2>1, <2>2, <2>3, <2>5, RenderMoves DEF Page, Moves
    <2> QED BY <2>4, <2>5
  <1>9. CASE Login(t)
    <2> DEFINE after == [jar EXCEPT !.pending = @ \cup {t}]
    <2>1. after.secret = jar.secret
      BY <1>1 DEF Sessions
    <2>2. Visits(t, "/login") /\ Redirect(t, jar, after, "provider")
      BY <1>9 DEF Login
    <2> HIDE DEF after
    <2> QED BY <1>2, <1>4, <2>1, <2>2 DEF Redirect
  <1>10. ASSUME NEW u \in User, Callback(t, u)
         PROVE  ~Asked /\ UNCHANGED items /\ Moves(jar, sess'[t], answer'[t])
    <2>1. [NoSession EXCEPT !.user = u].secret = None
      BY DEF NoSession
    <2> QED BY <1>3, <1>4, <1>10, <2>1 DEF Callback
  <1>11. CASE CallbackFails(t)
    <2>1. PICK rest \in {jar.pending, jar.pending \ {t}} : Redirect(t, jar, [jar EXCEPT !.pending = rest], "/")
      BY <1>11 DEF CallbackFails
    <2> DEFINE after == [jar EXCEPT !.pending = rest]
    <2>2. after.secret = jar.secret /\ Redirect(t, jar, after, "/")
      BY <1>1, <2>1 DEF Sessions
    <2> HIDE DEF after
    <2> QED BY <1>3, <1>4, <1>11, <2>2 DEF CallbackFails, Redirect
  <1>12. CASE Logout(t)
    BY <1>2, <1>4, <1>12, Blanks DEF Logout
  <1> QED BY <1>1, <1>5, <1>7, <1>8, <1>9, <1>10, <1>11, <1>12 DEF Visit

\* A form leaves the secret of its session alone, or puts a new one in its place.
NewPassword(t, i) ==
    /\ items[i] = None
    /\ Passwords' = Passwords \cup {i}
    /\ sess'[t].secret = i /\ answer'[t].redirect = "/passwords"

LEMMA PostMoves ==
    ASSUME Core, NEW t \in Tab, Post(t)
    PROVE  /\ answer'[t].page.secret = None
           /\ \/ sess'[t].secret = sess[t].secret /\ Passwords' = Passwords
              \/ \E i \in Item : NewPassword(t, i)
  <1> DEFINE Kept == answer'[t].page.secret = None /\ sess'[t].secret = sess[t].secret
  <1>1. sess[t] \in Sessions /\ CoreType /\ items \in [Item -> Rows \cup {None}]
    BY DEF Core, CoreType
  <1>2. UNCHANGED items => Passwords' = Passwords
    BY DEF Passwords
  <1>3. ASSUME NEW to, NEW redirect, NEW from, Answer(t, from, to, redirect, "none", Blank), to.secret = sess[t].secret
        PROVE  Kept
    BY <1>1, <1>3, AnswerMoves, Blanks
  <1>4. ASSUME NEW i \in Item, Insert(t, i), pc[t] = "posted", Allowed(t)
        PROVE  items[i] = None /\ Passwords' = Passwords \cup (IF form[t].kind = "password" THEN {i} ELSE {})
    <2>1. items'[i] # None /\ items'[i].kind = form[t].kind /\ \A j \in Item \ {i} : items'[j] = items[j]
      BY <1>1, <1>4, InsertGrows
    <2>2. items[i] = None
      BY <1>4 DEF Insert
    <2> QED BY <2>1, <2>2 DEF Passwords
  <1>5. CASE Refused(t) \/ LimitReached(t)
    BY <1>2, <1>3, <1>5 DEF Refused, LimitReached, Redirect
  <1>6. CASE EventFails(t)
    <2>1. Kept
      BY <1>1, <1>6, RenderMoves DEF EventFails
    <2>2. Passwords' = Passwords
      BY <1>2, <1>4, <1>6 DEF EventFails, Creates, Acts
    <2> QED BY <2>1, <2>2
  <1>7. CASE Revoke(t)
    <2>1. Passwords' = Passwords
      BY <1>1, <1>7 DEF Revoke, Passwords, Active, Rows
    <2> QED BY <1>3, <1>7, <2>1 DEF Revoke, Redirect
  <1>8. ASSUME NEW i \in Item, CreateCredential(t, i)
        PROVE  /\ answer'[t].page.secret = None
               /\ (Kept /\ Passwords' = Passwords) \/ NewPassword(t, i)
    <2> DEFINE after == IF form[t].kind = "password" THEN [sess[t] EXCEPT !.secret = i] ELSE sess[t]
    <2>1. after.secret = IF form[t].kind = "password" THEN i ELSE sess[t].secret
      BY <1>1 DEF Sessions
    <2>2. Insert(t, i) /\ pc[t] = "posted" /\ Allowed(t) /\ Answer(t, sess[t], after, FormOf[form[t].kind], "none", Blank)
      BY <1>8 DEF CreateCredential, Creates, Acts, Redirect
    <2> HIDE DEF after
    <2>3. FormOf["password"] = "/passwords"
      BY DEF FormOf
    <2>4. CASE form[t].kind = "password"
      <3>1. sess'[t].secret = i /\ answer'[t].redirect = "/passwords" /\ answer'[t].page.secret = None
        BY <1>1, <2>1, <2>2, <2>3, <2>4, AnswerMoves, Blanks
      <3>2. items[i] = None /\ Passwords' = Passwords \cup {i}
        BY <1>4, <2>2, <2>4
      <3> QED BY <3>1, <3>2 DEF NewPassword
    <2>5. CASE form[t].kind # "password"
      <3>1. Passwords' = Passwords \cup {}
        BY <1>4, <2>2, <2>5
      <3> QED BY <1>3, <2>1, <2>2, <2>5, <3>1
    <2> QED BY <2>4, <2>5
  <1>9. ASSUME NEW i \in Item, CreateEvent(t, i) PROVE Kept /\ Passwords' = Passwords
    BY <1>3, <1>4, <1>9 DEF CreateEvent, Creates, Acts, Redirect
  <1> QED BY <1>5, <1>6, <1>7, <1>8, <1>9 DEF Post

LEMMA SecretsInductive ==
    Core /\ Core' /\ GhostType /\ Serial /\ ShownOnce /\ OnItsWay /\ [Next]_vars => ShownOnce' /\ OnItsWay'
  <1> SUFFICES ASSUME Core, Core', GhostType, Serial, ShownOnce, OnItsWay, [Next]_vars
               PROVE  ShownOnce' /\ OnItsWay'
    OBVIOUS
  <1> DEFINE Goal == ShownOnce' /\ OnItsWay'
  <1>1. /\ pc \in [Tab -> {"view", "posted", "answered", "redirect"}] /\ sess \in [Tab -> Sessions]
        /\ answer \in [Tab -> Answers] /\ jar \in Sessions /\ shown \in [Item -> 0..2]
    BY DEF Core, CoreType, GhostType
  <1>2. /\ jar.secret \in Passwords \cup {None}
        /\ jar.secret # None => jar.user # None
        /\ \A t \in Tab : sess[t].secret \in Passwords \cup {None} /\ answer[t].page.secret \in Passwords \cup {None}
    <2>1. \A b : SecretOf(b, items) /\ b.secret \in Item \cup {None} => b.secret \in Passwords \cup {None}
      BY DEF SecretOf, Passwords
    <2>2. \A t \in Tab : answer[t].page.secret \in Item \cup {None} /\ sess[t].secret \in Item \cup {None}
      BY <1>1 DEF Answers, Displays, Sessions
    <2>3. jar.secret # None => jar.user # None
      BY <1>1 DEF Core, CoreType, SecretsPair, SecretOf, Rows, Sessions
    <2> QED BY <1>1, <2>1, <2>2, <2>3 DEF Core, SecretsPair, Sessions
  <1>3. ASSUME NEW t \in Tab, NEW logout \in BOOLEAN, Leaves(t, logout), ~overlapped'
        PROVE  ~overlapped /\ shown' = shown /\ lost' = lost /\ \A u \in Tab \ {t} : pc[u] = "view"
    BY <1>3 DEF Leaves, Others, serialVars
  <1>4. ASSUME NEW t \in Tab, Visit(t) PROVE Goal
    <2> SUFFICES ASSUME ~overlapped' PROVE Goal
      BY DEF ShownOnce, OnItsWay
    <2>1. ~overlapped /\ shown' = shown /\ lost' = lost /\ \A u \in Tab \ {t} : pc[u] = "view"
      BY <1>3, <1>4, VisitServes
    <2>2. PICK to, a : sess' = [sess EXCEPT ![t] = to] /\ answer' = [answer EXCEPT ![t] = a]
      BY <1>4, VisitServes DEF ServedFrom
    <2>3. pc' = [pc EXCEPT ![t] = "answered"] /\ jar' = jar
      BY <1>4, VisitServes DEF ServedFrom
    <2>4. Moves(jar, to, a) /\ UNCHANGED items /\ Passwords' = Passwords
      BY <1>1, <1>4, <2>2, VisitMoves DEF Passwords
    <2>5. pc[t] \in {"view", "redirect"}
      BY <1>4 DEF Visit, Index, CalendarView, NewEventForm, PasswordsPage, FeedsPage, Page, Login, Callback, CallbackFails, Logout, Returns, Visits
    <2>6. \A u \in Tab : sess[u].secret = None /\ answer[u].page.secret = None
      BY <2>1, <2>5 DEF ShownOnce
    <2>7. \A i : i # None => (Carried(i) <=> jar.secret = i) /\ (Carried(i)' <=> jar.secret = i)
      BY <1>1, <2>2, <2>3, <2>4, <2>6 DEF Carried, Moves
    <2>8. ShownOnce'
      BY <1>1, <2>1, <2>2, <2>3, <2>4, <2>6, <2>7 DEF ShownOnce, Moves
    <2>9. ASSUME ~lost, jar.secret # None PROVE a.page.secret = jar.secret /\ to.secret = None
      <3>1. Fetches(t)
        BY <2>1, <2>5, <2>9 DEF OnItsWay, Fetches
      <3>2. pc[t] = "redirect" /\ answer[t].redirect = "/passwords"
        BY <2>5, <3>1 DEF Fetches
      <3>3. jar.user # None
        BY <1>2, <2>9
      <3>4. answer'[t].page.secret = jar.secret
        BY <1>4, <3>2, <3>3, VisitMoves
      <3> QED BY <1>1, <2>2, <2>4, <2>9, <3>4 DEF Moves
    <2>10. ~lost' => ~lost
      BY <2>1
    <2>11. OnItsWay'
      <3> SUFFICES ASSUME ~lost PROVE OnItsWay'
        BY <2>10 DEF OnItsWay
      <3>1. jar'.secret # None => Fetches(t)'
        BY <1>1, <2>2, <2>3, <2>9 DEF Fetches
      <3>2. \A u \in Tab : pc'[u] = "answered" => u = t
        BY <1>1, <2>1, <2>3
      <3>3. sess'[t].secret = None
        BY <1>1, <2>2, <2>4, <2>9 DEF Moves
      <3>4. \A i \in Passwords : shown[i] = 0 => Carried(i)
        BY <2>1 DEF OnItsWay
      <3>5. \A i \in Passwords' : shown'[i] = 0 => Carried(i)'
        BY <2>1, <2>4, <2>7, <3>4 DEF Passwords
      <3> QED BY <3>1, <3>2, <3>3, <3>5 DEF OnItsWay
    <2> QED BY <2>8, <2>11
  <1>5. ASSUME NEW t \in Tab, Post(t) PROVE Goal
    <2> SUFFICES ASSUME ~overlapped' PROVE Goal
      BY DEF ShownOnce, OnItsWay
    <2>1. ~overlapped /\ shown' = shown /\ lost' = lost /\ pc[t] = "posted"
      BY <1>5, PostAnswers DEF serialVars
    <2>2. sess[t] = jar /\ \A u \in Tab \ {t} : pc[u] = "view"
      BY <2>1 DEF Serial
    <2>3. PICK to, a : sess' = [sess EXCEPT ![t] = to] /\ answer' = [answer EXCEPT ![t] = a]
      BY <1>5, PostAnswers
    <2>4. pc' = [pc EXCEPT ![t] = "answered"] /\ jar' = jar
      BY <1>5, PostAnswers
    <2>5. /\ a.page.secret = None
          /\ \/ to.secret = jar.secret /\ Passwords' = Passwords
             \/ \E i \in Item : /\ items[i] = None /\ Passwords' = Passwords \cup {i}
                                /\ to.secret = i /\ a.redirect = "/passwords"
      BY <1>1, <1>5, <2>2, <2>3, PostMoves DEF NewPassword
    <2>6. \A u \in Tab : u # t => sess[u].secret = None
      BY <2>1, <2>2 DEF ShownOnce
    <2>7. \A u \in Tab : answer[u].page.secret = None
      BY <2>1, <2>2 DEF ShownOnce
    <2>8. \A i : i # None => (Carried(i) <=> jar.secret = i) /\ (Carried(i)' <=> jar.secret = i \/ to.secret = i)
      BY <1>1, <2>2, <2>3, <2>4, <2>5, <2>6, <2>7 DEF Carried
    <2>9. \A i \in Item : i \in Passwords => items[i] # None
      BY DEF Passwords
    <2>10. \A i \in Item : shown'[i] <= 1 /\ (shown'[i] = 1 => i \in Passwords' /\ ~Carried(i)')
      BY <2>1, <2>5, <2>8, <2>9 DEF ShownOnce
    <2>11. ShownOnce'
      BY <1>1, <2>2, <2>3, <2>4, <2>5, <2>6, <2>7, <2>10 DEF ShownOnce
    <2>12. OnItsWay'
      <3> SUFFICES ASSUME ~lost PROVE OnItsWay'
        BY <2>1 DEF OnItsWay
      <3>1. jar.secret = None
        BY <2>1, <2>2 DEF OnItsWay, Fetches
      <3>2. \A u \in Tab : pc'[u] = "answered" => u = t
        BY <1>1, <2>2, <2>4
      <3>3. sess'[t].secret # None => answer'[t].redirect = "/passwords"
        BY <1>1, <2>3, <2>5, <3>1
      <3>4. \A i \in Passwords : shown[i] = 0 => Carried(i)
        BY <2>1 DEF OnItsWay
      <3>5. \A i \in Passwords' : shown'[i] = 0 => Carried(i)'
        BY <2>1, <2>5, <2>8, <3>4 DEF Passwords
      <3> QED BY <2>4, <3>1, <3>2, <3>3, <3>5 DEF OnItsWay
    <2> QED BY <2>11, <2>12
  <1>6. ASSUME NEW t \in Tab, (\E kind \in Kind : SubmitCreate(t, kind)) \/ (\E i \in Item : SubmitRevoke(t, i)) PROVE Goal
    <2> SUFFICES ASSUME ~overlapped' PROVE Goal
      BY DEF ShownOnce, OnItsWay
    <2>1. /\ pc[t] = "view" /\ pc' = [pc EXCEPT ![t] = "posted"] /\ sess' = [sess EXCEPT ![t] = jar]
          /\ jar' = jar /\ answer' = answer /\ Passwords' = Passwords
      BY <1>6 DEF SubmitCreate, SubmitRevoke, Submit, Passwords
    <2>2. ~overlapped /\ shown' = shown /\ lost' = lost /\ \A u \in Tab \ {t} : pc[u] = "view"
      BY <1>3, <1>6, SubmitLeaves
    <2>3. \A u \in Tab : sess[u].secret = None /\ answer[u].page.secret = None
      BY <2>1, <2>2 DEF ShownOnce
    <2>4. \A i : i # None => (Carried(i) <=> jar.secret = i) /\ (Carried(i)' <=> jar.secret = i)
      BY <1>1, <2>1, <2>3 DEF Carried
    <2>5. ShownOnce'
      BY <1>1, <2>1, <2>2, <2>3, <2>4 DEF ShownOnce
    <2>6. OnItsWay'
      <3> SUFFICES ASSUME ~lost PROVE OnItsWay'
        BY <2>2 DEF OnItsWay
      <3>1. jar.secret = None
        BY <2>1, <2>2 DEF OnItsWay, Fetches
      <3>2. \A u \in Tab : pc'[u] # "answered"
        BY <1>1, <2>1, <2>2
      <3>3. \A i \in Passwords' : shown'[i] = 0 => Carried(i)'
        BY <2>1, <2>2, <2>4 DEF OnItsWay, Passwords
      <3> QED BY <2>1, <3>1, <3>2, <3>3 DEF OnItsWay
    <2> QED BY <2>5, <2>6
  <1>7. ASSUME NEW t \in Tab, Receive(t) PROVE Goal
    <2> SUFFICES ASSUME ~overlapped' PROVE Goal
      BY DEF ShownOnce, OnItsWay
    <2> DEFINE rest == IF answer[t].redirect = None THEN NoAnswer ELSE [NoAnswer EXCEPT !.redirect = answer[t].redirect]
    <2>1. /\ ~overlapped /\ pc[t] = "answered"
          /\ pc' = [pc EXCEPT ![t] = IF answer[t].redirect = None THEN "view" ELSE "redirect"]
          /\ jar' = IF answer[t].cookie THEN sess[t] ELSE jar
          /\ sess' = [sess EXCEPT ![t] = NoSession] /\ answer' = [answer EXCEPT ![t] = rest]
          /\ shown' = [i \in Item |-> IF i = answer[t].page.secret /\ shown[i] < 2 THEN shown[i] + 1 ELSE shown[i]]
          /\ Passwords' = Passwords
      BY <1>7 DEF Receive, Passwords
    <2>2. lost' = lost
      BY <1>7 DEF Receive
    <2>3. Serves(jar, sess[t], answer[t]) /\ \A u \in Tab \ {t} : pc[u] = "view"
      BY <2>1 DEF Serial
    <2>4. jar' = sess[t]
      BY <2>1, <2>3 DEF Serves
    <2>5. rest.page.secret = None /\ rest.redirect = answer[t].redirect
      BY <1>1, Blanks DEF NoAnswer
    <2> HIDE DEF rest
    <2>6. \A u \in Tab : u # t => sess[u].secret = None /\ answer[u].page.secret = None
      BY <2>1, <2>3 DEF ShownOnce
    <2>7. \A u \in Tab : sess'[u].secret = None /\ answer'[u].page.secret = None /\ pc'[u] # "answered"
      BY <1>1, <2>1, <2>3, <2>5, <2>6, Blanks
    <2>8. \A i : i # None => /\ Carried(i)' <=> sess[t].secret = i
                            /\ Carried(i) <=> jar.secret = i \/ sess[t].secret = i \/ answer[t].page.secret = i
      BY <2>4, <2>6, <2>7 DEF Carried
    <2>9. answer[t].page.secret # None => answer[t].page.secret = jar.secret /\ sess[t].secret = None
      BY <2>1 DEF ShownOnce
    <2>10. \A i \in Item : shown'[i] <= 1 /\ (shown'[i] = 1 => i \in Passwords /\ ~Carried(i)')
      <3> SUFFICES ASSUME NEW i \in Item PROVE shown'[i] <= 1 /\ (shown'[i] = 1 => i \in Passwords /\ ~Carried(i)')
        OBVIOUS
      <3>1. shown[i] \in 0..1 /\ (shown[i] = 1 => i \in Passwords /\ ~Carried(i))
        BY <1>1, <2>1 DEF ShownOnce
      <3>2. CASE i = answer[t].page.secret
        BY <1>2, <2>1, <2>8, <2>9, <3>1, <3>2
      <3>3. CASE i # answer[t].page.secret
        <4>1. shown'[i] = shown[i]
          BY <2>1, <3>3
        <4>2. Carried(i)' => Carried(i)
          <5>1. i # None
            OBVIOUS
          <5>2. (Carried(i)' => sess[t].secret = i) /\ (sess[t].secret = i => Carried(i))
            BY <2>4, <2>7, <5>1 DEF Carried
          <5> QED BY <5>2
        <4> QED BY <3>1, <4>1, <4>2
      <3> QED BY <3>2, <3>3
    <2>11. ShownOnce'
      BY <2>1, <2>7, <2>10 DEF ShownOnce
    <2>12. OnItsWay'
      <3> SUFFICES ASSUME ~lost PROVE OnItsWay'
        BY <2>2 DEF OnItsWay
      <3>1. jar'.secret # None => Fetches(t)'
        <4>1. jar'.secret # None => answer[t].redirect = "/passwords"
          BY <2>1, <2>4 DEF OnItsWay
        <4>2. "/passwords" # None
          BY DEF Redirects, Link, FormPage
        <4>3. answer'[t].redirect = answer[t].redirect
          BY <1>1, <2>1, <2>5
        <4> QED BY <1>1, <2>1, <4>1, <4>2, <4>3 DEF Fetches
      <3>2. jar.secret # None => answer[t].page.secret = jar.secret
        BY <2>1, <2>3 DEF OnItsWay, Fetches
      <3>3. ASSUME NEW i \in Passwords, shown'[i] = 0 PROVE Carried(i)'
        <4>1. i \in Item /\ shown[i] = 0 /\ i # answer[t].page.secret
          BY <1>1, <2>1, <3>3 DEF Passwords
        <4>2. Carried(i)
          BY <2>1, <4>1 DEF OnItsWay
        <4> QED BY <2>8, <3>2, <4>1, <4>2
      <3> QED BY <2>1, <2>7, <3>1, <3>3 DEF OnItsWay
    <2> QED BY <2>11, <2>12
  <1>8. ASSUME NEW t \in Tab, Lose(t) PROVE Goal
    <2> SUFFICES ASSUME ~overlapped' PROVE Goal
      BY DEF ShownOnce, OnItsWay
    <2>1. /\ pc' = [pc EXCEPT ![t] = "view"] /\ sess' = [sess EXCEPT ![t] = NoSession] /\ answer' = [answer EXCEPT ![t] = NoAnswer]
          /\ UNCHANGED <<jar, shown>> /\ ~overlapped /\ Passwords' = Passwords
      BY <1>8 DEF Lose, Passwords
    <2>2. lost'
      <3>1. lost' = ~overlapped /\ ~overlapped
        BY <1>8 DEF Lose
      <3> QED BY <3>1, Zenon
    <2>3. \A i : Carried(i)' => Carried(i) \/ i = None
      BY <1>1, <2>1, Blanks DEF Carried
    <2>4. ShownOnce'
      BY <1>1, <2>1, <2>3, Blanks DEF ShownOnce
    <2> QED BY <2>2, <2>4 DEF OnItsWay
  <1>9. CASE UNCHANGED vars
    <2>1. Passwords' = Passwords /\ \A i : Carried(i)' <=> Carried(i)
      BY <1>9 DEF vars, netVars, Passwords, Carried
    <2>2. ShownOnce'
      BY <1>9, <2>1 DEF vars, netVars, serialVars, ShownOnce
    <2>3. OnItsWay'
      BY <1>9, <2>1 DEF vars, netVars, serialVars, OnItsWay, Fetches
    <2> QED BY <2>2, <2>3
  <1> QED BY <1>4, <1>5, <1>6, <1>7, <1>8, <1>9 DEF Next

-----------------------------------------------------------------------------
\* Cookies, pages, forms and answers keep their types, whatever is lost.
THEOREM TypeCorrect == Spec => []TypeOK
  <1>1. IInv => TypeOK
    BY DEF IInv, Core, CoreType, GhostType, TypeOK
  <1> QED BY Invariant, <1>1, PTL

\* What a form of one account creates never lands with another.
THEOREM FormsAct == Spec => []FormsActForTheirReader
  <1>1. IInv => FormsActForTheirReader
    BY DEF IInv, Core
  <1> QED BY Invariant, <1>1, PTL

\* A secret is displayed to the account it was created for and no other.
THEOREM SecretsReach == Spec => []SecretsReachTheirOwner
  <1>1. IInv => SecretsReachTheirOwner
    BY DEF IInv, Core, SecretsPair, SecretOf, SecretsReachTheirOwner
  <1> QED BY Invariant, <1>1, PTL

\* A logout that met no other request holds until the next sign-in.
THEOREM QuietLogout == Spec => []QuietLogoutHolds
  <1>1. IInv => QuietLogoutHolds
    BY DEF IInv, QuietInv, QuietWaits, OutHolds, SignedOut, QuietLogoutHolds
  <1> QED BY Invariant, <1>1, PTL

\* One request at a time, a form rendered since the last sign-in still works.
THEOREM OpenForms == Spec => []OpenFormsWork
  <1>1. IInv => Core /\ GhostType
    BY DEF IInv
  <1>2. IInv /\ Serial => OpenFormsWork
    BY DEF IInv, GhostType, Serial, OpenFormsWork
  <1> QED BY Invariant, SerialInit, SerialInductive, <1>1, <1>2, PTL DEF Spec

\* One request at a time, a new password's secret is shown at most once, and is
\* on its way until it is shown, unless an answer was lost.
THEOREM SecretsOnce == Spec => []SecretsShownOnce
  <1>1. Init => ShownOnce /\ OnItsWay
    BY Blanks DEF Init, ShownOnce, OnItsWay, Passwords
  <1>2. IInv => Core /\ GhostType
    BY DEF IInv
  <1>3. ShownOnce /\ OnItsWay => SecretsShownOnce
    BY DEF ShownOnce, OnItsWay, SecretsShownOnce, Passwords
  <1> QED BY Invariant, SerialInit, SerialInductive, SecretsInductive, <1>1, <1>2, <1>3, PTL DEF Spec
=============================================================================

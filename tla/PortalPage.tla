----------------------------- MODULE PortalPage -----------------------------
(***************************************************************************)
(* portal/frontend: App.jsx, which shows one of five screens, and the      *)
(* screens.  The session is a cookie that the browser sets or clears when  *)
(* the headers of an answer arrive; the page handles the answer later,     *)
(* when it has read the body, and may handle another one first.  The       *)
(* cookie's token is stamped when the password was expired at login, and   *)
(* every module but app-maintenance refuses a stamped token; the screens   *)
(* go by what the last answer said of the account instead.                 *)
(* rows is the account: must, its password has expired, and link, a reset  *)
(* link was mailed and not used.                                           *)
(***************************************************************************)
EXTENDS Calls

\* user: undefined, null, or an object with or without mustChangePassword.
\* busy and done are the loading and the done or sent of the form on screen.
State == [resetToken : BOOLEAN, user : {"undefined", "null", "must", "in"},
          view : {"login", "forgot", "change"}, busy : BOOLEAN, done : BOOLEAN,
          profile : BOOLEAN, cookie : {"none", "stamped", "clean"}]

Cookies == {"none", "stamped", "clean"}
Request(c) ==
  \/ IsCall(c, "me", Cookies, {"must", "in"})
  \/ IsCall(c, "login", {None}, {"must", "in"})
  \/ IsCall(c, "logout", {None}, {Done})
  \/ IsCall(c, "change", Cookies, {Done})
  \/ IsCall(c, "forgot", {None}, {Done})
  \/ IsCall(c, "reset", {None}, {Done})
  \/ IsCall(c, "body", {"login", "logout", "change"}, {"must", "in", Done})

\* What the backend says of the account.
Says == IF rows.must THEN "must" ELSE "in"

Forms == {"login", "change", "forgot", "reset"}

Loaded(cookie, resetToken) ==
  [resetToken |-> resetToken, user |-> "undefined", view |-> "login", busy |-> FALSE,
   done |-> FALSE, profile |-> FALSE, cookie |-> cookie]

Init ==
  /\ rows \in [must : BOOLEAN, link : {FALSE}]
  /\ \E cookie \in {"none", "clean"} : /\ page = Loaded(cookie, FALSE)
                                       /\ net = <<Call("me", cookie)>>
  /\ lag = FALSE

\* Faulty: the change of an expired password can be put off.
Screen_Optional(p) ==
  CASE p.resetToken -> "reset"
    [] ~p.resetToken /\ p.user = "undefined" -> "spinner"
    [] ~p.resetToken /\ p.user = "null" -> IF p.view = "forgot" THEN "forgot" ELSE "login"
    [] ~p.resetToken /\ p.user \in {"must", "in"} ->
         IF p.view = "change" THEN "change" ELSE "dashboard"

\* A reset link takes over regardless of login state.
Screen(p) ==
  CASE p.resetToken -> "reset"
    [] ~p.resetToken /\ p.user = "undefined" -> "spinner"
    [] ~p.resetToken /\ p.user = "null" -> IF p.view = "forgot" THEN "forgot" ELSE "login"
    [] ~p.resetToken /\ p.user \in {"must", "in"} ->
         IF p.user = "must" \/ p.view = "change" THEN "change" ELSE "dashboard"

On(screen) == Screen(page) = screen

\* App renders again; another screen starts with a state of its own.
Render(p, calls) ==
  IF Screen(p) = Screen(page)
    THEN page' = p /\ net' = calls
    ELSE /\ page' = [p EXCEPT !.busy = FALSE, !.done = FALSE, !.profile = FALSE]
         /\ net' = Unmounted(calls, Forms \cup {"body"})

-----------------------------------------------------------------------------
(* The page is loaded.                                                     *)

\* No answer, or any error, counts as being logged out.
Me(i) ==
  /\ Answered(i, "me")
  /\ Render([page EXCEPT !.user = IF net[i].ans = Failed THEN "null" ELSE net[i].ans], Rest(i))
  /\ lag' = (lag \/ (net[i].ans = Failed /\ page.cookie # "none"))
  /\ UNCHANGED rows

\* The page is loaded again, or from a link in a mail; what was under way is
\* dropped by the browser.
Reload ==
  /\ \E link \in {FALSE, rows.link} : page' = Loaded(page.cookie, link)
  /\ net' = <<Call("me", page.cookie)>>
  /\ lag' = (lag \/ \E i \in DOMAIN net : net[i].op # "me")
  /\ UNCHANGED rows

-----------------------------------------------------------------------------
(* The forms.  The submit button is disabled while one is under way.       *)

SubmitForm(screen, op, arg) ==
  /\ On(screen) /\ ~page.busy /\ ~page.done
  /\ page' = [page EXCEPT !.busy = TRUE]
  /\ Send(op, arg)
  /\ UNCHANGED <<rows, lag>>

\* A form whose request failed shows the error, if it is still there.
Refused(i) ==
  /\ \E op \in Forms : Answered(i, op)
  /\ net[i].ans = Failed
  /\ page' = IF net[i].gone THEN page ELSE [page EXCEPT !.busy = FALSE]
  /\ Take(i)
  /\ UNCHANGED <<rows, lag>>

Login == SubmitForm("login", "login", None)
Forgot == SubmitForm("forgot", "forgot", None)
ResetPassword == SubmitForm("reset", "reset", None)

\* The form is replaced by the good news.
MailSentOrReset(i) ==
  /\ Answered(i, "forgot") \/ Answered(i, "reset")
  /\ net[i].ans # Failed
  /\ page' = IF net[i].gone THEN page ELSE [page EXCEPT !.busy = FALSE, !.done = TRUE]
  /\ Take(i)
  /\ UNCHANGED <<rows, lag>>

\* With the cookie of the moment; the two new passwords are equal.
ChangePassword == SubmitForm("change", "change", page.cookie)

\* What the Set-Cookie of an answer makes of the cookie.
Brings(op, ans) ==
  CASE op = "logout" -> "none"
    [] op = "login" /\ ans = "must" -> "stamped"
    [] op = "change" \/ (op = "login" /\ ans # "must") -> "clean"

\* The headers arrive: the browser has the cookie, and the page has yet to read
\* the body.  The answers whose headers have come are in that order in net.
Headers(i) ==
  /\ Answered(i, "login") \/ Answered(i, "logout") \/ Answered(i, "change")
  /\ net[i].ans # Failed
  /\ page' = [page EXCEPT !.cookie = Brings(net[i].op, net[i].ans)]
  /\ net' = Append(Rest(i), [Call("body", net[i].op)
                               EXCEPT !.ans = net[i].ans, !.gone = net[i].gone])
  /\ lag' = (lag \/ (net[i].op = "login" /\ net[i].ans # Says))
  /\ UNCHANGED rows

BodyOf(i, op) == Answered(i, "body") /\ net[i].arg = op

\* The page as the handler leaves it, of a form that is still there or not.
Idle(i) == IF net[i].gone THEN page ELSE [page EXCEPT !.busy = FALSE]

\* onLoggedIn is App's setUser: it does not matter which screen is there.  Of a
\* body that cannot be read it makes a user who need not change the password.
LoggedIn(i) ==
  /\ BodyOf(i, "login")
  /\ \E user \in {net[i].ans, "in"} :
       /\ Render([Idle(i) EXCEPT !.user = user], Rest(i))
       /\ lag' = (lag \/ net[i].late \/ user # net[i].ans)
  /\ UNCHANGED rows

Changed(i) ==
  /\ BodyOf(i, "change")
  /\ Render([Idle(i) EXCEPT !.user = "in", !.view = "login"], Rest(i))
  /\ lag' = (lag \/ net[i].late)
  /\ UNCHANGED rows

-----------------------------------------------------------------------------
(* The other buttons.                                                      *)

SetView(screen, view) ==
  /\ On(screen)
  /\ Render([page EXCEPT !.view = view], net)
  /\ UNCHANGED <<rows, lag>>

ForgotLink == SetView("login", "forgot")
BackToSignIn == SetView("forgot", "login")
CancelChange == page.user # "must" /\ SetView("change", "login")

\* After a reset.  What is known of the user dates from before it.
GoToSignIn ==
  /\ On("reset") /\ page.done
  /\ Render([page EXCEPT !.resetToken = FALSE], net)
  /\ UNCHANGED <<rows, lag>>

ShowProfile ==
  /\ On("dashboard") /\ ~page.profile
  /\ page' = [page EXCEPT !.profile = TRUE]
  /\ UNCHANGED <<rows, net, lag>>

CloseProfile ==
  /\ On("dashboard") /\ page.profile
  /\ page' = [page EXCEPT !.profile = FALSE]
  /\ UNCHANGED <<rows, net, lag>>

ProfileChange == page.profile /\ SetView("dashboard", "change")

\* In the profile, and where a change of the password is forced.
Logout ==
  /\ \/ On("dashboard") /\ page.profile
     \/ On("change") /\ page.user = "must"
  /\ Send("logout", None)
  /\ UNCHANGED <<rows, page, lag>>

\* Only a fetch that throws is an error, and the body is not waited for.  Of an
\* answer that is an error, the page makes a sign-out all the same.
LoggedOut(i) ==
  LET out == [page EXCEPT !.user = "null", !.view = "login"]
  IN  /\ \/ BodyOf(i, "logout") /\ Render(out, Rest(i)) /\ lag' = (lag \/ net[i].late)
         \/ /\ Answered(i, "logout") /\ net[i].ans = Failed
            /\ \/ Render(out, Rest(i)) /\ lag' = (lag \/ page.cookie # "none")
               \/ Take(i) /\ UNCHANGED <<page, lag>>
      /\ UNCHANGED rows

-----------------------------------------------------------------------------
(* The backend.                                                            *)

ServeMe(i) ==
  /\ Sent(i, "me")
  /\ IF net[i].arg = "none" THEN ServeRefusal(i, "me") ELSE ServeRead(i, "me", Says)

\* A login with the wrong password is one that fails.
ServeLogin(i) == ServeRead(i, "login", Says)
ServeLogout(i) == ServeRead(i, "logout", Done)

\* Any token will do, with the current password.
ServeChange(i) ==
  /\ Sent(i, "change")
  /\ IF net[i].arg = "none"
       THEN ServeRefusal(i, "change")
       ELSE ServeWrite(i, "change", [rows EXCEPT !.must = FALSE], Done)

ServeForgot(i) == ServeWrite(i, "forgot", [rows EXCEPT !.link = TRUE], Done)

\* The link works once.  The tokens there are keep their stamp.
ServeReset(i) ==
  /\ Sent(i, "reset")
  /\ IF rows.link
       THEN /\ \/ rows' = [must |-> FALSE, link |-> FALSE] /\ Reply(i, Done)
               \/ rows' = [must |-> FALSE, link |-> FALSE] /\ Reply(i, Failed)
               \/ UNCHANGED rows /\ Reply(i, Failed)
            /\ lag' = (lag \/ page.cookie = "stamped"
                           \/ \E j \in DOMAIN net : net[j].op = "login" /\ net[j].ans = "must")
            /\ UNCHANGED page
       ELSE ServeRefusal(i, "reset")

\* The password expires; an administrator sets one; the user signs out in
\* another tab, or the cookie reaches the end of its MaxAge.
Elsewhere ==
  \/ ~rows.must /\ Foreign([rows EXCEPT !.must = TRUE])
  \/ rows.must /\ Foreign([rows EXCEPT !.must = FALSE])
  \/ /\ page.cookie # "none"
     /\ page' = [page EXCEPT !.cookie = "none"]
     /\ lag' = TRUE
     /\ UNCHANGED <<rows, net>>

Next ==
  \/ Reload \/ Login \/ Forgot \/ ResetPassword \/ ChangePassword
  \/ ForgotLink \/ BackToSignIn \/ CancelChange \/ GoToSignIn
  \/ ShowProfile \/ CloseProfile \/ ProfileChange \/ Logout
  \/ \E i \in DOMAIN net :
       \/ Me(i) \/ Refused(i) \/ MailSentOrReset(i)
       \/ Headers(i) \/ LoggedIn(i) \/ Changed(i) \/ LoggedOut(i)
       \/ ServeMe(i) \/ ServeLogin(i) \/ ServeLogout(i)
       \/ ServeChange(i) \/ ServeForgot(i) \/ ServeReset(i)
  \/ Elsewhere

-----------------------------------------------------------------------------
TypeOK ==
  /\ page \in State
  /\ rows \in [must : BOOLEAN, link : BOOLEAN]
  /\ Len(net) <= MaxCalls /\ \A i \in DOMAIN net : Request(net[i])
  /\ lag \in BOOLEAN

\* Who sees the dashboard can open its tiles: the browser holds a cookie, and
\* one that is not stamped; and who sees the login form has none.  Except while
\* an answer whose cookie is set has yet to be handled, and unless the session
\* ended (elsewhere, or by its MaxAge), the password expired or was set elsewhere,
\* was changed after a login was answered, or reset beside a stamped session, or
\* an answer was lost, an error, dropped by a reload, or handled after one whose
\* cookie came later: a change of the password that is handled after a sign-out
\* leaves the dashboard there without a session.
ScreenMatchesCookie ==
  ~lag /\ (\A i \in DOMAIN net : net[i].op # "body") =>
    /\ On("dashboard") => page.cookie = "clean"
    /\ On("login") \/ On("forgot") => page.cookie = "none"
=============================================================================

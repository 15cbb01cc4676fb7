------------------------------- MODULE WebSession -------------------------------
(* One browser and the server it talks to: the page that is open, what its     *)
(* viewer presses, the gates a request passes, and the redirects, the          *)
(* remembered address and the confirmed password that carry the viewer on.     *)
(* Meanwhile other administrators change the role of the viewer or lock him    *)
(* out, the session ends and the confirmation of the password gets old.        *)
EXTENDS Pages, ServerRoutes

CONSTANTS
    Bookmarks,      \* addresses the viewer opens by himself
    FirstRoles,     \* the roles the viewer may have at first
    MaxChanges,     \* how often something happens behind the viewer's back
    MaxHops         \* how many redirects a visit may take

(* An account has one of the roles there are, an address is a sequence of      *)
(* segments.                                                                   *)
ASSUME SessionAssumption ==
    /\ FirstRoles \subseteq Roles
    /\ Bookmarks \subseteq Seq(STRING)
    /\ MaxChanges \in Nat

VARIABLES
    installed,  \* "fresh" (no user), "claimed" (no setup yet) or "ready"
    user,       \* the viewer's row: his role and whether he is active
    session,    \* "guest", "challenged" (second factor) or "in"
    confirmed,  \* the age of the last password confirmation: "recent", "old", "no"
    intended,   \* the address to return to after a login or a confirmation
    page,       \* what the browser shows and for whom it was rendered
    request,    \* the request on its way
    answer,     \* how the last request was answered
    changes     \* how often something has happened behind the viewer's back

vars == <<installed, user, session, confirmed, intended, page, request, answer, changes>>

None == [why |-> "none", hops |-> 0]
NoAddress == <<"no address">>

Viewer  == IF session = "in" THEN user.role ELSE Nobody
Claimed == installed # "fresh"

(* A request: why it is made, after how many redirects, and what is asked.     *)
Ask(why, hops, offer) ==
    [why |-> why, hops |-> hops, by |-> offer.by, method |-> offer.method,
     path |-> offer.path, query |-> offer.query]

-------------------------------------------------------------------------------
(* Every request that can be made, and the route it reaches.                   *)
Components == {"welcome", "setup", "tls-activation", "restore", "auth/login", "auth/register",
               "auth/forgot-password", "auth/reset-password", "auth/confirm-password",
               "auth/two-factor-challenge", "auth/verify-email", "dashboard", "devices/index",
               "devices/edit", "collection-runs/trace", "configurations/show", "credentials/index",
               "catalog/index", "models/index", "integrations/index", "notifications/index",
               "data-protection/index", "users/index", "audit/index", "updates/index",
               "system/index", "settings/profile", "settings/security", "settings/appearance"}

AllOffers == UNION {Offers(c, r, k) : c \in Components, r \in Roles \cup {Nobody}, k \in BOOLEAN}

Addresses == {o.path : o \in AllOffers} \cup Bookmarks
             \cup {<<>>, <<"tls-activation">>, <<"two-factor-challenge">>, <<"user", "confirm-password">>}

(* The route of an offer, and the route its address has for a plain visit.     *)
RouteOfOffer == [o \in AllOffers |-> Resolve(o.method, o.path, o.query)]
RouteOfLink  == [path \in Addresses |-> Resolve("get", path, <<>>)]

RouteOf(r) ==
    IF r.why = "offer" THEN RouteOfOffer[Request(r.by, r.method, r.path, r.query)]
    ELSE RouteOfLink[r.path]

-------------------------------------------------------------------------------
(* The gates, in the order they stand.  A method or an address that has no     *)
(* route is answered before any of them.                                       *)
RoleGate(role) ==
    CASE role = "owner"         -> {"staff", "admins", "owner"}
      [] role = "administrator" -> {"staff", "admins"}
      [] role = "operator"      -> {"staff"}
      [] OTHER                  -> {}

EnsureActiveUser(route) == session = "in" => user.active
Authenticate(route) == "auth" \in route.gates => session = "in"
RedirectIfAuthenticated(route) == "guest" \in route.gates => session # "in"
EnsureSetupComplete(route) == "setup" \in route.gates => installed = "ready"
EnsureRole(route) == route.gates \cap {"staff", "admins", "owner"} \subseteq RoleGate(user.role)
RequirePassword(route) == "confirm" \in route.gates => confirmed # "no"
EnsureRecentPassword(route) == "recent" \in route.gates => confirmed = "recent"

Gate(route) ==
    IF      route.name \in {"404", "405"}    THEN "missing"
    ELSE IF ~EnsureActiveUser(route)         THEN "inactive"
    ELSE IF ~RedirectIfAuthenticated(route)  THEN "guest"
    ELSE IF ~Authenticate(route)             THEN "auth"
    ELSE IF ~EnsureSetupComplete(route)      THEN "setup"
    ELSE IF ~EnsureRole(route)               THEN "role"
    ELSE IF ~RequirePassword(route)          THEN "confirm"
    ELSE IF ~EnsureRecentPassword(route)     THEN "recent"
    ELSE "open"

-------------------------------------------------------------------------------
(* Answers.                                                                    *)
Current == page.role = Viewer /\ page.claimed = Claimed /\ (session = "in" => user.active)

(* How a request was answered, and whether it was one that a page offered as   *)
(* things still are.                                                           *)
Answered(code) == answer' = [code |-> code, offered |-> request.why = "offer" /\ Current]

Unanswered == [code |-> "none", offered |-> FALSE]

(* An answer that is no page leaves the page where it is.                      *)
Stay(code) ==
    /\ Answered(code)
    /\ request' = None
    /\ UNCHANGED page

Redirect(path) ==
    /\ Answered("redirect")
    /\ request' = Ask("redirect", request.hops + 1, Link(path))
    /\ UNCHANGED page

(* back(): the address of the page the request came from.                      *)
Back == Redirect(page.path)

(* A page whose sidebar asks for the role of its user cannot be drawn for      *)
(* nobody.                                                                     *)
Drawn(component) == Layout(component) \in {"app", "settings"} => Viewer # Nobody

Show(component) ==
    /\ Answered("page")
    /\ page' = [component |-> component, path |-> request.path, role |-> Viewer,
                claimed |-> Claimed, drawn |-> Drawn(component)]
    /\ request' = None

\* Mutation: the name of the page is kept in place of its address.
Remember_Component == intended' = <<page.component>>

\* Mutation: the address of a form is remembered too.
Remember_Anything == intended' = request.path

(* A gate remembers where to return to: the address itself when it is a visit, *)
(* otherwise the page the request came from.                                   *)
Remember == intended' = IF request.method = "get" /\ request.by = "visit" THEN request.path ELSE page.path

EndSession ==
    /\ session' = "guest"
    /\ confirmed' = "no"
    /\ intended' = NoAddress

Account == <<installed, user>>
Session == <<session, confirmed, intended>>

TurnedAway(route) ==
    LET gate == Gate(route)
    IN /\ UNCHANGED <<Account, changes>>
       /\ \/ /\ gate = "missing"
             /\ Stay("missing")
             /\ UNCHANGED Session
          \/ /\ gate = "inactive"
             /\ EndSession
             /\ IF request.by = "fetch" THEN Stay("refused") ELSE Redirect(<<"login">>)
          \/ /\ gate = "guest"
             /\ Redirect(<<"dashboard">>)
             /\ UNCHANGED Session
          \/ /\ gate = "auth"
             /\ IF request.by = "fetch" THEN Stay("refused") /\ UNCHANGED intended
                ELSE Redirect(<<"login">>) /\ Remember
             /\ UNCHANGED <<session, confirmed>>
          \/ /\ gate = "setup"
             /\ Redirect(<<"setup">>)
             /\ UNCHANGED Session
          \/ /\ gate = "role"
             /\ Stay("refused")
             /\ UNCHANGED Session
          \/ /\ gate = "confirm"
             /\ IF request.by = "fetch" THEN Stay("locked") /\ UNCHANGED intended
                ELSE Redirect(<<"user", "confirm-password">>) /\ Remember
             /\ UNCHANGED <<session, confirmed>>
          \/ /\ gate = "recent"
             /\ IF request.by = "fetch" THEN Stay("locked") /\ UNCHANGED intended
                ELSE Redirect(<<"user", "confirm-password">>) /\ intended' = request.path
             /\ UNCHANGED <<session, confirmed>>

-------------------------------------------------------------------------------
(* The handlers, for a request that has passed its gates.                      *)
Reaches(route, name) == route.name = name /\ Gate(route) = "open"

ReachesOneOf(route, names) == route.name \in names /\ Gate(route) = "open"

(* The remembered address is used once.                                        *)
Intended ==
    /\ Redirect(IF intended = NoAddress THEN <<"dashboard">> ELSE intended)
    /\ intended' = NoAddress

(* The pages that need nothing but their gates, by the name of their route.    *)
PageOf ==
    {<<"home", "welcome">>, <<"login", "auth/login">>, <<"dashboard", "dashboard">>,
     <<"password.request", "auth/forgot-password">>,
     <<"password.reset", "auth/reset-password">>,
     <<"password.confirm", "auth/confirm-password">>,
     <<"devices.index", "devices/index">>, <<"devices.edit", "devices/edit">>,
     <<"configurations.show", "configurations/show">>,
     <<"collection-runs.trace", "collection-runs/trace">>,
     <<"credentials.index", "credentials/index">>, <<"catalog.index", "catalog/index">>,
     <<"models.index", "models/index">>, <<"integrations.index", "integrations/index">>,
     <<"notifications.index", "notifications/index">>,
     <<"data-protection.index", "data-protection/index">>,
     <<"users.index", "users/index">>, <<"audit.index", "audit/index">>,
     <<"updates.index", "updates/index">>, <<"system.index", "system/index">>,
     <<"profile.edit", "settings/profile">>, <<"security.edit", "settings/security">>,
     <<"appearance.edit", "settings/appearance">>}

ShowPage(route) ==
    /\ \E p \in PageOf : Reaches(route, p[1]) /\ Show(p[2])
    /\ UNCHANGED <<Account, Session, changes>>

(* Files, streams and what is fetched.                                         *)
Give(route) ==
    /\ ReachesOneOf(route, {"devices.export", "configurations.download", "configurations.diff",
                            "devices.collection-runs.index", "collection-runs.events", "collection-runs.stream",
                            "collection-runs.trace.download", "updates.operations.show", "tls.status",
                            "two-factor.qr-code", "two-factor.secret-key", "two-factor.recovery-codes"})
    /\ Stay("data")
    /\ UNCHANGED <<Account, Session, changes>>

ShowRegister(route) ==
    /\ Reaches(route, "register")
    /\ IF Claimed THEN Stay("missing") ELSE Show("auth/register")
    /\ UNCHANGED <<Account, Session, changes>>

ShowSetup(route) ==
    /\ Reaches(route, "setup.show")
    /\ IF installed = "ready" THEN Redirect(<<"dashboard">>) ELSE Show("setup")
    /\ UNCHANGED <<Account, Session, changes>>

(* The canonical URL may have been cleared again after the set-up.             *)
ShowTlsActivation(route) ==
    /\ Reaches(route, "tls.activation")
    /\ \/ Redirect(<<>>)
       \/ installed = "ready" /\ Show("tls-activation")
    /\ UNCHANGED <<Account, Session, changes>>

ShowRestore(route) ==
    /\ Reaches(route, "restore.index")
    /\ IF Viewer \in {Nobody, "owner"} THEN Show("restore") ELSE Stay("refused")
    /\ UNCHANGED <<Account, Session, changes>>

ShowChallenge(route) ==
    /\ Reaches(route, "two-factor.login")
    /\ IF session = "challenged" THEN Show("auth/two-factor-challenge") ELSE Redirect(<<"login">>)
    /\ UNCHANGED <<Account, Session, changes>>

ShowVerifyEmail(route) ==
    /\ Reaches(route, "verification.notice")
    /\ \/ Show("auth/verify-email") /\ UNCHANGED intended
       \/ Intended
    /\ UNCHANGED <<Account, session, confirmed, changes>>

(* Registering makes the first user, who is the owner.                         *)
RegisterOwner(route) ==
    /\ Reaches(route, "register.store")
    /\ \/ /\ Back
          /\ UNCHANGED <<Account, Session>>
       \/ /\ ~Claimed
          /\ installed' = "claimed"
          /\ user' = [role |-> "owner", active |-> TRUE]
          /\ session' = "in"
          /\ Intended
          /\ UNCHANGED confirmed
    /\ UNCHANGED changes

(* A wrong password, or a user who is locked out, goes back to the form.       *)
LogIn(route) ==
    /\ Reaches(route, "login.store")
    /\ \/ /\ Back
          /\ UNCHANGED <<session, intended>>
       \/ /\ Claimed /\ user.active
          /\ session' = "in"
          /\ Intended
       \/ /\ Claimed /\ user.active
          /\ session' = "challenged"
          /\ Redirect(<<"two-factor-challenge">>)
          /\ UNCHANGED intended
    /\ UNCHANGED <<Account, confirmed, changes>>

\* Mutation: the middleware does not look again.
LoggedIn_Unchecked == session' = "in" /\ Intended /\ UNCHANGED confirmed

(* The second factor does not look at whether the user is active; the          *)
(* middleware looks again once the handler is done, and ends the session.      *)
LoggedIn ==
    IF user.active
    THEN session' = "in" /\ Intended /\ UNCHANGED confirmed
    ELSE EndSession /\ Redirect(<<"login">>)

PassChallenge(route) ==
    /\ Reaches(route, "two-factor.login.store")
    /\ \/ /\ Redirect(<<"two-factor-challenge">>)
          /\ UNCHANGED Session
       \/ session = "challenged" /\ LoggedIn
    /\ UNCHANGED <<Account, changes>>

LogOut(route) ==
    /\ Reaches(route, "logout")
    /\ EndSession
    /\ Redirect(<<>>)
    /\ UNCHANGED <<Account, changes>>

ResetForgottenPassword(route) ==
    /\ Reaches(route, "password.update")
    /\ Back \/ Redirect(<<"login">>)
    /\ UNCHANGED <<Account, Session, changes>>

ConfirmsPassword(route) ==
    /\ Reaches(route, "password.confirm.store")
    /\ \/ Back /\ UNCHANGED <<confirmed, intended>>
       \/ confirmed' = "recent" /\ Intended
    /\ UNCHANGED <<Account, session, changes>>

StoreSetup(route) ==
    /\ Reaches(route, "setup.store")
    /\ \/ Back /\ UNCHANGED installed
       \/ installed' = "ready" /\ (Redirect(<<"tls-activation">>) \/ Redirect(<<"dashboard">>))
    /\ UNCHANGED <<user, Session, changes>>

(* A new canonical URL ends every session.                                     *)
UpdateSystem(route) ==
    /\ Reaches(route, "system.update")
    /\ \/ Back /\ UNCHANGED Session
       \/ confirmed # "recent" /\ Stay("locked") /\ UNCHANGED Session
       \/ EndSession /\ (Redirect(<<"tls-activation">>) \/ Redirect(<<"login">>))
    /\ UNCHANGED <<Account, changes>>

(* An administrator may take his own role away.                                *)
UpdateUser(route) ==
    /\ Reaches(route, "users.update")
    /\ \/ (Back \/ Stay("invalid")) /\ UNCHANGED user
       \/ /\ Back
          /\ request.path = <<"users", "me">> /\ user.role # "owner"
          /\ \E role \in Roles \ {"owner"} : user' = [user EXCEPT !.role = role]
    /\ UNCHANGED <<installed, Session, changes>>

TransferOwnership(route) ==
    /\ Reaches(route, "users.transfer-ownership")
    /\ \/ Stay("invalid") /\ UNCHANGED user
       \/ Back /\ user' = [user EXCEPT !.role = "administrator"]
    /\ UNCHANGED <<installed, Session, changes>>

UpdateProfile(route) ==
    /\ ReachesOneOf(route, {"profile.update", "settings"})
    /\ Redirect(<<"settings", "profile">>)
    /\ UNCHANGED <<Account, Session, changes>>

Reauthenticate(route) ==
    /\ Reaches(route, "updates.reauthenticate")
    /\ Back
    /\ confirmed' \in {confirmed, "recent"}
    /\ UNCHANGED <<Account, session, intended, changes>>

RunUpdate(route) ==
    /\ Reaches(route, "updates.run")
    /\ Back \/ (confirmed = "recent" /\ Redirect(<<"updates">>))
    /\ UNCHANGED <<Account, Session, changes>>

(* Handlers that look at the confirmation of the password once more, and ask   *)
(* for five minutes where the gate has asked for fifteen: always, or only for  *)
(* what is dangerous.                                                          *)
AlwaysRecent == {"devices.force-collect"}
AtTimesRecent == {"system.dangerous-features.update", "models.publish", "models.test",
                  "models.store", "notifications.channels.store"}
(* Handlers that leave what is dangerous to the owner.                         *)
AtTimesOwner == {"devices.approve", "models.publish", "models.test", "models.store",
                 "notifications.channels.store"}

Does(route) ==
    /\ ReachesOneOf(route, {"locale.update", "password.email", "verification.send", "devices.import",
                            "devices.collect", "devices.diagnostics", "devices.revoke-approval", "devices.store",
                            "devices.update", "devices.destroy", "credentials.store", "credentials.destroy",
                            "catalog.store", "catalog.destroy", "integrations.inventory.store",
                            "integrations.inventory.sync", "notifications.channels.update",
                            "notifications.channels.test", "data-protection.destinations.store",
                            "data-protection.destinations.update", "data-protection.destinations.backup",
                            "data-protection.destinations.mirror", "users.store", "updates.check",
                            "updates.settings", "updates.operations.acknowledge", "user-password.update",
                            "two-factor.enable", "two-factor.confirm", "two-factor.disable",
                            "two-factor.regenerate-recovery-codes"})
    /\ Back \/ Stay("invalid")
    /\ UNCHANGED <<Account, Session, changes>>

DoesCarefully(route) ==
    /\ ReachesOneOf(route, AlwaysRecent \cup AtTimesRecent \cup AtTimesOwner)
    /\ \/ (Back \/ Stay("invalid")) /\ (route.name \in AlwaysRecent => confirmed = "recent")
       \/ Stay("locked") /\ route.name \in AlwaysRecent \cup AtTimesRecent /\ confirmed # "recent"
       \/ Stay("forbidden") /\ route.name \in AtTimesOwner /\ user.role # "owner"
    /\ UNCHANGED <<Account, Session, changes>>

(* A restore is asked for by the owner over a secure connection, or by nobody  *)
(* with the claim token.                                                       *)
StoreRestore(route) ==
    /\ Reaches(route, "restore.store")
    /\ CASE Viewer = Nobody  -> Back
         [] Viewer = "owner" -> \/ Stay("insecure")
                                \/ IF confirmed = "recent" THEN Back ELSE Stay("locked")
         [] OTHER            -> Stay("refused")
    /\ UNCHANGED <<Account, Session, changes>>

Answer(route) ==
    \/ TurnedAway(route) \/ ShowPage(route) \/ Give(route)
    \/ ShowRegister(route) \/ ShowSetup(route) \/ ShowTlsActivation(route)
    \/ ShowRestore(route) \/ ShowChallenge(route) \/ ShowVerifyEmail(route)
    \/ RegisterOwner(route) \/ LogIn(route) \/ PassChallenge(route)
    \/ LogOut(route) \/ ResetForgottenPassword(route)
    \/ ConfirmsPassword(route) \/ StoreSetup(route) \/ UpdateSystem(route)
    \/ UpdateUser(route) \/ TransferOwnership(route) \/ UpdateProfile(route)
    \/ Reauthenticate(route) \/ RunUpdate(route) \/ Does(route)
    \/ DoesCarefully(route) \/ StoreRestore(route)

Serve == request # None /\ Answer(RouteOf(request))

-------------------------------------------------------------------------------
(* The viewer.                                                                 *)
Press ==
    /\ request = None
    /\ page.drawn
    /\ \E offer \in Offers(page.component, page.role, page.claimed) : request' = Ask("offer", 0, offer)
    /\ answer' = Unanswered
    /\ UNCHANGED <<Account, Session, page, changes>>

Open ==
    /\ request = None
    /\ \E path \in Bookmarks : request' = Ask("open", 0, Link(path))
    /\ answer' = Unanswered
    /\ UNCHANGED <<Account, Session, page, changes>>

(* Behind his back.                                                            *)
Happens ==
    /\ changes < MaxChanges
    /\ changes' = changes + 1
    /\ UNCHANGED <<installed, page, request, answer>>

OthersChangeRole ==
    /\ Happens
    /\ installed = "ready" /\ user.role # "owner"
    /\ \E role \in Roles \ {user.role} : user' = [user EXCEPT !.role = role]
    /\ UNCHANGED Session

(* Locking a user out: his row first, his sessions afterwards.  A session that *)
(* waits for the second factor belongs to nobody yet and stays.                *)
Deactivate ==
    /\ Happens
    /\ installed = "ready" /\ user.role # "owner" /\ user.active
    /\ user' = [user EXCEPT !.active = FALSE]
    /\ UNCHANGED Session

RevokeSessions ==
    /\ ~user.active /\ session = "in"
    /\ EndSession
    /\ UNCHANGED <<Account, page, request, answer, changes>>

SessionExpires ==
    /\ Happens
    /\ session # "guest"
    /\ EndSession
    /\ UNCHANGED user

ConfirmationAges ==
    /\ Happens
    /\ \/ confirmed = "recent" /\ confirmed' = "old"
       \/ confirmed = "old" /\ confirmed' = "no"
    /\ UNCHANGED <<user, session, intended>>

Init ==
    /\ installed \in {"fresh", "claimed", "ready"}
    /\ user \in [role : IF installed = "ready" THEN FirstRoles ELSE {"owner"}, active : {TRUE}]
    /\ session = "guest"
    /\ confirmed = "no"
    /\ intended = NoAddress
    /\ page = [component |-> "welcome", path |-> <<>>, role |-> Nobody, claimed |-> Claimed, drawn |-> TRUE]
    /\ request = None
    /\ answer = Unanswered
    /\ changes = 0

Next == Serve \/ Press \/ Open \/ OthersChangeRole \/ Deactivate \/ RevokeSessions
        \/ SessionExpires \/ ConfirmationAges

Spec == Init /\ [][Next]_vars

-------------------------------------------------------------------------------
(* Every variable has its type.                                                *)
TypeOK ==
    /\ installed \in {"fresh", "claimed", "ready"}
    /\ user \in [role : Roles, active : BOOLEAN]
    /\ session \in {"guest", "challenged", "in"}
    /\ confirmed \in {"recent", "old", "no"}
    /\ intended \in Addresses \cup {NoAddress}
    /\ page.component \in Components /\ page.path \in Addresses
    /\ page.role \in Roles \cup {Nobody}
    /\ request # None => request.path \in Addresses
    /\ changes \in 0..MaxChanges

(* What a page offers reaches a handler: while nothing has changed since the   *)
(* page was drawn, no offer of any page is turned away for its viewer's role   *)
(* or for an address or a verb the server does not have.  The conditions       *)
(* under which the pages show a button and the middleware and routes of the    *)
(* server are written in two languages and nothing but this ties them.         *)
OfferedIsAccepted ==
    answer.code \in {"refused", "missing"} => ~answer.offered

(* Every page a viewer is given can be drawn, except the restore page for one  *)
(* who has not signed in: its layout asks for the role of a user.              *)
PagesAreDrawn == ~page.drawn => page.component = "restore" /\ page.role = Nobody

(* An address remembered for after the login or the confirmation is one that   *)
(* can be read: it never repeats a form as a visit.  The one exception is the  *)
(* diagnostic, whose gate remembers its own address although only a form is    *)
(* sent there.                                                                 *)
RememberedIsReadable ==
    intended # NoAddress /\ RouteOfLink[intended].name \in {"404", "405"}
        => intended = <<"devices", "7", "diagnostics">>

(* Nobody who has been locked out gets a session: not even one who was         *)
(* between his password and his second factor when it happened.                *)
LockedOutStaysOut == [][session # "in" /\ session' = "in" => user'.active]_vars

(* No visit is sent round in circles: the gates that redirect to the login,    *)
(* the set-up, the dashboard and the confirmation of the password, and the     *)
(* address remembered in between, lead to an answer within a few redirects,    *)
(* whatever changes on the way.                                                *)
VisitsEnd == request.hops <= MaxHops

-------------------------------------------------------------------------------
(* The generated functions against the routes of the server.  What is asked of *)
(* them depends on no variable and is asked where a session starts.            *)
Starts == request = None /\ answer = Unanswered /\ changes = 0

Sample(parameter) ==
    CASE parameter = "{kind}"      -> "site"
      [] parameter = "{feature}"   -> "telnet"
      [] parameter = "{operation}" -> "uuid"
      [] OTHER                     -> "7"

SampleValues(route) == [i \in DOMAIN ParametersOf(route) |-> Sample(ParametersOf(route)[i])]

NextPage == <<Field("page", Text("2"))>>
Somewhere == <<Entry(<<"page">>, "1"), Entry(<<"filter", "[site]">>, "a")>>

RequestsOf(route) ==
    UNION {{Call(route, verb, SampleValues(route), options, Somewhere),
            Form(route, verb, SampleValues(route), options, Somewhere)} :
              verb \in ToSet(route.methods),
              options \in {NoOptions, Query(NextPage), MergeQuery(NextPage)}}

ArrivesAt(route, r) ==
    LET served == Resolve(r.method, r.path, r.query)
        bound  == Bindings(served, r.path)
    IN /\ route.as \in {served.name, served.handler}
       /\ \A p \in DOMAIN bound : bound[p] = Sample(p)

(* Every generated function still leads where it was generated for: each verb  *)
(* of each, called or put into a form, with or without a query, reaches the    *)
(* route or the handler it is named for, with its arguments in their places.   *)
(* The functions are checked in, and nothing ties them to the routes but the   *)
(* command that wrote them; a form sends only get and post, so every other     *)
(* verb depends on the spoofed one arriving.                                   *)
GeneratedIsServed ==
    Starts => \A route \in Named \cup Actions : \A r \in RequestsOf(route) : ArrivesAt(route, r)

Fields ==
    {Field(key, value) : key \in {"page", "filter"},
                         value \in {Null, Text("2"), ListOf(<<"a", "b">>),
                                    Object(<<Leaf(<<"[site]">>, Text("b")),
                                             Leaf(<<"[tag]", "[kind]">>, ListOf(<<"c">>))>>)}}
FieldsOf(key) == {f \in Fields : f.key = key}
Queries == {<<f>> : f \in Fields} \cup (FieldsOf("page") \X FieldsOf("filter"))

Searches ==
    SeqOf({Entry(<<"page">>, "1"), Entry(<<"sort">>, "name"), Entry(<<"filter", "[]">>, "a"),
           Entry(<<"filter", "[site]">>, "a")}, 3)

(* Merging into the query of the page replaces what is named and nothing else: *)
(* the entries of other names stay, in their order, and of a name that is      *)
(* given nothing old stays, whatever brackets it had.                          *)
MergeKeepsOthers ==
    Starts => \A search \in Searches, query \in Queries :
        LET names  == {query[i].key : i \in DOMAIN query}
            merged == queryParams(MergeQuery(query), search)
            Other(entry) == Family(entry) \notin names
        IN /\ SelectSeq(merged, Other) = SelectSeq(search, Other)
           /\ \A f \in ToSet(query) :
                 LET Own(entry) == Family(entry) = f.key
                 IN SelectSeq(merged, Own) = queryParams(Query(<<f>>), <<>>)
===============================================================================

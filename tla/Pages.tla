--------------------------------- MODULE Pages ---------------------------------
(* The pages of the browser: what each offers its viewer to press, and what it *)
(* asks for by itself.  An offer is a request: a visit replaces the page by    *)
(* the answer, a fetch is answered with data and leaves the page where it is.  *)
(*                                                                             *)
(* Rows are abstracted to one of each kind ("7"), users to those a page can    *)
(* tell apart.  A form is its address: what is typed into it is not modelled.  *)
EXTENDS NamedRoutes, ActionRoutes

Request(by, method, path, query) ==
    [by |-> by, method |-> method, path |-> path, query |-> query]

Visit(method, path) == Request("visit", method, path, <<>>)
Link(path)  == Visit("get", path)
Fetch(path) == Request("fetch", "get", path, <<>>)

(* Pages that use the generated functions: a link or a form built by them.     *)
Built(by, call) == Request(by, call.method, call.path, call.query)
Href(route)    == Built("visit", Call(route, route.methods[1], <<>>, NoOptions, <<>>))
FormOf(route)  == Built("visit", Form(route, route.methods[1], <<>>, NoOptions, <<>>))
FetchOf(route) == Built("fetch", Call(route, "get", <<>>, NoOptions, <<>>))

Nobody == "nobody"
Roles  == {"owner", "administrator", "operator", "viewer"}

IsOwner(role)  == role = "owner"
Manages(role)  == role \in {"owner", "administrator"}
Operates(role) == role \in {"owner", "administrator", "operator"}

If(condition, offers) == IF condition THEN offers ELSE {}

-------------------------------------------------------------------------------
(* What stands around a page: the sidebar with its navigation and the user's   *)
(* menu.                                                                        *)
AppSidebar(role) ==
    {Link(<<p>>) : p \in {"dashboard", "devices"}}
    \cup If(Manages(role),
            {Link(<<p>>) : p \in {"credentials", "catalog", "models", "integrations",
                                  "notifications", "data-protection", "users", "audit", "system"}}
            \cup If(IsOwner(role), {Link(<<"updates">>)}))
    \cup {Link(<<"settings", "profile">>)}

UserMenu == {Href(profile_edit), Href(logout)}

LanguageSelector == {Visit("put", <<"locale">>)}

(* The banner of an update in progress, which only the owner is told of.       *)
UpdateBanner(role) ==
    If(IsOwner(role), {Fetch(<<"updates", "operations", "uuid">>), Link(<<"updates">>)})

SettingsMenu == {Href(profile_edit), Href(security_edit), Href(appearance_edit)}

\* Mutation: the page of the certificate gets the layout of the application.
Layout_AroundTls(component) ==
    CASE component \in {"welcome", "setup"} -> "none"
      [] component \in {"auth/login", "auth/register", "auth/forgot-password", "auth/reset-password",
                        "auth/confirm-password", "auth/two-factor-challenge", "auth/verify-email"} -> "auth"
      [] component \in {"settings/profile", "settings/security", "settings/appearance"} -> "settings"
      [] OTHER -> "app"

(* The layout of a page, by its name.                                          *)
Layout(component) ==
    CASE component \in {"welcome", "setup", "tls-activation"} -> "none"
      [] component \in {"auth/login", "auth/register", "auth/forgot-password", "auth/reset-password",
                        "auth/confirm-password", "auth/two-factor-challenge", "auth/verify-email"} -> "auth"
      [] component \in {"settings/profile", "settings/security", "settings/appearance"} -> "settings"
      [] OTHER -> "app"

Around(component, role) ==
    CASE Layout(component) = "auth" -> {Href(home)} \cup LanguageSelector
      [] Layout(component) \in {"app", "settings"} ->
            AppSidebar(role) \cup UserMenu \cup UpdateBanner(role)
            \cup If(Layout(component) = "settings", SettingsMenu)
      [] OTHER -> {}

-------------------------------------------------------------------------------
(* Before an installation is in use, and for its visitors.                     *)
Welcome(claimed) == {Link(IF claimed THEN <<"login">> ELSE <<"register">>)} \cup LanguageSelector

Setup == {Visit("post", <<"setup">>)} \cup LanguageSelector

TlsActivation == {Fetch(<<"tls-activation", "status">>)} \cup LanguageSelector

Restore == {Visit("post", <<"restore">>)} \cup LanguageSelector

Login(claimed) ==
    {FormOf(login_store), Href(password_request)} \cup If(~claimed, {Href(register)})

Register == {FormOf(register_store)}

ForgotPassword == {FormOf(password_email), Href(login)}

ResetPassword == {FormOf(password_update)}

ConfirmPassword == {FormOf(password_confirm_store)}

TwoFactorChallenge == {FormOf(twoFactor_login_store)}

VerifyEmail == {FormOf(verification_send), Href(logout)}

-------------------------------------------------------------------------------
(* Devices and their collections.                                              *)
Dashboard == {Link(<<"devices">>)}

DevicesToolbar(role) ==
    {Request("visit", "get", <<"devices", "export">>, <<>>),
     Request("visit", "get", <<"devices">>, <<Entry(<<"search">>, "edge")>>)}
    \cup If(Operates(role), {Visit("post", <<"devices", "import">>)})

DeviceRow(role) ==
    {Link(<<"devices", "7", "configuration">>),
     Request("visit", "get", <<"devices", "7", "edit">>, <<Entry(<<"tab">>, "collections")>>)}
    \cup If(Operates(role),
            {Link(<<"devices", "7", "edit">>), Visit("delete", <<"devices", "7">>)})
    \cup If(Manages(role),
            {Visit("post", <<"devices", "7", "approve">>),
             Visit("post", <<"devices", "7", "revoke-approval">>)})

NewDevice(role) == If(Operates(role), {Visit("post", <<"devices">>)})

CollectDialog(role) ==
    If(Operates(role), {Visit("post", <<"devices", "7", "collect">>)})
    \cup If(Manages(role), {Visit("post", <<"devices", "7", "force-collect">>)})

DevicesIndex(role) ==
    DevicesToolbar(role) \cup DeviceRow(role) \cup NewDevice(role) \cup CollectDialog(role)

\* Mutation: the approval is shown to every operator.
EditApproval_Operators(role) ==
    {Link(<<"devices">>)}
    \cup If(Operates(role),
            {Visit("post", <<"devices", "7", "revoke-approval">>),
             Visit("post", <<"devices", "7", "approve">>)})

EditApproval(role) ==
    {Link(<<"devices">>)}
    \cup If(Manages(role),
            {Visit("post", <<"devices", "7", "revoke-approval">>),
             Visit("post", <<"devices", "7", "approve">>)})

EditForm(role) == If(Operates(role), {Visit("put", <<"devices", "7">>)})

CollectionHistory(canDiagnose) ==
    {Fetch(<<"devices", "7", "collection-runs">>),
     Fetch(<<"collection-runs", "7", "events">>),
     Fetch(<<"collection-runs", "7", "stream">>)}
    \cup If(canDiagnose, {Visit("post", <<"devices", "7", "diagnostics">>)})

ArtifactPanel(canAccess) ==
    If(canAccess, {Link(<<"collection-runs", "7", "trace">>),
                   Request("visit", "get", <<"collection-runs", "7", "trace", "download">>, <<>>)})

EditDevice(role) ==
    EditApproval(role) \cup EditForm(role)
    \cup CollectionHistory(Manages(role)) \cup ArtifactPanel(Manages(role))

CollectionTrace ==
    {Link(<<"devices", "7", "edit">>),
     Request("visit", "get", <<"collection-runs", "7", "trace", "download">>, <<>>)}

ConfigurationShow ==
    {Fetch(<<"devices", "7", "configuration", "diff">>),
     Request("visit", "get", <<"devices", "7", "configuration", "download">>, <<>>),
     Request("visit", "get", <<"devices", "7", "edit">>, <<Entry(<<"tab">>, "collections")>>)}

-------------------------------------------------------------------------------
(* Administration.                                                             *)
Credentials == {Visit("post", <<"credentials">>), Visit("delete", <<"credentials", "7">>)}

Catalog ==
    {Visit("post", <<"catalog">>)}
    \cup {Visit("delete", <<"catalog", kind, "7">>) :
            kind \in {"site", "group", "tag", "manufacturer", "hardware_model"}}

CustomModels ==
    {Visit("post", <<"models">>), Visit("post", <<"models", "7", "test">>),
     Visit("post", <<"models", "7", "publish">>)}

Integrations ==
    {Visit("post", <<"integrations", "inventory">>),
     Visit("post", <<"integrations", "inventory", "7", "sync">>)}

Notifications ==
    {Visit("post", <<"notifications", "channels">>),
     Visit("post", <<"notifications", "channels", "7", "test">>),
     Visit("patch", <<"notifications", "channels", "7">>)}

DestinationCard ==
    {Visit("post", <<"data-protection", "destinations", "7", "mirror">>),
     Visit("post", <<"data-protection", "destinations", "7", "backup">>),
     Visit("patch", <<"data-protection", "destinations", "7">>)}

(* The three forms of a new destination send to the same address.              *)
NewDestination == {Visit("post", <<"data-protection", "destinations">>)}

(* The rows a viewer sees: himself, the owner and somebody else.               *)
UserRows(role) ==
    {[id |-> "me", role |-> role], [id |-> "peer", role |-> "operator"]}
    \cup If(role # "owner", {[id |-> "boss", role |-> "owner"]})

UserForm(role, row) ==
    If(IsOwner(role) \/ row.role # "owner", {Visit("put", <<"users", row.id>>)})

TransferButton(role, row) ==
    If(IsOwner(role) /\ row.role # "owner", {Visit("post", <<"users", row.id, "transfer-ownership">>)})

InviteForm == {Visit("post", <<"users">>)}

Users(role) ==
    InviteForm
    \cup UNION {UserForm(role, row) \cup TransferButton(role, row) : row \in UserRows(role)}

Audit == {Request("visit", "get", <<"audit">>, <<Entry(<<"page">>, "2")>>)}

SystemForm == {Visit("put", <<"system">>)}

DangerousFeatures(role) ==
    If(IsOwner(role),
       {Visit("patch", <<"system", "dangerous-features", feature>>) :
            feature \in {"raw_ruby", "telnet", "http_ip_login", "automatic_updates", "unreviewed_drivers"}})

UpdatesCheck == {Visit("post", <<"updates", "check">>), Fetch(<<"updates", "operations", "uuid">>)}

UpdatesAcknowledge == {Visit("post", <<"updates", "operations", "uuid", "acknowledge">>)}

UpdatesPolicy == {Visit("put", <<"updates", "settings">>), Link(<<"system">>)}

UpdateDialog == {Visit("post", <<"updates", "reauthenticate">>), Visit("post", <<"updates", "run">>)}

-------------------------------------------------------------------------------
(* The settings of one's own account.                                          *)
Profile == {FormOf(ProfileController_update)} \cup LanguageSelector

PasswordForm == {FormOf(SecurityController_update)}

(* Where two factors are off the page offers to enable them; the form of the   *)
(* dialog that follows is answered while the set-up is pending.                *)
TwoFactor ==
    {FormOf(twoFactor_disable), FormOf(twoFactor_enable), FormOf(twoFactor_confirm),
     FormOf(twoFactor_regenerateRecoveryCodes)}

TwoFactorFetches ==
    {FetchOf(twoFactor_qrCode), FetchOf(twoFactor_secretKey), FetchOf(twoFactor_recoveryCodes)}

Security == PasswordForm \cup TwoFactor \cup TwoFactorFetches

(* All a page offers to a viewer of a role.                                    *)
Offers(component, role, claimed) ==
    Around(component, role) \cup
    CASE component = "welcome"                 -> Welcome(claimed)
      [] component = "setup"                   -> Setup
      [] component = "tls-activation"          -> TlsActivation
      [] component = "restore"                 -> Restore
      [] component = "auth/login"              -> Login(claimed)
      [] component = "auth/register"           -> Register
      [] component = "auth/forgot-password"    -> ForgotPassword
      [] component = "auth/reset-password"     -> ResetPassword
      [] component = "auth/confirm-password"   -> ConfirmPassword
      [] component = "auth/two-factor-challenge" -> TwoFactorChallenge
      [] component = "auth/verify-email"       -> VerifyEmail
      [] component = "dashboard"               -> Dashboard
      [] component = "devices/index"           -> DevicesIndex(role)
      [] component = "devices/edit"            -> EditDevice(role)
      [] component = "collection-runs/trace"   -> CollectionTrace
      [] component = "configurations/show"     -> ConfigurationShow
      [] component = "credentials/index"       -> Credentials
      [] component = "catalog/index"           -> Catalog
      [] component = "models/index"            -> CustomModels
      [] component = "integrations/index"      -> Integrations
      [] component = "notifications/index"     -> Notifications
      [] component = "data-protection/index"   -> DestinationCard \cup NewDestination
      [] component = "users/index"             -> Users(role)
      [] component = "audit/index"             -> Audit
      [] component = "system/index"            -> SystemForm \cup DangerousFeatures(role)
      [] component = "updates/index"           -> UpdatesCheck \cup UpdatesAcknowledge
                                                  \cup UpdatesPolicy \cup UpdateDialog
      [] component = "settings/profile"        -> Profile
      [] component = "settings/security"       -> Security
      [] component = "settings/appearance"     -> {}
===============================================================================

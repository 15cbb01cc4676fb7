------------------------------ MODULE ServerRoutes ------------------------------
(* The routes of the server and its router: which route a method and a path    *)
(* reach, and through which gates (the middleware) a request must pass.        *)
EXTENDS Wayfinder

(* A route of the server: its name, its handler, what it answers to, and the   *)
(* gates in front of it.                                                       *)
Served(name, handler, methods, path, gates) ==
    [name |-> name, handler |-> handler, methods |-> methods, path |-> path, gates |-> gates]

Member  == {"auth", "setup"}
Staff   == Member \cup {"staff"}
Admins  == Member \cup {"admins"}
Owner   == Member \cup {"owner"}
Confirmed(gates) == gates \cup {"confirm"}
Recent(gates)    == gates \cup {"recent"}

PublicRoutes == <<
    Served("home", "home", GetHead, <<>>, {}),
    Served("locale.update", "LocaleController", Put, <<"locale">>, {}),
    Served("restore.index", "RestoreRequestController::index", GetHead, <<"restore">>, {}),
    Served("restore.store", "RestoreRequestController::store", Post, <<"restore">>, {}),
    Served("tls.activation", "TlsActivationController::show", GetHead, <<"tls-activation">>, {}),
    Served("tls.status", "TlsActivationController::status", GetHead, <<"tls-activation", "status">>, {}),
    Served("internal.caddy.ask", "CaddyDomainController", GetHead, <<"internal", "caddy", "ask">>, {}),
    Served("internal.oxidized.nodes", "OxidizedNodesController", GetHead,
           <<"internal", "oxidized", "nodes">>, {"token"}),
    Served("internal.oxidized.sandbox-nodes", "SandboxNodesController", GetHead,
           <<"internal", "oxidized", "sandbox-nodes">>, {"token"}),
    Served("internal.oxidized.events", "OxidizedEventController", Post,
           <<"internal", "oxidized", "events">>, {"reporter"}),
    Served("internal.oxidized.diagnostics.trace", "OxidizedTraceController", Put,
           <<"internal", "oxidized", "diagnostics", "{deviceUuid}", "trace">>, {"reporter"})>>

\* Mutation: the set-up stands behind the gate that asks for it.
SetupRoutes_Inside == <<
    Served("setup.show", "SetupController::show", GetHead, <<"setup">>, Member),
    Served("setup.store", "SetupController::store", Post, <<"setup">>, {"auth", "owner"})>>

SetupRoutes == <<
    Served("setup.show", "SetupController::show", GetHead, <<"setup">>, {"auth"}),
    Served("setup.store", "SetupController::store", Post, <<"setup">>, {"auth", "owner"})>>

DeviceRoutes == <<
    Served("dashboard", "DashboardController", GetHead, <<"dashboard">>, Member),
    Served("devices.export", "DeviceController::export", GetHead, <<"devices", "export">>, Member),
    Served("devices.import", "DeviceController::import", Post, <<"devices", "import">>, Staff),
    Served("devices.collect", "DeviceController::collect", Post, <<"devices", "{device}", "collect">>, Staff),
    Served("devices.force-collect", "DeviceController::forceCollect", Post,
           <<"devices", "{device}", "force-collect">>, Confirmed(Admins)),
    Served("devices.diagnostics", "DeviceDiagnosticController", Post,
           <<"devices", "{device}", "diagnostics">>, Recent(Admins)),
    Served("devices.approve", "DeviceController::approve", Post,
           <<"devices", "{device}", "approve">>, Confirmed(Admins)),
    Served("devices.revoke-approval", "DeviceController::revoke", Post,
           <<"devices", "{device}", "revoke-approval">>, Confirmed(Admins)),
    Served("devices.index", "DeviceController::index", GetHead, <<"devices">>, Member),
    Served("devices.store", "DeviceController::store", Post, <<"devices">>, Staff),
    Served("devices.edit", "DeviceController::edit", GetHead, <<"devices", "{device}", "edit">>, Member),
    Served("devices.update", "DeviceController::update", PutPatch, <<"devices", "{device}">>, Staff),
    Served("devices.destroy", "DeviceController::destroy", Delete, <<"devices", "{device}">>, Staff)>>

ConfigurationRoutes == <<
    Served("configurations.show", "ConfigurationController::show", GetHead,
           <<"devices", "{device}", "configuration">>, Member),
    Served("configurations.download", "ConfigurationController::download", GetHead,
           <<"devices", "{device}", "configuration", "download">>, Member),
    Served("configurations.diff", "ConfigurationController::diff", GetHead,
           <<"devices", "{device}", "configuration", "diff">>, Member),
    Served("devices.collection-runs.index", "CollectionRunController::index", GetHead,
           <<"devices", "{device}", "collection-runs">>, Member),
    Served("collection-runs.events", "CollectionRunController::events", GetHead,
           <<"collection-runs", "{run}", "events">>, Member),
    Served("collection-runs.stream", "CollectionRunController::stream", GetHead,
           <<"collection-runs", "{run}", "stream">>, Member),
    Served("collection-runs.trace", "CollectionTraceController::show", GetHead,
           <<"collection-runs", "{run}", "trace">>, Recent(Admins)),
    Served("collection-runs.trace.download", "CollectionTraceController::download", GetHead,
           <<"collection-runs", "{run}", "trace", "download">>, Recent(Admins))>>

CatalogRoutes == <<
    Served("credentials.index", "CredentialProfileController::index", GetHead, <<"credentials">>, Admins),
    Served("credentials.store", "CredentialProfileController::store", Post, <<"credentials">>, Admins),
    Served("credentials.update", "CredentialProfileController::update", PutPatch,
           <<"credentials", "{credential}">>, Admins),
    Served("credentials.destroy", "CredentialProfileController::destroy", Delete,
           <<"credentials", "{credential}">>, Admins),
    Served("catalog.index", "CatalogController::index", GetHead, <<"catalog">>, Admins),
    Served("catalog.store", "CatalogController::store", Post, <<"catalog">>, Admins),
    Served("catalog.destroy", "CatalogController::destroy", Delete, <<"catalog", "{kind}", "{id}">>, Admins),
    Served("models.index", "CustomModelController::index", GetHead, <<"models">>, Admins),
    Served("models.store", "CustomModelController::store", Post, <<"models">>, Admins),
    Served("models.update", "CustomModelController::update", PutPatch, <<"models", "{model}">>, Admins),
    Served("models.destroy", "CustomModelController::destroy", Delete, <<"models", "{model}">>, Admins),
    Served("models.publish", "CustomModelController::publish", Post,
           <<"models", "{model}", "publish">>, Confirmed(Admins)),
    Served("models.test", "CustomModelController::test", Post,
           <<"models", "{model}", "test">>, Confirmed(Admins))>>

IntegrationRoutes == <<
    Served("integrations.index", "IntegrationController::index", GetHead, <<"integrations">>, Admins),
    Served("integrations.inventory.store", "IntegrationController::storeInventory", Post,
           <<"integrations", "inventory">>, Admins),
    Served("integrations.inventory.sync", "IntegrationController::syncInventory", Post,
           <<"integrations", "inventory", "{source}", "sync">>, Admins),
    Served("notifications.index", "NotificationChannelController::index", GetHead, <<"notifications">>, Admins),
    Served("notifications.channels.store", "NotificationChannelController::store", Post,
           <<"notifications", "channels">>, Admins),
    Served("notifications.channels.update", "NotificationChannelController::update", Patch,
           <<"notifications", "channels", "{channel}">>, Admins),
    Served("notifications.channels.test", "NotificationChannelController::test", Post,
           <<"notifications", "channels", "{channel}", "test">>, Admins),
    Served("data-protection.index", "DataProtectionController::index", GetHead, <<"data-protection">>, Admins),
    Served("data-protection.destinations.store", "DataProtectionController::store", Post,
           <<"data-protection", "destinations">>, Confirmed(Admins)),
    Served("data-protection.destinations.update", "DataProtectionController::update", Patch,
           <<"data-protection", "destinations", "{destination}">>, Confirmed(Admins)),
    Served("data-protection.destinations.backup", "DataProtectionController::runBackup", Post,
           <<"data-protection", "destinations", "{destination}", "backup">>, Confirmed(Admins)),
    Served("data-protection.destinations.mirror", "DataProtectionController::mirrorGit", Post,
           <<"data-protection", "destinations", "{destination}", "mirror">>, Confirmed(Admins))>>

AdministrationRoutes == <<
    Served("users.index", "UserController::index", GetHead, <<"users">>, Admins),
    Served("users.store", "UserController::store", Post, <<"users">>, Admins),
    Served("users.update", "UserController::update", PutPatch, <<"users", "{user}">>, Confirmed(Admins)),
    Served("users.transfer-ownership", "UserController::transferOwnership", Post,
           <<"users", "{user}", "transfer-ownership">>, Confirmed(Owner)),
    Served("audit.index", "AuditController", GetHead, <<"audit">>, Admins),
    Served("updates.index", "UpdateController::index", GetHead, <<"updates">>, Owner),
    Served("updates.check", "UpdateController::check", Post, <<"updates", "check">>, Owner),
    Served("updates.settings", "UpdateController::settings", Put, <<"updates", "settings">>, Confirmed(Owner)),
    Served("updates.reauthenticate", "UpdateController::reauthenticate", Post,
           <<"updates", "reauthenticate">>, Owner),
    Served("updates.run", "UpdateController::run", Post, <<"updates", "run">>, Owner),
    Served("updates.operations.show", "UpdateController::operation", GetHead,
           <<"updates", "operations", "{operation}">>, Owner),
    Served("updates.operations.acknowledge", "UpdateController::acknowledge", Post,
           <<"updates", "operations", "{operation}", "acknowledge">>, Owner),
    Served("system.index", "SystemSettingsController::index", GetHead, <<"system">>, Admins),
    Served("system.update", "SystemSettingsController::update", Put, <<"system">>, Confirmed(Admins)),
    Served("system.dangerous-features.update", "DangerousFeatureController::update", Patch,
           <<"system", "dangerous-features", "{feature}">>, Confirmed(Owner))>>

SettingsRoutes == <<
    Served("settings", "RedirectController", AnyVerb, <<"settings">>, Member),
    Served("profile.edit", "ProfileController::edit", GetHead, <<"settings", "profile">>, Member),
    Served("profile.update", "ProfileController::update", Patch, <<"settings", "profile">>, Member),
    Served("security.edit", "SecurityController::edit", GetHead, <<"settings", "security">>, Confirmed(Member)),
    Served("user-password.update", "SecurityController::update", Put, <<"settings", "password">>, Member),
    Served("appearance.edit", "InertiaController", GetHead, <<"settings", "appearance">>, Member),
    Served("well-known.passkeys", "well-known", GetHead, <<".well-known", "passkey-endpoints">>, {})>>

(* The routes of Fortify for the features that are switched on.                *)
Auth  == {"auth"}
Guest == {"guest"}

FortifyRoutes == <<
    Served("login", "AuthenticatedSessionController::create", GetHead, <<"login">>, Guest),
    Served("login.store", "AuthenticatedSessionController::store", Post, <<"login">>, Guest),
    Served("logout", "AuthenticatedSessionController::destroy", Post, <<"logout">>, Auth),
    Served("password.request", "PasswordResetLinkController::create", GetHead, <<"forgot-password">>, Guest),
    Served("password.reset", "NewPasswordController::create", GetHead, <<"reset-password", "{token}">>, Guest),
    Served("password.email", "PasswordResetLinkController::store", Post, <<"forgot-password">>, Guest),
    Served("password.update", "NewPasswordController::store", Post, <<"reset-password">>, Guest),
    Served("register", "RegisteredUserController::create", GetHead, <<"register">>, Guest),
    Served("register.store", "RegisteredUserController::store", Post, <<"register">>, Guest),
    Served("verification.notice", "EmailVerificationPromptController", GetHead, <<"email", "verify">>, Auth),
    Served("verification.verify", "VerifyEmailController", GetHead, <<"email", "verify", "{id}", "{hash}">>, Auth),
    Served("verification.send", "EmailVerificationNotificationController::store", Post,
           <<"email", "verification-notification">>, Auth),
    Served("password.confirm", "ConfirmablePasswordController::show", GetHead, <<"user", "confirm-password">>, Auth),
    Served("password.confirmation", "ConfirmedPasswordStatusController::show", GetHead,
           <<"user", "confirmed-password-status">>, Auth),
    Served("password.confirm.store", "ConfirmablePasswordController::store", Post,
           <<"user", "confirm-password">>, Auth),
    Served("two-factor.login", "TwoFactorAuthenticatedSessionController::create", GetHead,
           <<"two-factor-challenge">>, Guest),
    Served("two-factor.login.store", "TwoFactorAuthenticatedSessionController::store", Post,
           <<"two-factor-challenge">>, Guest),
    Served("two-factor.enable", "TwoFactorAuthenticationController::store", Post,
           <<"user", "two-factor-authentication">>, Confirmed(Auth)),
    Served("two-factor.confirm", "ConfirmedTwoFactorAuthenticationController::store", Post,
           <<"user", "confirmed-two-factor-authentication">>, Confirmed(Auth)),
    Served("two-factor.disable", "TwoFactorAuthenticationController::destroy", Delete,
           <<"user", "two-factor-authentication">>, Confirmed(Auth)),
    Served("two-factor.qr-code", "TwoFactorQrCodeController::show", GetHead,
           <<"user", "two-factor-qr-code">>, Confirmed(Auth)),
    Served("two-factor.secret-key", "TwoFactorSecretKeyController::show", GetHead,
           <<"user", "two-factor-secret-key">>, Confirmed(Auth)),
    Served("two-factor.recovery-codes", "RecoveryCodeController::index", GetHead,
           <<"user", "two-factor-recovery-codes">>, Confirmed(Auth)),
    Served("two-factor.regenerate-recovery-codes", "RecoveryCodeController::store", Post,
           <<"user", "two-factor-recovery-codes">>, Confirmed(Auth))>>

(* The routes of the passkey package, and the framework's own file storage.    *)
PasskeyRoutes == <<
    Served("passkey.login-options", "PasskeyLoginController::index", GetHead,
           <<"passkeys", "login", "options">>, Guest),
    Served("passkey.login", "PasskeyLoginController::store", Post, <<"passkeys", "login">>, Guest),
    Served("passkey.confirm-options", "PasskeyConfirmationController::index", GetHead,
           <<"passkeys", "confirm", "options">>, Auth),
    Served("passkey.confirm", "PasskeyConfirmationController::store", Post, <<"passkeys", "confirm">>, Auth),
    Served("passkey.registration-options", "PasskeyRegistrationController::index", GetHead,
           <<"user", "passkeys", "options">>, Confirmed(Auth)),
    Served("passkey.store", "PasskeyRegistrationController::store", Post,
           <<"user", "passkeys">>, Confirmed(Auth)),
    Served("passkey.destroy", "PasskeyRegistrationController::destroy", Delete,
           <<"user", "passkeys", "{passkey}">>, Confirmed(Auth)),
    Served("storage.local", "ServeFile", GetHead, <<"storage", "{path}">>, {}),
    Served("storage.local.upload", "ReceiveFile", Put, <<"storage", "{path}">>, {})>>

Routes == PublicRoutes \o SetupRoutes \o DeviceRoutes \o ConfigurationRoutes
          \o CatalogRoutes \o IntegrationRoutes \o AdministrationRoutes
          \o SettingsRoutes \o FortifyRoutes \o PasskeyRoutes

-------------------------------------------------------------------------------
(* The router: a parameter takes any one segment, except those a route limits  *)
(* to a set of values; the first route registered for the method and the path  *)
(* wins.  A post request whose query names another verb counts as that verb.   *)
Kinds    == {"site", "group", "tag", "manufacturer", "hardware_model"}
Features == {"raw_ruby", "telnet", "http_ip_login", "automatic_updates", "unreviewed_drivers"}
Uuids    == {"uuid"}

Allowed(segment, text) ==
    /\ segment = "{kind}"    => text \in Kinds
    /\ segment = "{feature}" => text \in Features
    /\ segment \in {"{operation}", "{deviceUuid}"} => text \in Uuids

ServerParameters == Parameters \cup {"{run}", "{deviceUuid}"}

Fits(segment, text) == segment = text \/ (segment \in ServerParameters /\ Allowed(segment, text))

MatchesPath(route, path) ==
    /\ Len(route.path) = Len(path)
    /\ \A i \in DOMAIN path : Fits(route.path[i], path[i])

Verbs == {"put", "patch", "delete", "post"}

EffectiveMethod(method, query) ==
    LET spoof == {query[i].text : i \in {j \in DOMAIN query : query[j].key = <<"_method">>}}
    IN IF method = "post" /\ spoof \cap Verbs # {} THEN CHOOSE verb \in spoof : verb \in Verbs
       ELSE method

NoRoute == Served("404", "404", <<>>, <<>>, {})
NotAllowed == Served("405", "405", <<>>, <<>>, {})

Resolve(method, path, query) ==
    LET verb  == EffectiveMethod(method, query)
        There == {i \in DOMAIN Routes : MatchesPath(Routes[i], path)}
        Hits  == {i \in There : verb \in ToSet(Routes[i].methods)}
    IN IF Hits # {} THEN Routes[CHOOSE i \in Hits : \A j \in Hits : i <= j]
       ELSE IF There # {} THEN NotAllowed ELSE NoRoute

Bindings(route, path) ==
    LET At == {i \in DOMAIN path : route.path[i] \in ServerParameters}
    IN [p \in {route.path[i] : i \in At} |-> path[CHOOSE i \in At : route.path[i] = p]]
===============================================================================

------------------------------ MODULE ActionRoutes ----------------------------
(* The route functions generated under resources/js/actions, one definition    *)
(* per function: the controller method it stands for, its verbs and its path.  *)
(* What the function, its verbs and its form variants build from that is       *)
(* Wayfinder's Call and Form.                                                   *)
EXTENDS Wayfinder

(* actions/App/Http/Controllers/AuditController.ts *)
AuditController == RouteDefinition("AuditController", GetHead, <<"audit">>)

(* actions/App/Http/Controllers/CatalogController.ts *)
CatalogController_index == RouteDefinition("CatalogController::index", GetHead, <<"catalog">>)
CatalogController_store == RouteDefinition("CatalogController::store", Post, <<"catalog">>)
CatalogController_destroy ==
    RouteDefinition("CatalogController::destroy", Delete, <<"catalog", "{kind}", "{id}">>)

(* actions/App/Http/Controllers/ConfigurationController.ts *)
ConfigurationController_show ==
    RouteDefinition("ConfigurationController::show", GetHead, <<"devices", "{device}", "configuration">>)
ConfigurationController_download ==
    RouteDefinition("ConfigurationController::download", GetHead, <<"devices", "{device}", "configuration", "download">>)
ConfigurationController_diff ==
    RouteDefinition("ConfigurationController::diff", GetHead, <<"devices", "{device}", "configuration", "diff">>)

(* actions/App/Http/Controllers/CredentialProfileController.ts *)
CredentialProfileController_index ==
    RouteDefinition("CredentialProfileController::index", GetHead, <<"credentials">>)
CredentialProfileController_store ==
    RouteDefinition("CredentialProfileController::store", Post, <<"credentials">>)
CredentialProfileController_update ==
    RouteDefinition("CredentialProfileController::update", PutPatch, <<"credentials", "{credential}">>)
CredentialProfileController_destroy ==
    RouteDefinition("CredentialProfileController::destroy", Delete, <<"credentials", "{credential}">>)

(* actions/App/Http/Controllers/CustomModelController.ts *)
CustomModelController_index ==
    RouteDefinition("CustomModelController::index", GetHead, <<"models">>)
CustomModelController_store ==
    RouteDefinition("CustomModelController::store", Post, <<"models">>)
CustomModelController_update ==
    RouteDefinition("CustomModelController::update", PutPatch, <<"models", "{model}">>)
CustomModelController_destroy ==
    RouteDefinition("CustomModelController::destroy", Delete, <<"models", "{model}">>)
CustomModelController_publish ==
    RouteDefinition("CustomModelController::publish", Post, <<"models", "{model}", "publish">>)
CustomModelController_test ==
    RouteDefinition("CustomModelController::test", Post, <<"models", "{model}", "test">>)

(* actions/App/Http/Controllers/DangerousFeatureController.ts *)
DangerousFeatureController_update ==
    RouteDefinition("DangerousFeatureController::update", Patch, <<"system", "dangerous-features", "{feature}">>)

(* actions/App/Http/Controllers/DashboardController.ts *)
DashboardController == RouteDefinition("DashboardController", GetHead, <<"dashboard">>)

(* actions/App/Http/Controllers/DataProtectionController.ts *)
DataProtectionController_index ==
    RouteDefinition("DataProtectionController::index", GetHead, <<"data-protection">>)
DataProtectionController_store ==
    RouteDefinition("DataProtectionController::store", Post, <<"data-protection", "destinations">>)
DataProtectionController_update ==
    RouteDefinition("DataProtectionController::update", Patch, <<"data-protection", "destinations", "{destination}">>)
DataProtectionController_runBackup ==
    RouteDefinition("DataProtectionController::runBackup", Post, <<"data-protection", "destinations", "{destination}", "backup">>)
DataProtectionController_mirrorGit ==
    RouteDefinition("DataProtectionController::mirrorGit", Post, <<"data-protection", "destinations", "{destination}", "mirror">>)

(* actions/App/Http/Controllers/DeviceController.ts *)
DeviceController_export ==
    RouteDefinition("DeviceController::export", GetHead, <<"devices", "export">>)
DeviceController_import ==
    RouteDefinition("DeviceController::import", Post, <<"devices", "import">>)
DeviceController_collect ==
    RouteDefinition("DeviceController::collect", Post, <<"devices", "{device}", "collect">>)
DeviceController_forceCollect ==
    RouteDefinition("DeviceController::forceCollect", Post, <<"devices", "{device}", "force-collect">>)
DeviceController_approve ==
    RouteDefinition("DeviceController::approve", Post, <<"devices", "{device}", "approve">>)
DeviceController_revoke ==
    RouteDefinition("DeviceController::revoke", Post, <<"devices", "{device}", "revoke-approval">>)
DeviceController_index == RouteDefinition("DeviceController::index", GetHead, <<"devices">>)
DeviceController_store == RouteDefinition("DeviceController::store", Post, <<"devices">>)
DeviceController_edit ==
    RouteDefinition("DeviceController::edit", GetHead, <<"devices", "{device}", "edit">>)
DeviceController_update ==
    RouteDefinition("DeviceController::update", PutPatch, <<"devices", "{device}">>)
DeviceController_destroy ==
    RouteDefinition("DeviceController::destroy", Delete, <<"devices", "{device}">>)

(* actions/App/Http/Controllers/IntegrationController.ts *)
IntegrationController_index ==
    RouteDefinition("IntegrationController::index", GetHead, <<"integrations">>)
IntegrationController_storeInventory ==
    RouteDefinition("IntegrationController::storeInventory", Post, <<"integrations", "inventory">>)
IntegrationController_syncInventory ==
    RouteDefinition("IntegrationController::syncInventory", Post, <<"integrations", "inventory", "{source}", "sync">>)

(* actions/App/Http/Controllers/Internal/CaddyDomainController.ts *)
CaddyDomainController ==
    RouteDefinition("CaddyDomainController", GetHead, <<"internal", "caddy", "ask">>)

(* actions/App/Http/Controllers/Internal/OxidizedNodesController.ts *)
OxidizedNodesController ==
    RouteDefinition("OxidizedNodesController", GetHead, <<"internal", "oxidized", "nodes">>)

(* actions/App/Http/Controllers/Internal/SandboxNodesController.ts *)
SandboxNodesController ==
    RouteDefinition("SandboxNodesController", GetHead, <<"internal", "oxidized", "sandbox-nodes">>)

(* actions/App/Http/Controllers/LocaleController.ts *)
LocaleController == RouteDefinition("LocaleController", Put, <<"locale">>)

(* actions/App/Http/Controllers/NotificationChannelController.ts *)
NotificationChannelController_index ==
    RouteDefinition("NotificationChannelController::index", GetHead, <<"notifications">>)
NotificationChannelController_store ==
    RouteDefinition("NotificationChannelController::store", Post, <<"notifications", "channels">>)
NotificationChannelController_update ==
    RouteDefinition("NotificationChannelController::update", Patch, <<"notifications", "channels", "{channel}">>)
NotificationChannelController_test ==
    RouteDefinition("NotificationChannelController::test", Post, <<"notifications", "channels", "{channel}", "test">>)

(* actions/App/Http/Controllers/RestoreRequestController.ts *)
RestoreRequestController_index ==
    RouteDefinition("RestoreRequestController::index", GetHead, <<"restore">>)
RestoreRequestController_store ==
    RouteDefinition("RestoreRequestController::store", Post, <<"restore">>)

(* actions/App/Http/Controllers/Settings/ProfileController.ts *)
ProfileController_edit ==
    RouteDefinition("ProfileController::edit", GetHead, <<"settings", "profile">>)
ProfileController_update ==
    RouteDefinition("ProfileController::update", Patch, <<"settings", "profile">>)

(* actions/App/Http/Controllers/Settings/SecurityController.ts *)
SecurityController_edit ==
    RouteDefinition("SecurityController::edit", GetHead, <<"settings", "security">>)
SecurityController_update ==
    RouteDefinition("SecurityController::update", Put, <<"settings", "password">>)

(* actions/App/Http/Controllers/SetupController.ts *)
SetupController_show == RouteDefinition("SetupController::show", GetHead, <<"setup">>)
SetupController_store == RouteDefinition("SetupController::store", Post, <<"setup">>)

(* actions/App/Http/Controllers/SystemSettingsController.ts *)
SystemSettingsController_index ==
    RouteDefinition("SystemSettingsController::index", GetHead, <<"system">>)
SystemSettingsController_update ==
    RouteDefinition("SystemSettingsController::update", Put, <<"system">>)

(* actions/App/Http/Controllers/TlsActivationController.ts *)
TlsActivationController_show ==
    RouteDefinition("TlsActivationController::show", GetHead, <<"tls-activation">>)
TlsActivationController_status ==
    RouteDefinition("TlsActivationController::status", GetHead, <<"tls-activation", "status">>)

(* actions/App/Http/Controllers/UpdateController.ts *)
UpdateController_index == RouteDefinition("UpdateController::index", GetHead, <<"updates">>)
UpdateController_check ==
    RouteDefinition("UpdateController::check", Post, <<"updates", "check">>)
UpdateController_settings ==
    RouteDefinition("UpdateController::settings", Put, <<"updates", "settings">>)
UpdateController_run == RouteDefinition("UpdateController::run", Post, <<"updates", "run">>)
UpdateController_operation ==
    RouteDefinition("UpdateController::operation", GetHead, <<"updates", "operations", "{operation}">>)

(* actions/App/Http/Controllers/UserController.ts *)
UserController_index == RouteDefinition("UserController::index", GetHead, <<"users">>)
UserController_store == RouteDefinition("UserController::store", Post, <<"users">>)
UserController_update ==
    RouteDefinition("UserController::update", PutPatch, <<"users", "{user}">>)
UserController_transferOwnership ==
    RouteDefinition("UserController::transferOwnership", Post, <<"users", "{user}", "transfer-ownership">>)

(* actions/Illuminate/Routing/RedirectController.ts *)
RedirectController == RouteDefinition("RedirectController", AnyVerb, <<"settings">>)

(* actions/Inertia/Controller.ts *)
InertiaController == RouteDefinition("InertiaController", GetHead, <<"settings", "appearance">>)

(* actions/Laravel/Fortify/Http/Controllers/AuthenticatedSessionController.ts *)
AuthenticatedSessionController_create ==
    RouteDefinition("AuthenticatedSessionController::create", GetHead, <<"login">>)
AuthenticatedSessionController_store ==
    RouteDefinition("AuthenticatedSessionController::store", Post, <<"login">>)
AuthenticatedSessionController_destroy ==
    RouteDefinition("AuthenticatedSessionController::destroy", Post, <<"logout">>)

(* actions/Laravel/Fortify/Http/Controllers/ConfirmablePasswordController.ts *)
ConfirmablePasswordController_show ==
    RouteDefinition("ConfirmablePasswordController::show", GetHead, <<"user", "confirm-password">>)
ConfirmablePasswordController_store ==
    RouteDefinition("ConfirmablePasswordController::store", Post, <<"user", "confirm-password">>)

(* actions/Laravel/Fortify/Http/Controllers/ConfirmedPasswordStatusController.ts *)
ConfirmedPasswordStatusController_show ==
    RouteDefinition("ConfirmedPasswordStatusController::show", GetHead, <<"user", "confirmed-password-status">>)

(* actions/Laravel/Fortify/Http/Controllers/ConfirmedTwoFactorAuthenticationController.ts *)
ConfirmedTwoFactorAuthenticationController_store ==
    RouteDefinition("ConfirmedTwoFactorAuthenticationController::store", Post, <<"user", "confirmed-two-factor-authentication">>)

(* actions/Laravel/Fortify/Http/Controllers/EmailVerificationNotificationController.ts *)
EmailVerificationNotificationController_store ==
    RouteDefinition("EmailVerificationNotificationController::store", Post, <<"email", "verification-notification">>)

(* actions/Laravel/Fortify/Http/Controllers/EmailVerificationPromptController.ts *)
EmailVerificationPromptController ==
    RouteDefinition("EmailVerificationPromptController", GetHead, <<"email", "verify">>)

(* actions/Laravel/Fortify/Http/Controllers/NewPasswordController.ts *)
NewPasswordController_create ==
    RouteDefinition("NewPasswordController::create", GetHead, <<"reset-password", "{token}">>)
NewPasswordController_store ==
    RouteDefinition("NewPasswordController::store", Post, <<"reset-password">>)

(* actions/Laravel/Fortify/Http/Controllers/PasswordResetLinkController.ts *)
PasswordResetLinkController_create ==
    RouteDefinition("PasswordResetLinkController::create", GetHead, <<"forgot-password">>)
PasswordResetLinkController_store ==
    RouteDefinition("PasswordResetLinkController::store", Post, <<"forgot-password">>)

(* actions/Laravel/Fortify/Http/Controllers/RecoveryCodeController.ts *)
RecoveryCodeController_index ==
    RouteDefinition("RecoveryCodeController::index", GetHead, <<"user", "two-factor-recovery-codes">>)
RecoveryCodeController_store ==
    RouteDefinition("RecoveryCodeController::store", Post, <<"user", "two-factor-recovery-codes">>)

(* actions/Laravel/Fortify/Http/Controllers/RegisteredUserController.ts *)
RegisteredUserController_create ==
    RouteDefinition("RegisteredUserController::create", GetHead, <<"register">>)
RegisteredUserController_store ==
    RouteDefinition("RegisteredUserController::store", Post, <<"register">>)

(* actions/Laravel/Fortify/Http/Controllers/TwoFactorAuthenticatedSessionController.ts *)
TwoFactorAuthenticatedSessionController_create ==
    RouteDefinition("TwoFactorAuthenticatedSessionController::create", GetHead, <<"two-factor-challenge">>)
TwoFactorAuthenticatedSessionController_store ==
    RouteDefinition("TwoFactorAuthenticatedSessionController::store", Post, <<"two-factor-challenge">>)

(* actions/Laravel/Fortify/Http/Controllers/TwoFactorAuthenticationController.ts *)
TwoFactorAuthenticationController_store ==
    RouteDefinition("TwoFactorAuthenticationController::store", Post, <<"user", "two-factor-authentication">>)
TwoFactorAuthenticationController_destroy ==
    RouteDefinition("TwoFactorAuthenticationController::destroy", Delete, <<"user", "two-factor-authentication">>)

(* actions/Laravel/Fortify/Http/Controllers/TwoFactorQrCodeController.ts *)
TwoFactorQrCodeController_show ==
    RouteDefinition("TwoFactorQrCodeController::show", GetHead, <<"user", "two-factor-qr-code">>)

(* actions/Laravel/Fortify/Http/Controllers/TwoFactorSecretKeyController.ts *)
TwoFactorSecretKeyController_show ==
    RouteDefinition("TwoFactorSecretKeyController::show", GetHead, <<"user", "two-factor-secret-key">>)

(* actions/Laravel/Fortify/Http/Controllers/VerifyEmailController.ts *)
VerifyEmailController ==
    RouteDefinition("VerifyEmailController", GetHead, <<"email", "verify", "{id}", "{hash}">>)

(* actions/Laravel/Passkeys/Http/Controllers/PasskeyConfirmationController.ts *)
PasskeyConfirmationController_index ==
    RouteDefinition("PasskeyConfirmationController::index", GetHead, <<"passkeys", "confirm", "options">>)
PasskeyConfirmationController_store ==
    RouteDefinition("PasskeyConfirmationController::store", Post, <<"passkeys", "confirm">>)

(* actions/Laravel/Passkeys/Http/Controllers/PasskeyLoginController.ts *)
PasskeyLoginController_index ==
    RouteDefinition("PasskeyLoginController::index", GetHead, <<"passkeys", "login", "options">>)
PasskeyLoginController_store ==
    RouteDefinition("PasskeyLoginController::store", Post, <<"passkeys", "login">>)

(* actions/Laravel/Passkeys/Http/Controllers/PasskeyRegistrationController.ts *)
PasskeyRegistrationController_index ==
    RouteDefinition("PasskeyRegistrationController::index", GetHead, <<"user", "passkeys", "options">>)
PasskeyRegistrationController_store ==
    RouteDefinition("PasskeyRegistrationController::store", Post, <<"user", "passkeys">>)
PasskeyRegistrationController_destroy ==
    RouteDefinition("PasskeyRegistrationController::destroy", Delete, <<"user", "passkeys", "{passkey}">>)

(* Every function of the directory. *)
Actions ==
    {AuditController, CatalogController_index, CatalogController_store,
     CatalogController_destroy, ConfigurationController_show,
     ConfigurationController_download, ConfigurationController_diff,
     CredentialProfileController_index, CredentialProfileController_store,
     CredentialProfileController_update, CredentialProfileController_destroy,
     CustomModelController_index, CustomModelController_store,
     CustomModelController_update, CustomModelController_destroy,
     CustomModelController_publish, CustomModelController_test,
     DangerousFeatureController_update, DashboardController,
     DataProtectionController_index, DataProtectionController_store,
     DataProtectionController_update, DataProtectionController_runBackup,
     DataProtectionController_mirrorGit, DeviceController_export,
     DeviceController_import, DeviceController_collect,
     DeviceController_forceCollect, DeviceController_approve,
     DeviceController_revoke, DeviceController_index, DeviceController_store,
     DeviceController_edit, DeviceController_update,
     DeviceController_destroy, IntegrationController_index,
     IntegrationController_storeInventory,
     IntegrationController_syncInventory, CaddyDomainController,
     OxidizedNodesController, SandboxNodesController, LocaleController,
     NotificationChannelController_index,
     NotificationChannelController_store,
     NotificationChannelController_update,
     NotificationChannelController_test, RestoreRequestController_index,
     RestoreRequestController_store, ProfileController_edit,
     ProfileController_update, SecurityController_edit,
     SecurityController_update, SetupController_show, SetupController_store,
     SystemSettingsController_index, SystemSettingsController_update,
     TlsActivationController_show, TlsActivationController_status,
     UpdateController_index, UpdateController_check,
     UpdateController_settings, UpdateController_run,
     UpdateController_operation, UserController_index, UserController_store,
     UserController_update, UserController_transferOwnership,
     RedirectController, InertiaController,
     AuthenticatedSessionController_create,
     AuthenticatedSessionController_store,
     AuthenticatedSessionController_destroy,
     ConfirmablePasswordController_show, ConfirmablePasswordController_store,
     ConfirmedPasswordStatusController_show,
     ConfirmedTwoFactorAuthenticationController_store,
     EmailVerificationNotificationController_store,
     EmailVerificationPromptController, NewPasswordController_create,
     NewPasswordController_store, PasswordResetLinkController_create,
     PasswordResetLinkController_store, RecoveryCodeController_index,
     RecoveryCodeController_store, RegisteredUserController_create,
     RegisteredUserController_store,
     TwoFactorAuthenticatedSessionController_create,
     TwoFactorAuthenticatedSessionController_store,
     TwoFactorAuthenticationController_store,
     TwoFactorAuthenticationController_destroy,
     TwoFactorQrCodeController_show, TwoFactorSecretKeyController_show,
     VerifyEmailController, PasskeyConfirmationController_index,
     PasskeyConfirmationController_store, PasskeyLoginController_index,
     PasskeyLoginController_store, PasskeyRegistrationController_index,
     PasskeyRegistrationController_store,
     PasskeyRegistrationController_destroy}
===============================================================================

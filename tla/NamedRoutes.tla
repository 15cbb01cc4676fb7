------------------------------ MODULE NamedRoutes -----------------------------
(* The route functions generated under resources/js/routes, one definition per *)
(* function: the name of the route it stands for, its verbs and its path. What *)
(* the function, its verbs and its form variants build from that is            *)
(* Wayfinder's Call and Form.                                                   *)
EXTENDS Wayfinder

(* routes/appearance/index.ts *)
appearance_edit == RouteDefinition("appearance.edit", GetHead, <<"settings", "appearance">>)

(* routes/audit/index.ts *)
audit_index == RouteDefinition("audit.index", GetHead, <<"audit">>)

(* routes/catalog/index.ts *)
catalog_index == RouteDefinition("catalog.index", GetHead, <<"catalog">>)
catalog_store == RouteDefinition("catalog.store", Post, <<"catalog">>)
catalog_destroy == RouteDefinition("catalog.destroy", Delete, <<"catalog", "{kind}", "{id}">>)

(* routes/configurations/index.ts *)
configurations_show ==
    RouteDefinition("configurations.show", GetHead, <<"devices", "{device}", "configuration">>)
configurations_download ==
    RouteDefinition("configurations.download", GetHead, <<"devices", "{device}", "configuration", "download">>)
configurations_diff ==
    RouteDefinition("configurations.diff", GetHead, <<"devices", "{device}", "configuration", "diff">>)

(* routes/credentials/index.ts *)
credentials_index == RouteDefinition("credentials.index", GetHead, <<"credentials">>)
credentials_store == RouteDefinition("credentials.store", Post, <<"credentials">>)
credentials_update ==
    RouteDefinition("credentials.update", PutPatch, <<"credentials", "{credential}">>)
credentials_destroy ==
    RouteDefinition("credentials.destroy", Delete, <<"credentials", "{credential}">>)

(* routes/data-protection/destinations/index.ts *)
dataProtection_destinations_store ==
    RouteDefinition("data-protection.destinations.store", Post, <<"data-protection", "destinations">>)
dataProtection_destinations_update ==
    RouteDefinition("data-protection.destinations.update", Patch, <<"data-protection", "destinations", "{destination}">>)
dataProtection_destinations_backup ==
    RouteDefinition("data-protection.destinations.backup", Post, <<"data-protection", "destinations", "{destination}", "backup">>)
dataProtection_destinations_mirror ==
    RouteDefinition("data-protection.destinations.mirror", Post, <<"data-protection", "destinations", "{destination}", "mirror">>)

(* routes/data-protection/index.ts *)
dataProtection_index == RouteDefinition("data-protection.index", GetHead, <<"data-protection">>)

(* routes/devices/index.ts *)
devices_export == RouteDefinition("devices.export", GetHead, <<"devices", "export">>)
devices_import == RouteDefinition("devices.import", Post, <<"devices", "import">>)
devices_collect ==
    RouteDefinition("devices.collect", Post, <<"devices", "{device}", "collect">>)
devices_forceCollect ==
    RouteDefinition("devices.force-collect", Post, <<"devices", "{device}", "force-collect">>)
devices_approve ==
    RouteDefinition("devices.approve", Post, <<"devices", "{device}", "approve">>)
devices_revokeApproval ==
    RouteDefinition("devices.revoke-approval", Post, <<"devices", "{device}", "revoke-approval">>)
devices_index == RouteDefinition("devices.index", GetHead, <<"devices">>)
devices_store == RouteDefinition("devices.store", Post, <<"devices">>)
devices_edit == RouteDefinition("devices.edit", GetHead, <<"devices", "{device}", "edit">>)
devices_update == RouteDefinition("devices.update", PutPatch, <<"devices", "{device}">>)
devices_destroy == RouteDefinition("devices.destroy", Delete, <<"devices", "{device}">>)

(* routes/index.ts *)
login == RouteDefinition("login", GetHead, <<"login">>)
logout == RouteDefinition("logout", Post, <<"logout">>)
register == RouteDefinition("register", GetHead, <<"register">>)
home == RouteDefinition("home", GetHead, <<>>)
dashboard == RouteDefinition("dashboard", GetHead, <<"dashboard">>)

(* routes/integrations/index.ts *)
integrations_index == RouteDefinition("integrations.index", GetHead, <<"integrations">>)

(* routes/integrations/inventory/index.ts *)
integrations_inventory_store ==
    RouteDefinition("integrations.inventory.store", Post, <<"integrations", "inventory">>)
integrations_inventory_sync ==
    RouteDefinition("integrations.inventory.sync", Post, <<"integrations", "inventory", "{source}", "sync">>)

(* routes/internal/caddy/index.ts *)
internal_caddy_ask ==
    RouteDefinition("internal.caddy.ask", GetHead, <<"internal", "caddy", "ask">>)

(* routes/internal/oxidized/index.ts *)
internal_oxidized_nodes ==
    RouteDefinition("internal.oxidized.nodes", GetHead, <<"internal", "oxidized", "nodes">>)
internal_oxidized_sandboxNodes ==
    RouteDefinition("internal.oxidized.sandbox-nodes", GetHead, <<"internal", "oxidized", "sandbox-nodes">>)

(* routes/locale/index.ts *)
locale_update == RouteDefinition("locale.update", Put, <<"locale">>)

(* routes/login/index.ts *)
login_store == RouteDefinition("login.store", Post, <<"login">>)

(* routes/models/index.ts *)
models_index == RouteDefinition("models.index", GetHead, <<"models">>)
models_store == RouteDefinition("models.store", Post, <<"models">>)
models_update == RouteDefinition("models.update", PutPatch, <<"models", "{model}">>)
models_destroy == RouteDefinition("models.destroy", Delete, <<"models", "{model}">>)
models_publish == RouteDefinition("models.publish", Post, <<"models", "{model}", "publish">>)
models_test == RouteDefinition("models.test", Post, <<"models", "{model}", "test">>)

(* routes/notifications/channels/index.ts *)
notifications_channels_store ==
    RouteDefinition("notifications.channels.store", Post, <<"notifications", "channels">>)
notifications_channels_update ==
    RouteDefinition("notifications.channels.update", Patch, <<"notifications", "channels", "{channel}">>)
notifications_channels_test ==
    RouteDefinition("notifications.channels.test", Post, <<"notifications", "channels", "{channel}", "test">>)

(* routes/notifications/index.ts *)
notifications_index == RouteDefinition("notifications.index", GetHead, <<"notifications">>)

(* routes/passkey/index.ts *)
passkey_loginOptions ==
    RouteDefinition("passkey.login-options", GetHead, <<"passkeys", "login", "options">>)
passkey_login == RouteDefinition("passkey.login", Post, <<"passkeys", "login">>)
passkey_confirmOptions ==
    RouteDefinition("passkey.confirm-options", GetHead, <<"passkeys", "confirm", "options">>)
passkey_confirm == RouteDefinition("passkey.confirm", Post, <<"passkeys", "confirm">>)
passkey_registrationOptions ==
    RouteDefinition("passkey.registration-options", GetHead, <<"user", "passkeys", "options">>)
passkey_store == RouteDefinition("passkey.store", Post, <<"user", "passkeys">>)
passkey_destroy ==
    RouteDefinition("passkey.destroy", Delete, <<"user", "passkeys", "{passkey}">>)

(* routes/password/confirm/index.ts *)
password_confirm_store ==
    RouteDefinition("password.confirm.store", Post, <<"user", "confirm-password">>)

(* routes/password/index.ts *)
password_request == RouteDefinition("password.request", GetHead, <<"forgot-password">>)
password_reset == RouteDefinition("password.reset", GetHead, <<"reset-password", "{token}">>)
password_email == RouteDefinition("password.email", Post, <<"forgot-password">>)
password_update == RouteDefinition("password.update", Post, <<"reset-password">>)
password_confirm == RouteDefinition("password.confirm", GetHead, <<"user", "confirm-password">>)
password_confirmation ==
    RouteDefinition("password.confirmation", GetHead, <<"user", "confirmed-password-status">>)

(* routes/profile/index.ts *)
profile_edit == RouteDefinition("profile.edit", GetHead, <<"settings", "profile">>)
profile_update == RouteDefinition("profile.update", Patch, <<"settings", "profile">>)

(* routes/register/index.ts *)
register_store == RouteDefinition("register.store", Post, <<"register">>)

(* routes/restore/index.ts *)
restore_index == RouteDefinition("restore.index", GetHead, <<"restore">>)
restore_store == RouteDefinition("restore.store", Post, <<"restore">>)

(* routes/security/index.ts *)
security_edit == RouteDefinition("security.edit", GetHead, <<"settings", "security">>)

(* routes/setup/index.ts *)
setup_show == RouteDefinition("setup.show", GetHead, <<"setup">>)
setup_store == RouteDefinition("setup.store", Post, <<"setup">>)

(* routes/storage/index.ts *)
storage_local == RouteDefinition("storage.local", GetHead, <<"storage", "{path}">>)

(* routes/storage/local/index.ts *)
storage_local_upload == RouteDefinition("storage.local.upload", Put, <<"storage", "{path}">>)

(* routes/system/dangerous-features/index.ts *)
system_dangerousFeatures_update ==
    RouteDefinition("system.dangerous-features.update", Patch, <<"system", "dangerous-features", "{feature}">>)

(* routes/system/index.ts *)
system_index == RouteDefinition("system.index", GetHead, <<"system">>)
system_update == RouteDefinition("system.update", Put, <<"system">>)

(* routes/tls/index.ts *)
tls_activation == RouteDefinition("tls.activation", GetHead, <<"tls-activation">>)
tls_status == RouteDefinition("tls.status", GetHead, <<"tls-activation", "status">>)

(* routes/two-factor/index.ts *)
twoFactor_login == RouteDefinition("two-factor.login", GetHead, <<"two-factor-challenge">>)
twoFactor_enable ==
    RouteDefinition("two-factor.enable", Post, <<"user", "two-factor-authentication">>)
twoFactor_confirm ==
    RouteDefinition("two-factor.confirm", Post, <<"user", "confirmed-two-factor-authentication">>)
twoFactor_disable ==
    RouteDefinition("two-factor.disable", Delete, <<"user", "two-factor-authentication">>)
twoFactor_qrCode ==
    RouteDefinition("two-factor.qr-code", GetHead, <<"user", "two-factor-qr-code">>)
twoFactor_secretKey ==
    RouteDefinition("two-factor.secret-key", GetHead, <<"user", "two-factor-secret-key">>)
twoFactor_recoveryCodes ==
    RouteDefinition("two-factor.recovery-codes", GetHead, <<"user", "two-factor-recovery-codes">>)
twoFactor_regenerateRecoveryCodes ==
    RouteDefinition("two-factor.regenerate-recovery-codes", Post, <<"user", "two-factor-recovery-codes">>)

(* routes/two-factor/login/index.ts *)
twoFactor_login_store ==
    RouteDefinition("two-factor.login.store", Post, <<"two-factor-challenge">>)

(* routes/updates/index.ts *)
updates_index == RouteDefinition("updates.index", GetHead, <<"updates">>)
updates_check == RouteDefinition("updates.check", Post, <<"updates", "check">>)
updates_settings == RouteDefinition("updates.settings", Put, <<"updates", "settings">>)
updates_run == RouteDefinition("updates.run", Post, <<"updates", "run">>)

(* routes/updates/operations/index.ts *)
updates_operations_show ==
    RouteDefinition("updates.operations.show", GetHead, <<"updates", "operations", "{operation}">>)

(* routes/user-password/index.ts *)
userPassword_update == RouteDefinition("user-password.update", Put, <<"settings", "password">>)

(* routes/users/index.ts *)
users_index == RouteDefinition("users.index", GetHead, <<"users">>)
users_store == RouteDefinition("users.store", Post, <<"users">>)
users_update == RouteDefinition("users.update", PutPatch, <<"users", "{user}">>)
users_transferOwnership ==
    RouteDefinition("users.transfer-ownership", Post, <<"users", "{user}", "transfer-ownership">>)

(* routes/verification/index.ts *)
verification_notice == RouteDefinition("verification.notice", GetHead, <<"email", "verify">>)
verification_verify ==
    RouteDefinition("verification.verify", GetHead, <<"email", "verify", "{id}", "{hash}">>)
verification_send ==
    RouteDefinition("verification.send", Post, <<"email", "verification-notification">>)

(* routes/well-known/index.ts *)
wellKnown_passkeys ==
    RouteDefinition("well-known.passkeys", GetHead, <<".well-known", "passkey-endpoints">>)

(* Every function of the directory. *)
Named ==
    {appearance_edit, audit_index, catalog_index, catalog_store,
     catalog_destroy, configurations_show, configurations_download,
     configurations_diff, credentials_index, credentials_store,
     credentials_update, credentials_destroy,
     dataProtection_destinations_store, dataProtection_destinations_update,
     dataProtection_destinations_backup, dataProtection_destinations_mirror,
     dataProtection_index, devices_export, devices_import, devices_collect,
     devices_forceCollect, devices_approve, devices_revokeApproval,
     devices_index, devices_store, devices_edit, devices_update,
     devices_destroy, login, logout, register, home, dashboard,
     integrations_index, integrations_inventory_store,
     integrations_inventory_sync, internal_caddy_ask,
     internal_oxidized_nodes, internal_oxidized_sandboxNodes, locale_update,
     login_store, models_index, models_store, models_update, models_destroy,
     models_publish, models_test, notifications_channels_store,
     notifications_channels_update, notifications_channels_test,
     notifications_index, passkey_loginOptions, passkey_login,
     passkey_confirmOptions, passkey_confirm, passkey_registrationOptions,
     passkey_store, passkey_destroy, password_confirm_store,
     password_request, password_reset, password_email, password_update,
     password_confirm, password_confirmation, profile_edit, profile_update,
     register_store, restore_index, restore_store, security_edit, setup_show,
     setup_store, storage_local, storage_local_upload,
     system_dangerousFeatures_update, system_index, system_update,
     tls_activation, tls_status, twoFactor_login, twoFactor_enable,
     twoFactor_confirm, twoFactor_disable, twoFactor_qrCode,
     twoFactor_secretKey, twoFactor_recoveryCodes,
     twoFactor_regenerateRecoveryCodes, twoFactor_login_store, updates_index,
     updates_check, updates_settings, updates_run, updates_operations_show,
     userPassword_update, users_index, users_store, users_update,
     users_transferOwnership, verification_notice, verification_verify,
     verification_send, wellKnown_passkeys}
===============================================================================

----------------------------- MODULE AccountApi ------------------------------
(*****************************************************************************)
(* Who may do what, and what a caller sees of itself: identities, roles and  *)
(* permissions, notifications, onboarding, the audit log, API keys, the      *)
(* platform administration, addresses and tax rates, the firm and the        *)
(* invites to it.                                                            *)
(*****************************************************************************)
EXTENDS HttpSteps


----------------------------------------------------------------------------
(* internal/identity *)

Memberships == In("identity", InTx(Nothing))
RoleInFirm == In("identity", InTx(May({"no membership"})))
GetPreferences == In("identity", Reads)
PatchPreferences ==
  In("identity", May({"ErrInvalidPreferences"}) \o Reads
    \o OneTx("user_preferences"))
ResolveOrCreateUser == In("identity", OneTx("users"))
handleMe == Handler(User \o Memberships, NoAnswers, 200)
handleRoleInFirm ==
  Handler(Inputs({"firmID"}) \o User \o Blamed("identity", "no membership",
    RoleInFirm), Answers("identity", 403, {"no membership"}), 200)
handleGetPreferences == Handler(User \o GetPreferences, NoAnswers, 200)
handlePatchPreferences ==
  Handler(User \o Inputs({"body"}) \o PatchPreferences, Answers("identity",
    400, {"ErrInvalidPreferences"}), 200)

----------------------------------------------------------------------------
(* internal/permission *)

GetFirmPermissionAudit == In("permission", InTx(Member \o Owner))
GetFirmPermissionCatalog ==
  In("permission", GetFirmPermissionAudit \o InTx(Nothing))
checkRoleIsGrantable ==
  In("permission", May({"ErrRoleNotFound", "ErrOwnerRoleImmutable"}))
GrantPermission ==
  In("permission", InTx(Member \o Owner \o checkRoleIsGrantable
    \o May({"ErrPermissionKeyNotFound"}) \o Put({"role_permissions"})
    \o Audit))
RevokePermission ==
  In("permission", InTx(Member \o Owner \o checkRoleIsGrantable
    \o Put({"role_permissions"}) \o Audit))
CheckMembership == In("permission", InTx(Member))
CreateRole ==
  In("permission", May({"ErrInvalidRoleKey", "ErrInvalidRoleName"})
    \o InTx(Member \o Owner \o Put({"roles"}) \o May({"ErrRoleKeyExists"})
    \o Audit))
RenameRole ==
  In("permission", May({"ErrInvalidRoleName"}) \o InTx(Member \o Owner
    \o checkRoleIsGrantable \o Put({"roles"}) \o Audit))
DeleteRole ==
  In("permission", InTx(Member \o Owner \o checkRoleIsGrantable
    \o May({"ErrRoleHasMembers"}) \o Put({"roles"}) \o Audit))
ListMembers == In("permission", InTx(Member))
writeAuditError ==
  Answers("permission", 404, {"ErrFirmNotFound", "ErrRoleNotFound"}) @@
    Answers("permission", 403, {"ErrNotOwner"}) @@
    Answers("permission", 400, {"ErrOwnerRoleImmutable",
    "ErrPermissionKeyNotFound", "ErrInvalidRoleKey", "ErrInvalidRoleName"}) @@
    Answers("permission", 409, {"ErrRoleKeyExists", "ErrRoleHasMembers"})
handleGetAudit ==
  Handler(Inputs({"firmID"}) \o User \o GetFirmPermissionAudit,
    writeAuditError, 200)
handleGetCatalog ==
  Handler(Inputs({"firmID"}) \o User \o GetFirmPermissionCatalog,
    writeAuditError, 200)
handleGrant ==
  Handler(Inputs({"firmID", "roleID", "key"}) \o User \o GrantPermission
    \o Tell, writeAuditError, 204)
permissionHandleRevoke ==
  Handler(Inputs({"firmID", "roleID", "key"}) \o User \o RevokePermission
    \o Tell, writeAuditError, 204)
handleEvents ==
  Handler(Inputs({"firmID"}) \o User \o CheckMembership, writeAuditError, 200)
handleCreateRole ==
  Handler(Inputs({"firmID", "body"}) \o User \o CreateRole, writeAuditError,
    201)
handleRenameRole ==
  Handler(Inputs({"firmID", "roleID", "body"}) \o User \o RenameRole,
    writeAuditError, 204)
handleDeleteRole ==
  Handler(Inputs({"firmID", "roleID"}) \o User \o DeleteRole, writeAuditError,
    204)
handleListMembers ==
  Handler(Inputs({"firmID"}) \o User \o ListMembers, writeAuditError, 200)

----------------------------------------------------------------------------
(* internal/notification *)

CreateTx == In("notification", Put({"notifications"}))
ListForUser == In("notification", InTx(Member))
UnreadCount == In("notification", InTx(Member))
MarkRead ==
  In("notification", InTx(Member \o Put({"notifications"})
    \o May({"ErrNotificationNotFound"})))
writeNotificationError ==
  Answers("notification", 404, {"ErrFirmNotFound", "ErrNotificationNotFound"})
handleListNotifications ==
  Handler(Caller \o Inputs({"filters"}) \o ListForUser,
    writeNotificationError, 200)
handleUnreadCount == Handler(Caller \o UnreadCount, writeNotificationError, 200)
handleMarkRead ==
  Handler(Caller \o Inputs({"id"}) \o MarkRead, writeNotificationError, 204)

----------------------------------------------------------------------------
(* internal/notificationprefs *)

notificationprefsList == In("notificationprefs", InTx(Member))
notificationprefsUpdate ==
  In("notificationprefs", InTx(Member \o Holds("ErrForbidden")
    \o Maybe(Put({"firm_notification_preferences"})))
    \o notificationprefsList)
notificationprefsWriteError ==
  Answers("notificationprefs", 404, {"ErrFirmNotFound"}) @@
    Answers("notificationprefs", 403, {"ErrForbidden"})
notificationprefsHandleList ==
  Handler(Caller \o notificationprefsList, notificationprefsWriteError, 200)
notificationprefsHandleUpdate ==
  Handler(Caller \o Inputs({"body", "notificationType"})
    \o notificationprefsUpdate, notificationprefsWriteError, 200)

----------------------------------------------------------------------------
(* internal/useractivity *)

useractivityList == In("useractivity", InTx(Member))
useractivityWriteError == Answers("useractivity", 404, {"ErrFirmNotFound"})
useractivityHandleList ==
  Handler(Inputs({"firmID", "filters"}) \o User \o useractivityList,
    useractivityWriteError, 200)

----------------------------------------------------------------------------
(* internal/onboarding *)

getOrCreateProgressTx ==
  In("onboarding", Maybe(Put({"user_onboarding_progress"})))
GetProgress == In("onboarding", InTx(Member \o getOrCreateProgressTx))
Dismiss ==
  In("onboarding", InTx(Member \o getOrCreateProgressTx
    \o Put({"user_onboarding_progress"})))
CompleteStep ==
  In("onboarding", Aside(InTx(getOrCreateProgressTx
    \o Put({"user_onboarding_progress"}))))
writeOnboardingError == Answers("onboarding", 404, {"ErrFirmNotFound"})
handleGetProgress == Handler(Caller \o GetProgress, writeOnboardingError, 200)
handleDismiss == Handler(Caller \o Dismiss, writeOnboardingError, 200)

----------------------------------------------------------------------------
(* internal/auditlog *)

RegisterReadPermissionTx ==
  In("auditlog", Put({"permissions", "role_permissions"}))
auditlogList == In("auditlog", InTx(Member \o Holds("ErrPermissionDenied")))
auditlogWriteError ==
  Answers("auditlog", 404, {"ErrFirmNotFound"}) @@
    Answers("auditlog", 403, {"ErrPermissionDenied"})
auditlogHandleList ==
  Handler(Inputs({"firmID", "filters"}) \o User \o auditlogList,
    auditlogWriteError, 200)

----------------------------------------------------------------------------
(* internal/apikey *)

CreateAPIKey ==
  In("apikey", May({"ErrInvalidAPIKey"}) \o InTx(Member \o Owner
    \o May({"ErrScopeExceedsPermissions"}) \o Put({"api_keys"}) \o Audit))
ListAPIKeys == In("apikey", InTx(Member \o Owner))
RevokeAPIKey ==
  In("apikey", InTx(Member \o Owner \o Put({"api_keys"})
    \o May({"ErrKeyNotFound"}) \o Audit))
RotateAPIKey ==
  In("apikey", InTx(Member \o Owner \o Put({"api_keys"})
    \o May({"ErrKeyNotFound"}) \o Audit))
writeAPIKeyError ==
  Answers("apikey", 404, {"ErrFirmNotFound", "ErrKeyNotFound"}) @@
    Answers("apikey", 403, {"ErrNotOwner"}) @@
    Answers("apikey", 400, {"ErrInvalidAPIKey", "ErrScopeExceedsPermissions"})
handleListAPIKeys == Handler(Caller \o ListAPIKeys, writeAPIKeyError, 200)
handleCreateAPIKey ==
  Handler(Caller \o Inputs({"body"}) \o CreateAPIKey, writeAPIKeyError, 201)
handleRevokeAPIKey ==
  Handler(Caller \o Inputs({"keyID"}) \o RevokeAPIKey, writeAPIKeyError, 204)
handleRotateAPIKey ==
  Handler(Caller \o Inputs({"keyID"}) \o RotateAPIKey, writeAPIKeyError, 200)

----------------------------------------------------------------------------
(* internal/platformadmin *)

listFirmsBasic == In("platformadmin", Reads)
firmCountsAndAuditTx == In("platformadmin", InTx(Audit))
ListFirms ==
  In("platformadmin", May({"ErrNotPlatformAdmin"}) \o MayOf("license",
    {"ErrDenied"}) \o User \o Reads \o Maybe(firmCountsAndAuditTx))
handleListFirms ==
  Handler(Allowed \o ListFirms, Answers("platformadmin", 404,
    {"ErrNotPlatformAdmin"}) @@
    Answers("license", 503, {"ErrDenied"}), 200)

----------------------------------------------------------------------------
(* internal/localization *)

CreateAddress ==
  In("localization", May({"ErrInvalidAddress"}) \o InTx(Member \o Owner
    \o Put({"addresses"})))
ListAddresses == In("localization", InTx(Member))
UpdateAddress ==
  In("localization", May({"ErrInvalidAddress"}) \o InTx(Member \o Owner
    \o Put({"addresses"}) \o May({"ErrAddressNotFound"})))
DeleteAddress ==
  In("localization", InTx(Member \o Owner \o Put({"addresses"})
    \o May({"ErrAddressNotFound"})))
ListFiscalCountryConfigs == In("localization", Reads)
GetFiscalCountryConfig ==
  In("localization", Reads \o May({"ErrFiscalCountryConfigNotFound"}))
UpsertFiscalCountryConfig ==
  In("localization", May({"ErrInvalidFiscalCountryConfig"})
    \o OneTx("fiscal_country_configs"))
DeleteFiscalCountryConfig ==
  In("localization", OneTxOr("fiscal_country_configs",
    {"ErrFiscalCountryConfigNotFound"}))
CreateTaxRate ==
  In("localization", May({"ErrInvalidTaxRate"}) \o InTx(Member \o Owner
    \o Put({"tax_rates"})))
ListTaxRates == In("localization", InTx(Member))
UpdateTaxRate ==
  In("localization", May({"ErrInvalidTaxRate"}) \o InTx(Member \o Owner
    \o Put({"tax_rates"}) \o May({"ErrTaxRateNotFound"})))
DeleteTaxRate ==
  In("localization", InTx(Member \o Owner \o Put({"tax_rates"})
    \o May({"ErrTaxRateNotFound"})))
writeLocalizationError ==
  Answers("localization", 404, {"ErrFirmNotFound", "ErrAddressNotFound",
    "ErrTaxRateNotFound", "ErrFiscalCountryConfigNotFound"}) @@
    Answers("localization", 403, {"ErrNotOwner"}) @@
    Answers("localization", 400, {"ErrInvalidAddress", "ErrInvalidTaxRate",
    "ErrInvalidFiscalCountryConfig"})
handleListAddresses ==
  Handler(Caller \o ListAddresses, writeLocalizationError, 200)
handleCreateAddress ==
  Handler(Caller \o Inputs({"body"}) \o CreateAddress, writeLocalizationError,
    201)
handleUpdateAddress ==
  Handler(Caller \o Inputs({"addressID", "body"}) \o UpdateAddress,
    writeLocalizationError, 200)
handleDeleteAddress ==
  Handler(Caller \o Inputs({"addressID"}) \o DeleteAddress,
    writeLocalizationError, 204)
handleListTaxRates ==
  Handler(Caller \o ListTaxRates, writeLocalizationError, 200)
handleCreateTaxRate ==
  Handler(Caller \o Inputs({"body"}) \o CreateTaxRate, writeLocalizationError,
    201)
handleUpdateTaxRate ==
  Handler(Caller \o Inputs({"taxRateID", "body"}) \o UpdateTaxRate,
    writeLocalizationError, 200)
handleDeleteTaxRate ==
  Handler(Caller \o Inputs({"taxRateID"}) \o DeleteTaxRate,
    writeLocalizationError, 204)
handleListFiscalCountryConfigs ==
  Handler(ListFiscalCountryConfigs, writeLocalizationError, 200)
handleGetFiscalCountryConfig ==
  Handler(GetFiscalCountryConfig, writeLocalizationError, 200)
handleUpsertFiscalCountryConfig ==
  Handler(Allowed \o Inputs({"body"}) \o UpsertFiscalCountryConfig,
    writeLocalizationError, 201)
handleDeleteFiscalCountryConfig ==
  Handler(Allowed \o DeleteFiscalCountryConfig, writeLocalizationError, 204)

----------------------------------------------------------------------------
(* internal/firm *)

firmUpdate ==
  In("firm", May({"ErrInvalidName", "ErrMetadataTooLong"}) \o InTx(Member
    \o OwnerOr("ErrPermissionDenied") \o Put({"firms"}) \o Audit))
Get == In("firm", InTx(Member))
firmWriteError ==
  Answers("firm", 404, {"ErrFirmNotFound"}) @@
    Answers("firm", 403, {"ErrPermissionDenied"}) @@
    Answers("firm", 400, {"ErrInvalidName", "ErrMetadataTooLong"})
handleGet == Handler(Inputs({"firmID"}) \o User \o Get, firmWriteError, 200)
firmHandleUpdate ==
  Handler(Inputs({"firmID", "body"}) \o User \o firmUpdate \o Get,
    firmWriteError, 200)

----------------------------------------------------------------------------
(* internal/invite *)

Generate ==
  In("invite", InTx(Member \o OwnerOr("ErrPermissionDenied")
    \o May({"ErrRoleNotFound"}) \o Put({"firm_invites"}) \o Audit)
    \o CompleteStep)
inviteList == In("invite", InTx(Member \o OwnerOr("ErrPermissionDenied")))
Revoke ==
  In("invite", InTx(Member \o OwnerOr("ErrPermissionDenied")
    \o May({"ErrInviteNotFound", "ErrInviteNotPending"})
    \o Put({"firm_invites"}) \o Audit))
Lookup == In("invite", InTx(May({"ErrInviteNotFound"})))
Accept ==
  In("invite", InTx(May({"ErrInviteNotFound", "ErrInviteUsed",
    "ErrInviteRevoked", "ErrInviteExpired", "ErrInviteNotPending"})
    \o Put({"user_firm_roles", "firm_invites"}) \o Audit))
inviteWriteError ==
  Answers("invite", 404, {"ErrFirmNotFound", "ErrInviteNotFound"}) @@
    Answers("invite", 403, {"ErrPermissionDenied"}) @@
    Answers("invite", 400, {"ErrRoleNotFound"}) @@
    Answers("invite", 410, {"ErrInviteExpired"}) @@
    Answers("invite", 409, {"ErrInviteUsed", "ErrInviteRevoked",
    "ErrInviteNotPending"})
handleGenerate ==
  Handler(Inputs({"firmID", "body"}) \o User \o Generate, inviteWriteError,
    201)
inviteHandleList ==
  Handler(Inputs({"firmID"}) \o User \o inviteList, inviteWriteError, 200)
inviteHandleRevoke ==
  Handler(Inputs({"firmID", "inviteID"}) \o User \o Revoke, inviteWriteError,
    204)
handleLookup == Handler(Inputs({"token"}) \o Lookup, inviteWriteError, 200)
handleAccept ==
  Handler(Inputs({"token"}) \o User \o Accept, inviteWriteError, 200)

----------------------------------------------------------------------------
(* RegisterRoutes of each package. *)

identityRoutes ==
  Of("identity", [handleMe |-> handleMe,
    handleRoleInFirm |-> handleRoleInFirm,
    handleGetPreferences |-> handleGetPreferences,
    handlePatchPreferences |-> handlePatchPreferences])
permissionRoutes ==
  Of("permission", [handleGetAudit |-> handleGetAudit,
    handleGetCatalog |-> handleGetCatalog, handleGrant |-> handleGrant,
    permissionHandleRevoke |-> permissionHandleRevoke,
    handleEvents |-> handleEvents, handleCreateRole |-> handleCreateRole,
    handleRenameRole |-> handleRenameRole,
    handleDeleteRole |-> handleDeleteRole,
    handleListMembers |-> handleListMembers])
notificationRoutes ==
  Of("notification", [handleListNotifications |-> handleListNotifications,
    handleUnreadCount |-> handleUnreadCount,
    handleMarkRead |-> handleMarkRead])
notificationprefsRoutes ==
  Of("notificationprefs",
    [notificationprefsHandleList |-> notificationprefsHandleList,
    notificationprefsHandleUpdate |-> notificationprefsHandleUpdate])
useractivityRoutes ==
  Of("useractivity", [useractivityHandleList |-> useractivityHandleList])
onboardingRoutes ==
  Of("onboarding", [handleGetProgress |-> handleGetProgress,
    handleDismiss |-> handleDismiss])
auditlogRoutes == Of("auditlog", [auditlogHandleList |-> auditlogHandleList])
apikeyRoutes ==
  Of("apikey", [handleListAPIKeys |-> handleListAPIKeys,
    handleCreateAPIKey |-> handleCreateAPIKey,
    handleRevokeAPIKey |-> handleRevokeAPIKey,
    handleRotateAPIKey |-> handleRotateAPIKey])
platformadminRoutes ==
  Of("platformadmin", [handleListFirms |-> handleListFirms])
localizationRoutes ==
  Of("localization", [handleListAddresses |-> handleListAddresses,
    handleCreateAddress |-> handleCreateAddress,
    handleUpdateAddress |-> handleUpdateAddress,
    handleDeleteAddress |-> handleDeleteAddress,
    handleListTaxRates |-> handleListTaxRates,
    handleCreateTaxRate |-> handleCreateTaxRate,
    handleUpdateTaxRate |-> handleUpdateTaxRate,
    handleDeleteTaxRate |-> handleDeleteTaxRate,
    handleListFiscalCountryConfigs |-> Open(handleListFiscalCountryConfigs),
    handleGetFiscalCountryConfig |-> Open(handleGetFiscalCountryConfig),
    handleUpsertFiscalCountryConfig |-> handleUpsertFiscalCountryConfig,
    handleDeleteFiscalCountryConfig |-> handleDeleteFiscalCountryConfig])
firmRoutes ==
  Of("firm", [handleGet |-> handleGet, firmHandleUpdate |-> firmHandleUpdate])
inviteRoutes ==
  Of("invite", [handleGenerate |-> handleGenerate,
    inviteHandleList |-> inviteHandleList,
    inviteHandleRevoke |-> inviteHandleRevoke,
    handleLookup |-> Open(handleLookup), handleAccept |-> handleAccept])
Routes ==
  identityRoutes @@
    permissionRoutes @@
    notificationRoutes @@
    notificationprefsRoutes @@
    useractivityRoutes @@
    onboardingRoutes @@
    auditlogRoutes @@
    apikeyRoutes @@
    platformadminRoutes @@
    localizationRoutes @@
    firmRoutes @@
    inviteRoutes
==============================================================================

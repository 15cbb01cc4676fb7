----------------------- MODULE WebSession_offers_proofs -----------------------
(* What a page offers is accepted.  The conditions under which the pages show  *)
(* a button and the role gates of the routes are compared path by path: a path *)
(* tells which role its routes can ask for, each table of routes keeps to      *)
(* that, and each page offers a role only paths that this role is let through  *)
(* to.  An induction over the session then shows that a page is only ever open *)
(* for the role it is for.                                                     *)
EXTENDS WebSession_proofs

-------------------------------------------------------------------------------
(* The role that a path is for, and what is known of every route: the gates    *)
(* it has are those of its path.                                               *)
OwnersWords == {"setup", "updates"}
AdminsWords == {"credentials", "catalog", "models", "integrations", "notifications",
                "data-protection", "users", "audit", "system"}
UsersWords  == {"dashboard", "devices", "collection-runs", "settings", "logout", "email", "user",
                "passkeys", "setup"}
               \cup AdminsWords \cup OwnersWords
AdminsTails == {"force-collect", "diagnostics", "approve", "revoke-approval"}

ForOwner(path) ==
    \/ Len(path) >= 1 /\ path[1] \in OwnersWords
    \/ Len(path) = 3 /\ path[1] = "users" /\ path[3] = "transfer-ownership"
    \/ Len(path) = 3 /\ path[1] = "system"

ForAdmins(path) ==
    \/ Len(path) >= 1 /\ path[1] \in AdminsWords
    \/ Len(path) = 3 /\ path[1] = "devices" /\ path[3] \in AdminsTails
    \/ Len(path) \in {3, 4} /\ path[1] = "collection-runs" /\ path[3] = "trace"

ForStaff(path) == Len(path) >= 1 /\ path[1] = "devices"

ForUsers(path) == Len(path) >= 1 /\ path[1] \in UsersWords

Writes == {Post, Put, Patch, PutPatch, Delete}

(* A gate of a route is one its path tells of.                                 *)
Judged(route) ==
    /\ "owner" \in route.gates => "auth" \in route.gates /\ ForOwner(route.path)
    /\ "admins" \in route.gates => "auth" \in route.gates /\ ForAdmins(route.path)
    /\ "staff" \in route.gates => "auth" \in route.gates /\ ForStaff(route.path) /\ route.methods \in Writes
    /\ "auth" \in route.gates => ForUsers(route.path)

(* And what is known of routes by their names.                                 *)
ManagersRoutes ==
    {"collection-runs.trace", "credentials.index", "catalog.index", "models.index", "integrations.index",
     "notifications.index", "data-protection.index", "users.index", "audit.index", "system.index"}

Called(route) ==
    /\ route.name \in ManagersRoutes => "auth" \in route.gates /\ "admins" \in route.gates
    /\ route.name = "updates.index" => "auth" \in route.gates /\ "owner" \in route.gates
    /\ route.name = "setup.show" => "auth" \in route.gates
    /\ route.name \in {"users.update", "users.transfer-ownership"} => "setup" \in route.gates
    /\ route.name = "register" => route.path = <<"register">>
    /\ route.name \in {"restore.index", "restore.store"} => route.path = <<"restore">>

Known(route) == Judged(route) /\ Called(route)

LEMMA UsersPaths ==
    /\ \A a \in UsersWords : ForUsers(<<a>>)
    /\ \A a \in UsersWords : \A b : ForUsers(<<a, b>>)
    /\ \A a \in UsersWords : \A b, c : ForUsers(<<a, b, c>>)
    /\ \A a \in UsersWords : \A b, c, d : ForUsers(<<a, b, c, d>>)
BY DEF ForUsers

LEMMA StaffPaths ==
    /\ ForStaff(<<"devices">>)
    /\ \A b : ForStaff(<<"devices", b>>)
    /\ \A b, c : ForStaff(<<"devices", b, c>>)
BY DEF ForStaff

LEMMA AdminsPaths ==
    /\ \A a \in AdminsWords : ForAdmins(<<a>>)
    /\ \A a \in AdminsWords : \A b : ForAdmins(<<a, b>>)
    /\ \A a \in AdminsWords : \A b, c : ForAdmins(<<a, b, c>>)
    /\ \A a \in AdminsWords : \A b, c, d : ForAdmins(<<a, b, c, d>>)
    /\ \A b : \A c \in AdminsTails : ForAdmins(<<"devices", b, c>>)
    /\ \A b : ForAdmins(<<"collection-runs", b, "trace">>)
    /\ \A b, d : ForAdmins(<<"collection-runs", b, "trace", d>>)
BY DEF ForAdmins

LEMMA OwnersPaths ==
    /\ \A a \in OwnersWords : ForOwner(<<a>>)
    /\ \A a \in OwnersWords : \A b : ForOwner(<<a, b>>)
    /\ \A a \in OwnersWords : \A b, c : ForOwner(<<a, b, c>>)
    /\ \A a \in OwnersWords : \A b, c, d : ForOwner(<<a, b, c, d>>)
    /\ \A b : ForOwner(<<"users", b, "transfer-ownership">>)
    /\ \A b, c : ForOwner(<<"system", b, c>>)
BY DEF ForOwner

LEMMA JudgedOpen ==
    ASSUME NEW name, NEW handler, NEW methods, NEW path,
           NEW gates \in {{}, Guest, {"token"}, {"reporter"}}
    PROVE  Judged(Served(name, handler, methods, path, gates))
BY DEF Judged, Served, Guest

LEMMA JudgedUsers ==
    ASSUME NEW name, NEW handler, NEW methods, NEW path, ForUsers(path),
           NEW gates \in {Auth, Member, Confirmed(Auth), Confirmed(Member)}
    PROVE  Judged(Served(name, handler, methods, path, gates))
BY DEF Judged, Served, Auth, Member, Confirmed

LEMMA JudgedStaff ==
    ASSUME NEW name, NEW handler, NEW methods \in Writes, NEW path, ForStaff(path), ForUsers(path)
    PROVE  Judged(Served(name, handler, methods, path, Staff))
BY DEF Judged, Served, Staff, Member

LEMMA JudgedAdmins ==
    ASSUME NEW name, NEW handler, NEW methods, NEW path, ForAdmins(path), ForUsers(path),
           NEW gates \in {Admins, Confirmed(Admins), Recent(Admins)}
    PROVE  Judged(Served(name, handler, methods, path, gates))
BY DEF Judged, Served, Admins, Member, Confirmed, Recent

LEMMA JudgedOwner ==
    ASSUME NEW name, NEW handler, NEW methods, NEW path, ForOwner(path), ForUsers(path),
           NEW gates \in {Owner, Confirmed(Owner), {"auth", "owner"}}
    PROVE  Judged(Served(name, handler, methods, path, gates))
BY DEF Judged, Served, Owner, Member, Confirmed

-------------------------------------------------------------------------------
(* Every route of every table is known.                                        *)
LEMMA PublicRoutes_Known == \A route \in ElementsOf(PublicRoutes) : Known(route)
<1>. USE DEF PublicRoutes
<1>1. DOMAIN PublicRoutes = 1..11
  OBVIOUS
<1>2. /\ Judged(PublicRoutes[1]) /\ Judged(PublicRoutes[2]) /\ Judged(PublicRoutes[3])
      /\ Judged(PublicRoutes[4])
  BY JudgedOpen
<1>3. /\ Judged(PublicRoutes[5]) /\ Judged(PublicRoutes[6]) /\ Judged(PublicRoutes[7])
      /\ Judged(PublicRoutes[8])
  BY JudgedOpen
<1>4. Judged(PublicRoutes[9]) /\ Judged(PublicRoutes[10]) /\ Judged(PublicRoutes[11])
  BY JudgedOpen
<1>5. /\ Called(PublicRoutes[1]) /\ Called(PublicRoutes[2]) /\ Called(PublicRoutes[3])
      /\ Called(PublicRoutes[4]) /\ Called(PublicRoutes[5]) /\ Called(PublicRoutes[6])
      /\ Called(PublicRoutes[7]) /\ Called(PublicRoutes[8])
  BY DEF Called, ManagersRoutes, Served, Member, Staff, Admins, Owner, Confirmed, Recent, Auth, Guest
<1>6. Called(PublicRoutes[9]) /\ Called(PublicRoutes[10]) /\ Called(PublicRoutes[11])
  BY DEF Called, ManagersRoutes, Served, Member, Staff, Admins, Owner, Confirmed, Recent, Auth, Guest
<1>. HIDE DEF PublicRoutes
<1>7. \A i \in 1..11 : Judged(PublicRoutes[i]) /\ Called(PublicRoutes[i])
  BY <1>2, <1>3, <1>4, <1>5, <1>6
<1>. QED  BY <1>1, <1>7 DEF ElementsOf, Known

LEMMA SetupRoutes_Known == \A route \in ElementsOf(SetupRoutes) : Known(route)
<1>. USE DEF SetupRoutes
<1>1. DOMAIN SetupRoutes = 1..2
  OBVIOUS
<1>2. Judged(SetupRoutes[1])
  BY JudgedUsers, UsersPaths DEF UsersWords, Auth
<1>3. Judged(SetupRoutes[2])
  BY JudgedOwner, OwnersPaths, UsersPaths DEF UsersWords, AdminsWords, OwnersWords
<1>4. Called(SetupRoutes[1]) /\ Called(SetupRoutes[2])
  BY DEF Called, ManagersRoutes, Served, Member, Staff, Admins, Owner, Confirmed, Recent, Auth, Guest
<1>. HIDE DEF SetupRoutes
<1>5. \A i \in 1..2 : Judged(SetupRoutes[i]) /\ Called(SetupRoutes[i])
  BY <1>2, <1>3, <1>4
<1>. QED  BY <1>1, <1>5 DEF ElementsOf, Known

LEMMA DeviceRoutes_Known == \A route \in ElementsOf(DeviceRoutes) : Known(route)
<1>. USE DEF DeviceRoutes
<1>1. DOMAIN DeviceRoutes = 1..13
  OBVIOUS
<1>2. /\ Judged(DeviceRoutes[1]) /\ Judged(DeviceRoutes[2]) /\ Judged(DeviceRoutes[9])
      /\ Judged(DeviceRoutes[11])
  BY JudgedUsers, UsersPaths DEF UsersWords, Auth
<1>3. /\ Judged(DeviceRoutes[3]) /\ Judged(DeviceRoutes[4]) /\ Judged(DeviceRoutes[10])
      /\ Judged(DeviceRoutes[12])
  BY JudgedStaff, StaffPaths, UsersPaths DEF UsersWords, Writes
<1>4. Judged(DeviceRoutes[13])
  BY JudgedStaff, StaffPaths, UsersPaths DEF UsersWords, Writes
<1>5. /\ Judged(DeviceRoutes[5]) /\ Judged(DeviceRoutes[6]) /\ Judged(DeviceRoutes[7])
      /\ Judged(DeviceRoutes[8])
  BY JudgedAdmins, AdminsPaths, UsersPaths DEF UsersWords, AdminsWords, AdminsTails
<1>6. /\ Called(DeviceRoutes[1]) /\ Called(DeviceRoutes[2]) /\ Called(DeviceRoutes[3])
      /\ Called(DeviceRoutes[4]) /\ Called(DeviceRoutes[5]) /\ Called(DeviceRoutes[6])
      /\ Called(DeviceRoutes[7]) /\ Called(DeviceRoutes[8])
  BY DEF Called, ManagersRoutes, Served, Member, Staff, Admins, Owner, Confirmed, Recent, Auth, Guest
<1>7. /\ Called(DeviceRoutes[9]) /\ Called(DeviceRoutes[10]) /\ Called(DeviceRoutes[11])
      /\ Called(DeviceRoutes[12]) /\ Called(DeviceRoutes[13])
  BY DEF Called, ManagersRoutes, Served, Member, Staff, Admins, Owner, Confirmed, Recent, Auth, Guest
<1>. HIDE DEF DeviceRoutes
<1>8. \A i \in 1..13 : Judged(DeviceRoutes[i]) /\ Called(DeviceRoutes[i])
  BY <1>2, <1>3, <1>4, <1>5, <1>6, <1>7
<1>. QED  BY <1>1, <1>8 DEF ElementsOf, Known

LEMMA ConfigurationRoutes_Known == \A route \in ElementsOf(ConfigurationRoutes) : Known(route)
<1>. USE DEF ConfigurationRoutes
<1>1. DOMAIN ConfigurationRoutes = 1..8
  OBVIOUS
<1>2. /\ Judged(ConfigurationRoutes[1]) /\ Judged(ConfigurationRoutes[2])
      /\ Judged(ConfigurationRoutes[3]) /\ Judged(ConfigurationRoutes[4])
  BY JudgedUsers, UsersPaths DEF UsersWords, Auth
<1>3. Judged(ConfigurationRoutes[5]) /\ Judged(ConfigurationRoutes[6])
  BY JudgedUsers, UsersPaths DEF UsersWords, Auth
<1>4. Judged(ConfigurationRoutes[7]) /\ Judged(ConfigurationRoutes[8])
  BY JudgedAdmins, AdminsPaths, UsersPaths DEF UsersWords, AdminsWords, AdminsTails
<1>5. /\ Called(ConfigurationRoutes[1]) /\ Called(ConfigurationRoutes[2])
      /\ Called(ConfigurationRoutes[3]) /\ Called(ConfigurationRoutes[4])
      /\ Called(ConfigurationRoutes[5]) /\ Called(ConfigurationRoutes[6])
      /\ Called(ConfigurationRoutes[7]) /\ Called(ConfigurationRoutes[8])
  BY DEF Called, ManagersRoutes, Served, Member, Staff, Admins, Owner, Confirmed, Recent, Auth, Guest
<1>. HIDE DEF ConfigurationRoutes
<1>6. \A i \in 1..8 : Judged(ConfigurationRoutes[i]) /\ Called(ConfigurationRoutes[i])
  BY <1>2, <1>3, <1>4, <1>5
<1>. QED  BY <1>1, <1>6 DEF ElementsOf, Known

LEMMA CatalogRoutes_Known == \A route \in ElementsOf(CatalogRoutes) : Known(route)
<1>. USE DEF CatalogRoutes
<1>1. DOMAIN CatalogRoutes = 1..13
  OBVIOUS
<1>2. /\ Judged(CatalogRoutes[1]) /\ Judged(CatalogRoutes[2]) /\ Judged(CatalogRoutes[3])
      /\ Judged(CatalogRoutes[4])
  BY JudgedAdmins, AdminsPaths, UsersPaths DEF UsersWords, AdminsWords, AdminsTails
<1>3. /\ Judged(CatalogRoutes[5]) /\ Judged(CatalogRoutes[6]) /\ Judged(CatalogRoutes[7])
      /\ Judged(CatalogRoutes[8])
  BY JudgedAdmins, AdminsPaths, UsersPaths DEF UsersWords, AdminsWords, AdminsTails
<1>4. /\ Judged(CatalogRoutes[9]) /\ Judged(CatalogRoutes[10]) /\ Judged(CatalogRoutes[11])
      /\ Judged(CatalogRoutes[12])
  BY JudgedAdmins, AdminsPaths, UsersPaths DEF UsersWords, AdminsWords, AdminsTails
<1>5. Judged(CatalogRoutes[13])
  BY JudgedAdmins, AdminsPaths, UsersPaths DEF UsersWords, AdminsWords, AdminsTails
<1>6. /\ Called(CatalogRoutes[1]) /\ Called(CatalogRoutes[2]) /\ Called(CatalogRoutes[3])
      /\ Called(CatalogRoutes[4]) /\ Called(CatalogRoutes[5]) /\ Called(CatalogRoutes[6])
      /\ Called(CatalogRoutes[7]) /\ Called(CatalogRoutes[8])
  BY DEF Called, ManagersRoutes, Served, Member, Staff, Admins, Owner, Confirmed, Recent, Auth, Guest
<1>7. /\ Called(CatalogRoutes[9]) /\ Called(CatalogRoutes[10]) /\ Called(CatalogRoutes[11])
      /\ Called(CatalogRoutes[12]) /\ Called(CatalogRoutes[13])
  BY DEF Called, ManagersRoutes, Served, Member, Staff, Admins, Owner, Confirmed, Recent, Auth, Guest
<1>. HIDE DEF CatalogRoutes
<1>8. \A i \in 1..13 : Judged(CatalogRoutes[i]) /\ Called(CatalogRoutes[i])
  BY <1>2, <1>3, <1>4, <1>5, <1>6, <1>7
<1>. QED  BY <1>1, <1>8 DEF ElementsOf, Known

LEMMA IntegrationRoutes_Known == \A route \in ElementsOf(IntegrationRoutes) : Known(route)
<1>. USE DEF IntegrationRoutes
<1>1. DOMAIN IntegrationRoutes = 1..12
  OBVIOUS
<1>2. /\ Judged(IntegrationRoutes[1]) /\ Judged(IntegrationRoutes[2]) /\ Judged(IntegrationRoutes[3])
      /\ Judged(IntegrationRoutes[4])
  BY JudgedAdmins, AdminsPaths, UsersPaths DEF UsersWords, AdminsWords, AdminsTails
<1>3. /\ Judged(IntegrationRoutes[5]) /\ Judged(IntegrationRoutes[6]) /\ Judged(IntegrationRoutes[7])
      /\ Judged(IntegrationRoutes[8])
  BY JudgedAdmins, AdminsPaths, UsersPaths DEF UsersWords, AdminsWords, AdminsTails
<1>4. /\ Judged(IntegrationRoutes[9]) /\ Judged(IntegrationRoutes[10]) /\ Judged(IntegrationRoutes[11])
      /\ Judged(IntegrationRoutes[12])
  BY JudgedAdmins, AdminsPaths, UsersPaths DEF UsersWords, AdminsWords, AdminsTails
<1>5. /\ Called(IntegrationRoutes[1]) /\ Called(IntegrationRoutes[2]) /\ Called(IntegrationRoutes[3])
      /\ Called(IntegrationRoutes[4]) /\ Called(IntegrationRoutes[5]) /\ Called(IntegrationRoutes[6])
      /\ Called(IntegrationRoutes[7]) /\ Called(IntegrationRoutes[8])
  BY DEF Called, ManagersRoutes, Served, Member, Staff, Admins, Owner, Confirmed, Recent, Auth, Guest
<1>6. /\ Called(IntegrationRoutes[9]) /\ Called(IntegrationRoutes[10]) /\ Called(IntegrationRoutes[11])
      /\ Called(IntegrationRoutes[12])
  BY DEF Called, ManagersRoutes, Served, Member, Staff, Admins, Owner, Confirmed, Recent, Auth, Guest
<1>. HIDE DEF IntegrationRoutes
<1>7. \A i \in 1..12 : Judged(IntegrationRoutes[i]) /\ Called(IntegrationRoutes[i])
  BY <1>2, <1>3, <1>4, <1>5, <1>6
<1>. QED  BY <1>1, <1>7 DEF ElementsOf, Known

LEMMA AdministrationRoutes_Known == \A route \in ElementsOf(AdministrationRoutes) : Known(route)
<1>. USE DEF AdministrationRoutes
<1>1. DOMAIN AdministrationRoutes = 1..15
  OBVIOUS
<1>2. /\ Judged(AdministrationRoutes[1]) /\ Judged(AdministrationRoutes[2])
      /\ Judged(AdministrationRoutes[3]) /\ Judged(AdministrationRoutes[5])
  BY JudgedAdmins, AdminsPaths, UsersPaths DEF UsersWords, AdminsWords, AdminsTails
<1>3. Judged(AdministrationRoutes[13]) /\ Judged(AdministrationRoutes[14])
  BY JudgedAdmins, AdminsPaths, UsersPaths DEF UsersWords, AdminsWords, AdminsTails
<1>4. /\ Judged(AdministrationRoutes[4]) /\ Judged(AdministrationRoutes[6])
      /\ Judged(AdministrationRoutes[7]) /\ Judged(AdministrationRoutes[8])
  BY JudgedOwner, OwnersPaths, UsersPaths DEF UsersWords, AdminsWords, OwnersWords
<1>5. /\ Judged(AdministrationRoutes[9]) /\ Judged(AdministrationRoutes[10])
      /\ Judged(AdministrationRoutes[11]) /\ Judged(AdministrationRoutes[12])
  BY JudgedOwner, OwnersPaths, UsersPaths DEF UsersWords, AdminsWords, OwnersWords
<1>6. Judged(AdministrationRoutes[15])
  BY JudgedOwner, OwnersPaths, UsersPaths DEF UsersWords, AdminsWords, OwnersWords
<1>7. /\ Called(AdministrationRoutes[1]) /\ Called(AdministrationRoutes[2])
      /\ Called(AdministrationRoutes[3]) /\ Called(AdministrationRoutes[4])
      /\ Called(AdministrationRoutes[5]) /\ Called(AdministrationRoutes[6])
      /\ Called(AdministrationRoutes[7]) /\ Called(AdministrationRoutes[8])
  BY DEF Called, ManagersRoutes, Served, Member, Staff, Admins, Owner, Confirmed, Recent, Auth, Guest
<1>8. /\ Called(AdministrationRoutes[9]) /\ Called(AdministrationRoutes[10])
      /\ Called(AdministrationRoutes[11]) /\ Called(AdministrationRoutes[12])
      /\ Called(AdministrationRoutes[13]) /\ Called(AdministrationRoutes[14])
      /\ Called(AdministrationRoutes[15])
  BY DEF Called, ManagersRoutes, Served, Member, Staff, Admins, Owner, Confirmed, Recent, Auth, Guest
<1>. HIDE DEF AdministrationRoutes
<1>9. \A i \in 1..15 : Judged(AdministrationRoutes[i]) /\ Called(AdministrationRoutes[i])
  BY <1>2, <1>3, <1>4, <1>5, <1>6, <1>7, <1>8
<1>. QED  BY <1>1, <1>9 DEF ElementsOf, Known

LEMMA SettingsRoutes_Known == \A route \in ElementsOf(SettingsRoutes) : Known(route)
<1>. USE DEF SettingsRoutes
<1>1. DOMAIN SettingsRoutes = 1..7
  OBVIOUS
<1>2. Judged(SettingsRoutes[7])
  BY JudgedOpen
<1>3. /\ Judged(SettingsRoutes[1]) /\ Judged(SettingsRoutes[2]) /\ Judged(SettingsRoutes[3])
      /\ Judged(SettingsRoutes[4])
  BY JudgedUsers, UsersPaths DEF UsersWords, Auth
<1>4. Judged(SettingsRoutes[5]) /\ Judged(SettingsRoutes[6])
  BY JudgedUsers, UsersPaths DEF UsersWords, Auth
<1>5. /\ Called(SettingsRoutes[1]) /\ Called(SettingsRoutes[2]) /\ Called(SettingsRoutes[3])
      /\ Called(SettingsRoutes[4]) /\ Called(SettingsRoutes[5]) /\ Called(SettingsRoutes[6])
      /\ Called(SettingsRoutes[7])
  BY DEF Called, ManagersRoutes, Served, Member, Staff, Admins, Owner, Confirmed, Recent, Auth, Guest
<1>. HIDE DEF SettingsRoutes
<1>6. \A i \in 1..7 : Judged(SettingsRoutes[i]) /\ Called(SettingsRoutes[i])
  BY <1>2, <1>3, <1>4, <1>5
<1>. QED  BY <1>1, <1>6 DEF ElementsOf, Known

LEMMA FortifyRoutes_Known == \A route \in ElementsOf(FortifyRoutes) : Known(route)
<1>. USE DEF FortifyRoutes
<1>1. DOMAIN FortifyRoutes = 1..24
  OBVIOUS
<1>2. /\ Judged(FortifyRoutes[1]) /\ Judged(FortifyRoutes[2]) /\ Judged(FortifyRoutes[4])
      /\ Judged(FortifyRoutes[5])
  BY JudgedOpen
<1>3. /\ Judged(FortifyRoutes[6]) /\ Judged(FortifyRoutes[7]) /\ Judged(FortifyRoutes[8])
      /\ Judged(FortifyRoutes[9])
  BY JudgedOpen
<1>4. Judged(FortifyRoutes[16]) /\ Judged(FortifyRoutes[17])
  BY JudgedOpen
<1>5. /\ Judged(FortifyRoutes[3]) /\ Judged(FortifyRoutes[10]) /\ Judged(FortifyRoutes[11])
      /\ Judged(FortifyRoutes[12])
  BY JudgedUsers, UsersPaths DEF UsersWords, Auth
<1>6. /\ Judged(FortifyRoutes[13]) /\ Judged(FortifyRoutes[14]) /\ Judged(FortifyRoutes[15])
      /\ Judged(FortifyRoutes[18])
  BY JudgedUsers, UsersPaths DEF UsersWords, Auth
<1>7. /\ Judged(FortifyRoutes[19]) /\ Judged(FortifyRoutes[20]) /\ Judged(FortifyRoutes[21])
      /\ Judged(FortifyRoutes[22])
  BY JudgedUsers, UsersPaths DEF UsersWords, Auth
<1>8. Judged(FortifyRoutes[23]) /\ Judged(FortifyRoutes[24])
  BY JudgedUsers, UsersPaths DEF UsersWords, Auth
<1>9. /\ Called(FortifyRoutes[1]) /\ Called(FortifyRoutes[2]) /\ Called(FortifyRoutes[3])
      /\ Called(FortifyRoutes[4]) /\ Called(FortifyRoutes[5]) /\ Called(FortifyRoutes[6])
      /\ Called(FortifyRoutes[7]) /\ Called(FortifyRoutes[8])
  BY DEF Called, ManagersRoutes, Served, Member, Staff, Admins, Owner, Confirmed, Recent, Auth, Guest
<1>10. /\ Called(FortifyRoutes[9]) /\ Called(FortifyRoutes[10]) /\ Called(FortifyRoutes[11])
      /\ Called(FortifyRoutes[12]) /\ Called(FortifyRoutes[13]) /\ Called(FortifyRoutes[14])
      /\ Called(FortifyRoutes[15]) /\ Called(FortifyRoutes[16])
  BY DEF Called, ManagersRoutes, Served, Member, Staff, Admins, Owner, Confirmed, Recent, Auth, Guest
<1>11. /\ Called(FortifyRoutes[17]) /\ Called(FortifyRoutes[18]) /\ Called(FortifyRoutes[19])
      /\ Called(FortifyRoutes[20]) /\ Called(FortifyRoutes[21]) /\ Called(FortifyRoutes[22])
      /\ Called(FortifyRoutes[23]) /\ Called(FortifyRoutes[24])
  BY DEF Called, ManagersRoutes, Served, Member, Staff, Admins, Owner, Confirmed, Recent, Auth, Guest
<1>. HIDE DEF FortifyRoutes
<1>12. \A i \in 1..24 : Judged(FortifyRoutes[i]) /\ Called(FortifyRoutes[i])
  BY <1>2, <1>3, <1>4, <1>5, <1>6, <1>7, <1>8, <1>9, <1>10, <1>11
<1>. QED  BY <1>1, <1>12 DEF ElementsOf, Known

LEMMA PasskeyRoutes_Known == \A route \in ElementsOf(PasskeyRoutes) : Known(route)
<1>. USE DEF PasskeyRoutes
<1>1. DOMAIN PasskeyRoutes = 1..9
  OBVIOUS
<1>2. /\ Judged(PasskeyRoutes[1]) /\ Judged(PasskeyRoutes[2]) /\ Judged(PasskeyRoutes[8])
      /\ Judged(PasskeyRoutes[9])
  BY JudgedOpen
<1>3. /\ Judged(PasskeyRoutes[3]) /\ Judged(PasskeyRoutes[4]) /\ Judged(PasskeyRoutes[5])
      /\ Judged(PasskeyRoutes[6])
  BY JudgedUsers, UsersPaths DEF UsersWords, Auth
<1>4. Judged(PasskeyRoutes[7])
  BY JudgedUsers, UsersPaths DEF UsersWords, Auth
<1>5. /\ Called(PasskeyRoutes[1]) /\ Called(PasskeyRoutes[2]) /\ Called(PasskeyRoutes[3])
      /\ Called(PasskeyRoutes[4]) /\ Called(PasskeyRoutes[5]) /\ Called(PasskeyRoutes[6])
      /\ Called(PasskeyRoutes[7]) /\ Called(PasskeyRoutes[8])
  BY DEF Called, ManagersRoutes, Served, Member, Staff, Admins, Owner, Confirmed, Recent, Auth, Guest
<1>6. Called(PasskeyRoutes[9])
  BY DEF Called, ManagersRoutes, Served, Member, Staff, Admins, Owner, Confirmed, Recent, Auth, Guest
<1>. HIDE DEF PasskeyRoutes
<1>7. \A i \in 1..9 : Judged(PasskeyRoutes[i]) /\ Called(PasskeyRoutes[i])
  BY <1>2, <1>3, <1>4, <1>5, <1>6
<1>. QED  BY <1>1, <1>7 DEF ElementsOf, Known

-------------------------------------------------------------------------------
(* A verb and a path reach a route if some route of the tables serves them.    *)
Routed(verb, path) == \E route \in ElementsOf(Routes) : Serves(route, verb, path)

LEMMA FitsItself == \A segment : Fits(segment, segment)
BY DEF Fits

LEMMA FitsSample ==
    /\ \A segment \in {"{device}", "{run}", "{credential}", "{model}", "{source}", "{channel}",
                       "{destination}", "{id}"} : Fits(segment, "7")
    /\ Fits("{operation}", "uuid")
    /\ \A kind \in Kinds : Fits("{kind}", kind)
    /\ \A feature \in Features : Fits("{feature}", feature)
    /\ \A id : Fits("{user}", id)
BY DEF Fits, ServerParameters, Parameters, Allowed, Kinds, Features, Uuids

LEMMA VerbsOf ==
    /\ "get" \in ToSet(GetHead) /\ "post" \in ToSet(Post) /\ "put" \in ToSet(Put)
    /\ "patch" \in ToSet(Patch) /\ "delete" \in ToSet(Delete) /\ "put" \in ToSet(PutPatch)
BY DEF ToSet, GetHead, Post, Put, Patch, Delete, PutPatch

LEMMA MatchesNone ==
    ASSUME NEW route, route.path = <<>>
    PROVE  MatchesPath(route, <<>>)
BY DEF MatchesPath

LEMMA MatchesOne ==
    ASSUME NEW route, NEW a, route.path = <<a>>
    PROVE  MatchesPath(route, <<a>>)
BY FitsItself DEF MatchesPath

LEMMA MatchesTwo ==
    ASSUME NEW route, NEW a, NEW p, NEW b, route.path = <<a, p>>, Fits(p, b)
    PROVE  MatchesPath(route, <<a, b>>)
BY FitsItself DEF MatchesPath

LEMMA MatchesThree ==
    ASSUME NEW route, NEW a, NEW p, NEW b, NEW q, NEW c, route.path = <<a, p, q>>, Fits(p, b), Fits(q, c)
    PROVE  MatchesPath(route, <<a, b, c>>)
BY FitsItself DEF MatchesPath

LEMMA MatchesFour ==
    ASSUME NEW route, NEW a, NEW p, NEW b, NEW q, NEW c, NEW d,
           route.path = <<a, p, q, d>>, Fits(p, b), Fits(q, c)
    PROVE  MatchesPath(route, <<a, b, c, d>>)
BY FitsItself DEF MatchesPath

LEMMA ElementsTogether ==
    ASSUME NEW s, NEW t, SoundTable(s), SoundTable(t)
    PROVE  SoundTable(s \o t) /\ ElementsOf(s \o t) = ElementsOf(s) \cup ElementsOf(t)
<1>1. s \in Seq(ElementsOf(s)) /\ t \in Seq(ElementsOf(t))
  BY DEF SoundTable
<1>2. /\ Len(s \o t) = Len(s) + Len(t) /\ DOMAIN (s \o t) = 1..(Len(s) + Len(t))
      /\ \A i \in 1..(Len(s) + Len(t)) : (s \o t)[i] = IF i <= Len(s) THEN s[i] ELSE t[i - Len(s)]
  BY <1>1
<1>3. DOMAIN s = 1..Len(s) /\ DOMAIN t = 1..Len(t) /\ Len(s) \in Nat /\ Len(t) \in Nat
  BY <1>1
<1>4. ASSUME NEW i \in DOMAIN (s \o t)  PROVE (s \o t)[i] \in ElementsOf(s) \cup ElementsOf(t)
  BY <1>2, <1>3 DEF ElementsOf
<1>5. ASSUME NEW i \in DOMAIN s  PROVE s[i] \in ElementsOf(s \o t)
  <2>1. i \in DOMAIN (s \o t) /\ (s \o t)[i] = s[i]
    BY <1>2, <1>3
  <2>. QED  BY <2>1 DEF ElementsOf
<1>6. ASSUME NEW i \in DOMAIN t  PROVE t[i] \in ElementsOf(s \o t)
  <2>1. Len(s) + i \in DOMAIN (s \o t) /\ (s \o t)[Len(s) + i] = t[i]
    BY <1>2, <1>3
  <2>. QED  BY <2>1 DEF ElementsOf
<1>7. ElementsOf(s \o t) = ElementsOf(s) \cup ElementsOf(t)
  BY <1>4, <1>5, <1>6 DEF ElementsOf
<1>. QED  BY <1>7, SoundTogether

LEMMA TablesOfRoutes ==
    ElementsOf(Routes) =
        ElementsOf(PublicRoutes) \cup ElementsOf(SetupRoutes) \cup ElementsOf(DeviceRoutes)
        \cup ElementsOf(ConfigurationRoutes) \cup ElementsOf(CatalogRoutes) \cup ElementsOf(IntegrationRoutes)
        \cup ElementsOf(AdministrationRoutes) \cup ElementsOf(SettingsRoutes) \cup ElementsOf(FortifyRoutes)
        \cup ElementsOf(PasskeyRoutes)
<1>. DEFINE Devices == PublicRoutes \o SetupRoutes \o DeviceRoutes \o ConfigurationRoutes
            Administration == Devices \o CatalogRoutes \o IntegrationRoutes \o AdministrationRoutes
<1>1. SoundTable(Devices) /\ ElementsOf(Devices) = ElementsOf(PublicRoutes) \cup ElementsOf(SetupRoutes)
                                \cup ElementsOf(DeviceRoutes) \cup ElementsOf(ConfigurationRoutes)
  BY ElementsTogether, PublicRoutes_Sound, SetupRoutes_Sound, DeviceRoutes_Sound, ConfigurationRoutes_Sound
<1>2. SoundTable(Administration)
      /\ ElementsOf(Administration) = ElementsOf(Devices) \cup ElementsOf(CatalogRoutes)
                                \cup ElementsOf(IntegrationRoutes) \cup ElementsOf(AdministrationRoutes)
  <2>. HIDE DEF Devices
  <2>. QED  BY <1>1, ElementsTogether, CatalogRoutes_Sound, IntegrationRoutes_Sound, AdministrationRoutes_Sound
<1>3. Routes = Administration \o SettingsRoutes \o FortifyRoutes \o PasskeyRoutes
  BY DEF Routes
<1>4. ElementsOf(Routes) = ElementsOf(Administration) \cup ElementsOf(SettingsRoutes)
                                \cup ElementsOf(FortifyRoutes) \cup ElementsOf(PasskeyRoutes)
  <2>. HIDE DEF Administration
  <2>. QED  BY <1>2, <1>3, ElementsTogether, SettingsRoutes_Sound, FortifyRoutes_Sound, PasskeyRoutes_Sound
<1>. QED  BY <1>1, <1>2, <1>4

LEMMA RoutesAreKnown == \A route \in ElementsOf(Routes) : Known(route)
BY TablesOfRoutes, PublicRoutes_Known, SetupRoutes_Known, DeviceRoutes_Known, ConfigurationRoutes_Known,
   CatalogRoutes_Known, IntegrationRoutes_Known, AdministrationRoutes_Known, SettingsRoutes_Known,
   FortifyRoutes_Known, PasskeyRoutes_Known

LEMMA WordsAreLiteral ==
    (UsersWords \cup OwnersWords \cup AdminsWords \cup AdminsTails \cup {"trace", "transfer-ownership"})
        \cap ServerParameters = {}
BY DEF UsersWords, OwnersWords, AdminsWords, AdminsTails, ServerParameters, Parameters

(* A path is for the role that a route's pattern is for: the words that tell   *)
(* the roles apart are never parameters.                                       *)
LEMMA MatchedPath ==
    ASSUME NEW route, NEW path, IsPath(path), MatchesPath(route, path)
    PROVE  /\ ForOwner(route.path) => ForOwner(path)
           /\ ForAdmins(route.path) => ForAdmins(path)
           /\ ForStaff(route.path) => ForStaff(path)
           /\ ForUsers(route.path) => ForUsers(path)
<1>. DEFINE Words == UsersWords \cup OwnersWords \cup AdminsWords \cup AdminsTails
                     \cup {"trace", "transfer-ownership"}
            pattern == route.path
<1>1. Len(path) \in Nat /\ DOMAIN path = 1..Len(path) /\ Len(pattern) = Len(path)
  BY DEF IsPath, MatchesPath
<1>2. \A i \in DOMAIN path : pattern[i] \in Words => path[i] = pattern[i]
  BY WordsAreLiteral DEF MatchesPath, Fits
<1>3. Len(path) >= 1 => 1 \in DOMAIN path
  BY <1>1
<1>4. Len(path) \in {3, 4} => 3 \in DOMAIN path
  BY <1>1
<1>5. /\ UsersWords \subseteq Words /\ OwnersWords \subseteq Words /\ AdminsWords \subseteq Words
      /\ AdminsTails \subseteq Words /\ {"trace", "transfer-ownership"} \subseteq Words
      /\ {"users", "system", "devices", "collection-runs"} \subseteq Words
  BY DEF UsersWords, AdminsWords
<1>. HIDE DEF Words, pattern
<1>6. \A n : Len(path) = n /\ n \in {3, 4} => Len(path) >= 1
  OBVIOUS
<1>7. ForOwner(pattern) => ForOwner(path)
  BY <1>1, <1>2, <1>3, <1>4, <1>5, <1>6 DEF ForOwner
<1>8. ForAdmins(pattern) => ForAdmins(path)
  BY <1>1, <1>2, <1>3, <1>4, <1>5, <1>6 DEF ForAdmins
<1>9. ForStaff(pattern) => ForStaff(path)
  BY <1>1, <1>2, <1>3, <1>5 DEF ForStaff
<1>10. ForUsers(pattern) => ForUsers(path)
  BY <1>1, <1>2, <1>3, <1>5 DEF ForUsers
<1>. QED  BY <1>7, <1>8, <1>9, <1>10 DEF pattern

LEMMA WritesDoNotGet == \A methods \in Writes : "get" \notin ToSet(methods)
BY DEF Writes, ToSet, Post, Put, Patch, PutPatch, Delete

(* What the role gates of every route that serves the path will let through.   *)
Passes(gates, verb, path) ==
    /\ ForOwner(path) => "owner" \in gates
    /\ ForAdmins(path) => "admins" \in gates
    /\ ForStaff(path) => "staff" \in gates \/ verb = "get"

LEMMA PassingIsEnough ==
    ASSUME NEW route \in ElementsOf(Routes), NEW verb, NEW path, IsPath(path),
           Serves(route, verb, path), NEW gates, Passes(gates, verb, path)
    PROVE  route.gates \cap {"staff", "admins", "owner"} \subseteq gates
<1>1. Judged(route)
  BY RoutesAreKnown DEF Known
<1>2. "owner" \in route.gates => "owner" \in gates
  BY <1>1, MatchedPath DEF Judged, Passes, Serves
<1>3. "admins" \in route.gates => "admins" \in gates
  BY <1>1, MatchedPath DEF Judged, Passes, Serves
<1>4. "staff" \in route.gates => "staff" \in gates
  BY <1>1, MatchedPath, WritesDoNotGet DEF Judged, Passes, Serves
<1>. QED  BY <1>2, <1>3, <1>4

-------------------------------------------------------------------------------
(* What the pages offer does reach a route, table by table.                    *)
LEMMA PublicRoutes_Reached ==
    /\ Routed("get", <<>>)
    /\ Routed("put", <<"locale">>)
    /\ Routed("post", <<"restore">>)
    /\ Routed("get", <<"tls-activation", "status">>)
<1>1. DOMAIN PublicRoutes = 1..11
  BY DEF PublicRoutes
<1>2. \A i \in 1..11 : PublicRoutes[i] \in ElementsOf(Routes)
  BY <1>1, TablesOfRoutes DEF ElementsOf
<1>3. Serves(PublicRoutes[1], "get", <<>>)
  BY MatchesNone, VerbsOf DEF Served, Serves, PublicRoutes
<1>4. /\ Serves(PublicRoutes[2], "put", <<"locale">>)
      /\ Serves(PublicRoutes[4], "post", <<"restore">>)
  BY MatchesOne, VerbsOf DEF Served, Serves, PublicRoutes
<1>5. Serves(PublicRoutes[6], "get", <<"tls-activation", "status">>)
  BY MatchesTwo, FitsItself, FitsSample, VerbsOf DEF Served, Serves, PublicRoutes
<1>6. {PublicRoutes[1], PublicRoutes[2], PublicRoutes[4], PublicRoutes[6]} \subseteq ElementsOf(Routes)
  BY <1>2
<1>. QED  BY <1>3, <1>4, <1>5, <1>6 DEF Routed

LEMMA SetupRoutes_Reached ==
    /\ Routed("post", <<"setup">>)
<1>1. DOMAIN SetupRoutes = 1..2
  BY DEF SetupRoutes
<1>2. \A i \in 1..2 : SetupRoutes[i] \in ElementsOf(Routes)
  BY <1>1, TablesOfRoutes DEF ElementsOf
<1>3. Serves(SetupRoutes[2], "post", <<"setup">>)
  BY MatchesOne, VerbsOf DEF Served, Serves, SetupRoutes
<1>4. {SetupRoutes[2]} \subseteq ElementsOf(Routes)
  BY <1>2
<1>. QED  BY <1>3, <1>4 DEF Routed

LEMMA DeviceRoutes_Reached ==
    /\ Routed("get", <<"dashboard">>)
    /\ Routed("get", <<"devices", "export">>)
    /\ Routed("post", <<"devices", "import">>)
    /\ Routed("post", <<"devices", "7", "collect">>)
    /\ Routed("post", <<"devices", "7", "force-collect">>)
    /\ Routed("post", <<"devices", "7", "diagnostics">>)
    /\ Routed("post", <<"devices", "7", "approve">>)
    /\ Routed("post", <<"devices", "7", "revoke-approval">>)
    /\ Routed("get", <<"devices">>)
    /\ Routed("post", <<"devices">>)
    /\ Routed("get", <<"devices", "7", "edit">>)
    /\ Routed("put", <<"devices", "7">>)
    /\ Routed("delete", <<"devices", "7">>)
<1>1. DOMAIN DeviceRoutes = 1..13
  BY DEF DeviceRoutes
<1>2. \A i \in 1..13 : DeviceRoutes[i] \in ElementsOf(Routes)
  BY <1>1, TablesOfRoutes DEF ElementsOf
<1>3. /\ Serves(DeviceRoutes[1], "get", <<"dashboard">>)
      /\ Serves(DeviceRoutes[9], "get", <<"devices">>)
      /\ Serves(DeviceRoutes[10], "post", <<"devices">>)
  BY MatchesOne, VerbsOf DEF Served, Serves, DeviceRoutes
<1>4. /\ Serves(DeviceRoutes[2], "get", <<"devices", "export">>)
      /\ Serves(DeviceRoutes[3], "post", <<"devices", "import">>)
      /\ Serves(DeviceRoutes[12], "put", <<"devices", "7">>)
      /\ Serves(DeviceRoutes[13], "delete", <<"devices", "7">>)
  BY MatchesTwo, FitsItself, FitsSample, VerbsOf DEF Served, Serves, DeviceRoutes
<1>5. /\ Serves(DeviceRoutes[4], "post", <<"devices", "7", "collect">>)
      /\ Serves(DeviceRoutes[5], "post", <<"devices", "7", "force-collect">>)
      /\ Serves(DeviceRoutes[6], "post", <<"devices", "7", "diagnostics">>)
      /\ Serves(DeviceRoutes[7], "post", <<"devices", "7", "approve">>)
  BY MatchesThree, FitsItself, FitsSample, VerbsOf DEF Served, Serves, DeviceRoutes
<1>6. /\ Serves(DeviceRoutes[8], "post", <<"devices", "7", "revoke-approval">>)
      /\ Serves(DeviceRoutes[11], "get", <<"devices", "7", "edit">>)
  BY MatchesThree, FitsItself, FitsSample, VerbsOf DEF Served, Serves, DeviceRoutes
<1>7. {DeviceRoutes[1], DeviceRoutes[2], DeviceRoutes[3], DeviceRoutes[4], DeviceRoutes[5],
       DeviceRoutes[6], DeviceRoutes[7], DeviceRoutes[8], DeviceRoutes[9], DeviceRoutes[10],
       DeviceRoutes[11], DeviceRoutes[12], DeviceRoutes[13]} \subseteq ElementsOf(Routes)
  BY <1>2
<1>. QED  BY <1>3, <1>4, <1>5, <1>6, <1>7 DEF Routed

LEMMA ConfigurationRoutes_Reached ==
    /\ Routed("get", <<"devices", "7", "configuration">>)
    /\ Routed("get", <<"devices", "7", "configuration", "download">>)
    /\ Routed("get", <<"devices", "7", "configuration", "diff">>)
    /\ Routed("get", <<"devices", "7", "collection-runs">>)
    /\ Routed("get", <<"collection-runs", "7", "events">>)
    /\ Routed("get", <<"collection-runs", "7", "stream">>)
    /\ Routed("get", <<"collection-runs", "7", "trace">>)
    /\ Routed("get", <<"collection-runs", "7", "trace", "download">>)
<1>1. DOMAIN ConfigurationRoutes = 1..8
  BY DEF ConfigurationRoutes
<1>2. \A i \in 1..8 : ConfigurationRoutes[i] \in ElementsOf(Routes)
  BY <1>1, TablesOfRoutes DEF ElementsOf
<1>3. /\ Serves(ConfigurationRoutes[1], "get", <<"devices", "7", "configuration">>)
      /\ Serves(ConfigurationRoutes[4], "get", <<"devices", "7", "collection-runs">>)
      /\ Serves(ConfigurationRoutes[5], "get", <<"collection-runs", "7", "events">>)
      /\ Serves(ConfigurationRoutes[6], "get", <<"collection-runs", "7", "stream">>)
  BY MatchesThree, FitsItself, FitsSample, VerbsOf DEF Served, Serves, ConfigurationRoutes
<1>4. Serves(ConfigurationRoutes[7], "get", <<"collection-runs", "7", "trace">>)
  BY MatchesThree, FitsItself, FitsSample, VerbsOf DEF Served, Serves, ConfigurationRoutes
<1>5. /\ Serves(ConfigurationRoutes[2], "get", <<"devices", "7", "configuration", "download">>)
      /\ Serves(ConfigurationRoutes[3], "get", <<"devices", "7", "configuration", "diff">>)
      /\ Serves(ConfigurationRoutes[8], "get", <<"collection-runs", "7", "trace", "download">>)
  BY MatchesFour, FitsItself, FitsSample, VerbsOf DEF Served, Serves, ConfigurationRoutes
<1>6. {ConfigurationRoutes[1], ConfigurationRoutes[2], ConfigurationRoutes[3], ConfigurationRoutes[4],
       ConfigurationRoutes[5], ConfigurationRoutes[6], ConfigurationRoutes[7], ConfigurationRoutes[8]}
         \subseteq ElementsOf(Routes)
  BY <1>2
<1>. QED  BY <1>3, <1>4, <1>5, <1>6 DEF Routed

LEMMA CatalogRoutes_Reached ==
    /\ Routed("get", <<"credentials">>)
    /\ Routed("post", <<"credentials">>)
    /\ Routed("delete", <<"credentials", "7">>)
    /\ Routed("get", <<"catalog">>)
    /\ Routed("post", <<"catalog">>)
    /\ \A kind \in Kinds : Routed("delete", <<"catalog", kind, "7">>)
    /\ Routed("get", <<"models">>)
    /\ Routed("post", <<"models">>)
    /\ Routed("post", <<"models", "7", "publish">>)
    /\ Routed("post", <<"models", "7", "test">>)
<1>1. DOMAIN CatalogRoutes = 1..13
  BY DEF CatalogRoutes
<1>2. \A i \in 1..13 : CatalogRoutes[i] \in ElementsOf(Routes)
  BY <1>1, TablesOfRoutes DEF ElementsOf
<1>3. /\ Serves(CatalogRoutes[1], "get", <<"credentials">>)
      /\ Serves(CatalogRoutes[2], "post", <<"credentials">>)
      /\ Serves(CatalogRoutes[5], "get", <<"catalog">>)
      /\ Serves(CatalogRoutes[6], "post", <<"catalog">>)
  BY MatchesOne, VerbsOf DEF Served, Serves, CatalogRoutes
<1>4. /\ Serves(CatalogRoutes[8], "get", <<"models">>)
      /\ Serves(CatalogRoutes[9], "post", <<"models">>)
  BY MatchesOne, VerbsOf DEF Served, Serves, CatalogRoutes
<1>5. Serves(CatalogRoutes[4], "delete", <<"credentials", "7">>)
  BY MatchesTwo, FitsItself, FitsSample, VerbsOf DEF Served, Serves, CatalogRoutes
<1>6. /\ Serves(CatalogRoutes[12], "post", <<"models", "7", "publish">>)
      /\ Serves(CatalogRoutes[13], "post", <<"models", "7", "test">>)
  BY MatchesThree, FitsItself, FitsSample, VerbsOf DEF Served, Serves, CatalogRoutes
<1>7. \A kind \in Kinds : Serves(CatalogRoutes[7], "delete", <<"catalog", kind, "7">>)
  BY MatchesThree, FitsItself, FitsSample, VerbsOf DEF Served, Serves, CatalogRoutes
<1>8. {CatalogRoutes[1], CatalogRoutes[2], CatalogRoutes[4], CatalogRoutes[5], CatalogRoutes[6],
       CatalogRoutes[7], CatalogRoutes[8], CatalogRoutes[9], CatalogRoutes[12], CatalogRoutes[13]}
         \subseteq ElementsOf(Routes)
  BY <1>2
<1>. QED  BY <1>3, <1>4, <1>5, <1>6, <1>7, <1>8 DEF Routed

LEMMA IntegrationRoutes_Reached ==
    /\ Routed("get", <<"integrations">>)
    /\ Routed("post", <<"integrations", "inventory">>)
    /\ Routed("post", <<"integrations", "inventory", "7", "sync">>)
    /\ Routed("get", <<"notifications">>)
    /\ Routed("post", <<"notifications", "channels">>)
    /\ Routed("patch", <<"notifications", "channels", "7">>)
    /\ Routed("post", <<"notifications", "channels", "7", "test">>)
    /\ Routed("get", <<"data-protection">>)
    /\ Routed("post", <<"data-protection", "destinations">>)
    /\ Routed("patch", <<"data-protection", "destinations", "7">>)
    /\ Routed("post", <<"data-protection", "destinations", "7", "backup">>)
    /\ Routed("post", <<"data-protection", "destinations", "7", "mirror">>)
<1>1. DOMAIN IntegrationRoutes = 1..12
  BY DEF IntegrationRoutes
<1>2. \A i \in 1..12 : IntegrationRoutes[i] \in ElementsOf(Routes)
  BY <1>1, TablesOfRoutes DEF ElementsOf
<1>3. /\ Serves(IntegrationRoutes[1], "get", <<"integrations">>)
      /\ Serves(IntegrationRoutes[4], "get", <<"notifications">>)
      /\ Serves(IntegrationRoutes[8], "get", <<"data-protection">>)
  BY MatchesOne, VerbsOf DEF Served, Serves, IntegrationRoutes
<1>4. /\ Serves(IntegrationRoutes[2], "post", <<"integrations", "inventory">>)
      /\ Serves(IntegrationRoutes[5], "post", <<"notifications", "channels">>)
      /\ Serves(IntegrationRoutes[9], "post", <<"data-protection", "destinations">>)
  BY MatchesTwo, FitsItself, FitsSample, VerbsOf DEF Served, Serves, IntegrationRoutes
<1>5. /\ Serves(IntegrationRoutes[6], "patch", <<"notifications", "channels", "7">>)
      /\ Serves(IntegrationRoutes[10], "patch", <<"data-protection", "destinations", "7">>)
  BY MatchesThree, FitsItself, FitsSample, VerbsOf DEF Served, Serves, IntegrationRoutes
<1>6. /\ Serves(IntegrationRoutes[3], "post", <<"integrations", "inventory", "7", "sync">>)
      /\ Serves(IntegrationRoutes[7], "post", <<"notifications", "channels", "7", "test">>)
      /\ Serves(IntegrationRoutes[11], "post", <<"data-protection", "destinations", "7", "backup">>)
      /\ Serves(IntegrationRoutes[12], "post", <<"data-protection", "destinations", "7", "mirror">>)
  BY MatchesFour, FitsItself, FitsSample, VerbsOf DEF Served, Serves, IntegrationRoutes
<1>7. {IntegrationRoutes[1], IntegrationRoutes[2], IntegrationRoutes[3], IntegrationRoutes[4],
       IntegrationRoutes[5], IntegrationRoutes[6], IntegrationRoutes[7], IntegrationRoutes[8],
       IntegrationRoutes[9], IntegrationRoutes[10], IntegrationRoutes[11], IntegrationRoutes[12]}
         \subseteq ElementsOf(Routes)
  BY <1>2
<1>. QED  BY <1>3, <1>4, <1>5, <1>6, <1>7 DEF Routed

LEMMA AdministrationRoutes_Reached ==
    /\ Routed("get", <<"users">>)
    /\ Routed("post", <<"users">>)
    /\ \A id : Routed("put", <<"users", id>>)
    /\ \A id : Routed("post", <<"users", id, "transfer-ownership">>)
    /\ Routed("get", <<"audit">>)
    /\ Routed("get", <<"updates">>)
    /\ Routed("post", <<"updates", "check">>)
    /\ Routed("put", <<"updates", "settings">>)
    /\ Routed("post", <<"updates", "reauthenticate">>)
    /\ Routed("post", <<"updates", "run">>)
    /\ Routed("get", <<"updates", "operations", "uuid">>)
    /\ Routed("post", <<"updates", "operations", "uuid", "acknowledge">>)
    /\ Routed("get", <<"system">>)
    /\ Routed("put", <<"system">>)
    /\ \A f \in Features : Routed("patch", <<"system", "dangerous-features", f>>)
<1>1. DOMAIN AdministrationRoutes = 1..15
  BY DEF AdministrationRoutes
<1>2. \A i \in 1..15 : AdministrationRoutes[i] \in ElementsOf(Routes)
  BY <1>1, TablesOfRoutes DEF ElementsOf
<1>3. /\ Serves(AdministrationRoutes[1], "get", <<"users">>)
      /\ Serves(AdministrationRoutes[2], "post", <<"users">>)
      /\ Serves(AdministrationRoutes[5], "get", <<"audit">>)
      /\ Serves(AdministrationRoutes[6], "get", <<"updates">>)
  BY MatchesOne, VerbsOf DEF Served, Serves, AdministrationRoutes
<1>4. /\ Serves(AdministrationRoutes[13], "get", <<"system">>)
      /\ Serves(AdministrationRoutes[14], "put", <<"system">>)
  BY MatchesOne, VerbsOf DEF Served, Serves, AdministrationRoutes
<1>5. /\ Serves(AdministrationRoutes[7], "post", <<"updates", "check">>)
      /\ Serves(AdministrationRoutes[8], "put", <<"updates", "settings">>)
      /\ Serves(AdministrationRoutes[9], "post", <<"updates", "reauthenticate">>)
      /\ Serves(AdministrationRoutes[10], "post", <<"updates", "run">>)
  BY MatchesTwo, FitsItself, FitsSample, VerbsOf DEF Served, Serves, AdministrationRoutes
<1>6. \A id : Serves(AdministrationRoutes[3], "put", <<"users", id>>)
  BY MatchesTwo, FitsItself, FitsSample, VerbsOf DEF Served, Serves, AdministrationRoutes
<1>7. Serves(AdministrationRoutes[11], "get", <<"updates", "operations", "uuid">>)
  BY MatchesThree, FitsItself, FitsSample, VerbsOf DEF Served, Serves, AdministrationRoutes
<1>8. \A id : Serves(AdministrationRoutes[4], "post", <<"users", id, "transfer-ownership">>)
  BY MatchesThree, FitsItself, FitsSample, VerbsOf DEF Served, Serves, AdministrationRoutes
<1>9. \A f \in Features : Serves(AdministrationRoutes[15], "patch", <<"system", "dangerous-features", f>>)
  BY MatchesThree, FitsItself, FitsSample, VerbsOf DEF Served, Serves, AdministrationRoutes
<1>10. Serves(AdministrationRoutes[12], "post", <<"updates", "operations", "uuid", "acknowledge">>)
  BY MatchesFour, FitsItself, FitsSample, VerbsOf DEF Served, Serves, AdministrationRoutes
<1>11. {AdministrationRoutes[1], AdministrationRoutes[2], AdministrationRoutes[3],
       AdministrationRoutes[4], AdministrationRoutes[5], AdministrationRoutes[6],
       AdministrationRoutes[7], AdministrationRoutes[8], AdministrationRoutes[9],
       AdministrationRoutes[10], AdministrationRoutes[11], AdministrationRoutes[12],
       AdministrationRoutes[13], AdministrationRoutes[14], AdministrationRoutes[15]}
         \subseteq ElementsOf(Routes)
  BY <1>2
<1>. QED  BY <1>3, <1>4, <1>5, <1>6, <1>7, <1>8, <1>9, <1>10, <1>11 DEF Routed

LEMMA SettingsRoutes_Reached ==
    /\ Routed("get", <<"settings", "profile">>)
    /\ Routed("patch", <<"settings", "profile">>)
    /\ Routed("get", <<"settings", "security">>)
    /\ Routed("put", <<"settings", "password">>)
    /\ Routed("get", <<"settings", "appearance">>)
<1>1. DOMAIN SettingsRoutes = 1..7
  BY DEF SettingsRoutes
<1>2. \A i \in 1..7 : SettingsRoutes[i] \in ElementsOf(Routes)
  BY <1>1, TablesOfRoutes DEF ElementsOf
<1>3. /\ Serves(SettingsRoutes[2], "get", <<"settings", "profile">>)
      /\ Serves(SettingsRoutes[3], "patch", <<"settings", "profile">>)
      /\ Serves(SettingsRoutes[4], "get", <<"settings", "security">>)
      /\ Serves(SettingsRoutes[5], "put", <<"settings", "password">>)
  BY MatchesTwo, FitsItself, FitsSample, VerbsOf DEF Served, Serves, SettingsRoutes
<1>4. Serves(SettingsRoutes[6], "get", <<"settings", "appearance">>)
  BY MatchesTwo, FitsItself, FitsSample, VerbsOf DEF Served, Serves, SettingsRoutes
<1>5. {SettingsRoutes[2], SettingsRoutes[3], SettingsRoutes[4], SettingsRoutes[5], SettingsRoutes[6]}
         \subseteq ElementsOf(Routes)
  BY <1>2
<1>. QED  BY <1>3, <1>4, <1>5 DEF Routed

LEMMA FortifyRoutes_Reached ==
    /\ Routed("get", <<"login">>)
    /\ Routed("post", <<"login">>)
    /\ Routed("post", <<"logout">>)
    /\ Routed("get", <<"forgot-password">>)
    /\ Routed("post", <<"forgot-password">>)
    /\ Routed("post", <<"reset-password">>)
    /\ Routed("get", <<"register">>)
    /\ Routed("post", <<"register">>)
    /\ Routed("post", <<"email", "verification-notification">>)
    /\ Routed("post", <<"user", "confirm-password">>)
    /\ Routed("post", <<"two-factor-challenge">>)
    /\ Routed("post", <<"user", "two-factor-authentication">>)
    /\ Routed("post", <<"user", "confirmed-two-factor-authentication">>)
    /\ Routed("delete", <<"user", "two-factor-authentication">>)
    /\ Routed("get", <<"user", "two-factor-qr-code">>)
    /\ Routed("get", <<"user", "two-factor-secret-key">>)
    /\ Routed("get", <<"user", "two-factor-recovery-codes">>)
    /\ Routed("post", <<"user", "two-factor-recovery-codes">>)
<1>1. DOMAIN FortifyRoutes = 1..24
  BY DEF FortifyRoutes
<1>2. \A i \in 1..24 : FortifyRoutes[i] \in ElementsOf(Routes)
  BY <1>1, TablesOfRoutes DEF ElementsOf
<1>3. /\ Serves(FortifyRoutes[1], "get", <<"login">>)
      /\ Serves(FortifyRoutes[2], "post", <<"login">>)
      /\ Serves(FortifyRoutes[3], "post", <<"logout">>)
      /\ Serves(FortifyRoutes[4], "get", <<"forgot-password">>)
  BY MatchesOne, VerbsOf DEF Served, Serves, FortifyRoutes
<1>4. /\ Serves(FortifyRoutes[6], "post", <<"forgot-password">>)
      /\ Serves(FortifyRoutes[7], "post", <<"reset-password">>)
      /\ Serves(FortifyRoutes[8], "get", <<"register">>)
      /\ Serves(FortifyRoutes[9], "post", <<"register">>)
  BY MatchesOne, VerbsOf DEF Served, Serves, FortifyRoutes
<1>5. Serves(FortifyRoutes[17], "post", <<"two-factor-challenge">>)
  BY MatchesOne, VerbsOf DEF Served, Serves, FortifyRoutes
<1>6. /\ Serves(FortifyRoutes[12], "post", <<"email", "verification-notification">>)
      /\ Serves(FortifyRoutes[15], "post", <<"user", "confirm-password">>)
      /\ Serves(FortifyRoutes[18], "post", <<"user", "two-factor-authentication">>)
      /\ Serves(FortifyRoutes[19], "post", <<"user", "confirmed-two-factor-authentication">>)
  BY MatchesTwo, FitsItself, FitsSample, VerbsOf DEF Served, Serves, FortifyRoutes
<1>7. /\ Serves(FortifyRoutes[20], "delete", <<"user", "two-factor-authentication">>)
      /\ Serves(FortifyRoutes[21], "get", <<"user", "two-factor-qr-code">>)
      /\ Serves(FortifyRoutes[22], "get", <<"user", "two-factor-secret-key">>)
      /\ Serves(FortifyRoutes[23], "get", <<"user", "two-factor-recovery-codes">>)
  BY MatchesTwo, FitsItself, FitsSample, VerbsOf DEF Served, Serves, FortifyRoutes
<1>8. Serves(FortifyRoutes[24], "post", <<"user", "two-factor-recovery-codes">>)
  BY MatchesTwo, FitsItself, FitsSample, VerbsOf DEF Served, Serves, FortifyRoutes
<1>9. {FortifyRoutes[1], FortifyRoutes[2], FortifyRoutes[3], FortifyRoutes[4], FortifyRoutes[6],
       FortifyRoutes[7], FortifyRoutes[8], FortifyRoutes[9], FortifyRoutes[12], FortifyRoutes[15],
       FortifyRoutes[17], FortifyRoutes[18], FortifyRoutes[19], FortifyRoutes[20], FortifyRoutes[21],
       FortifyRoutes[22], FortifyRoutes[23], FortifyRoutes[24]} \subseteq ElementsOf(Routes)
  BY <1>2
<1>. QED  BY <1>3, <1>4, <1>5, <1>6, <1>7, <1>8, <1>9 DEF Routed

-------------------------------------------------------------------------------
(* What a gate set lets through, and which offers a viewer with these gates    *)
(* may press: one that reaches a route and passes the roles the route asks     *)
(* for, neither the form of the restore nor the page of the registration.      *)
Allows(gates, verb, path) ==
    /\ Routed(verb, path)
    /\ Passes(gates, verb, path)
    /\ path = <<"register">> => verb = "post"
    /\ path # <<"restore">>

Verb(o) == EffectiveMethod(o.method, o.query)

Suits(o, gates) == Allows(gates, Verb(o), o.path)

SuitsAll(offers, gates) == \A o \in offers : Suits(o, gates)

LEMMA PlainVerb == \A method : EffectiveMethod(method, <<>>) = method
BY DEF EffectiveMethod

LEMMA SuitsWhenAllowed ==
    ASSUME NEW gates, NEW method, NEW path, Allows(gates, method, path)
    PROVE  /\ Suits(Visit(method, path), gates)
           /\ method = "get" => /\ Suits(Link(path), gates) /\ Suits(Fetch(path), gates)
                                /\ \A query : Suits(Request("visit", "get", path, query), gates)
BY PlainVerb, GetIsGet DEF Suits, Verb, Visit, Link, Fetch, Request

LEMMA RoleGates ==
    ASSUME NEW role
    PROVE  /\ IsOwner(role) => RoleGate(role) = {"staff", "admins", "owner"}
           /\ Manages(role) => {"staff", "admins"} \subseteq RoleGate(role)
           /\ Operates(role) => {"staff"} \subseteq RoleGate(role)
           /\ {} \subseteq RoleGate(role)
BY DEF IsOwner, Manages, Operates, RoleGate

FreeWords == {"dashboard", "settings", "login", "logout", "register", "forgot-password", "reset-password",
              "user", "two-factor-challenge", "email", "locale", "tls-activation"}

Free(path) == ~ForOwner(path) /\ ~ForAdmins(path) /\ ~ForStaff(path) /\ path # <<"restore">>

LEMMA FreePaths ==
    /\ Free(<<>>)
    /\ \A a \in FreeWords : Free(<<a>>)
    /\ \A a \in FreeWords : \A b : Free(<<a, b>>) /\ <<a, b>> # <<"register">>
    /\ Free(<<"collection-runs", "7", "events">>) /\ Free(<<"collection-runs", "7", "stream">>)
<1>1. \A a \in FreeWords : a \notin OwnersWords \cup AdminsWords \cup {"devices", "restore"}
  BY DEF FreeWords, OwnersWords, AdminsWords
<1>2. Free(<<>>)
  BY DEF Free, ForOwner, ForAdmins, ForStaff
<1>3. \A a \in FreeWords : Free(<<a>>)
  BY <1>1 DEF Free, ForOwner, ForAdmins, ForStaff
<1>4. \A a \in FreeWords : \A b : Free(<<a, b>>) /\ <<a, b>> # <<"register">>
  BY <1>1 DEF Free, ForOwner, ForAdmins, ForStaff
<1>5. Free(<<"collection-runs", "7", "events">>) /\ Free(<<"collection-runs", "7", "stream">>)
  BY DEF Free, ForOwner, ForAdmins, ForStaff, OwnersWords, AdminsWords
<1>. QED  BY <1>2, <1>3, <1>4, <1>5

LEMMA FreeIsAllowed ==
    ASSUME NEW verb, NEW path, Free(path), Routed(verb, path), path # <<"register">> \/ verb = "post"
    PROVE  \A gates : Allows(gates, verb, path)
BY DEF Free, Allows, Passes

(* The paths of the devices and of their administration.                       *)
Usual(path) == path \notin {<<"restore">>, <<"register">>}

LEMMA DevicePaths ==
    LET OfDevices(path) == ~ForOwner(path) /\ ~ForAdmins(path) /\ Usual(path)
    IN /\ OfDevices(<<"devices">>)
       /\ \A b : OfDevices(<<"devices", b>>)
       /\ \A b, c : c \notin AdminsTails => OfDevices(<<"devices", b, c>>)
       /\ \A b, c, d : OfDevices(<<"devices", b, c, d>>)
BY DEF ForOwner, ForAdmins, OwnersWords, AdminsWords, Usual

LEMMA DeviceIsAllowed ==
    ASSUME NEW verb, NEW path, ~ForOwner(path), ~ForAdmins(path), Usual(path), Routed(verb, path)
    PROVE  Allows({"staff"}, verb, path) /\ (verb = "get" => Allows({}, verb, path))
BY DEF Allows, Passes, Usual

LEMMA AdminsOnly ==
    LET Administrative(path) == ~ForOwner(path) /\ Usual(path)
    IN /\ \A a \in AdminsWords : Administrative(<<a>>)
       /\ \A a \in AdminsWords : \A b : Administrative(<<a, b>>)
       /\ \A a \in AdminsWords \ {"users", "system"} : \A b, c : Administrative(<<a, b, c>>)
       /\ \A a \in AdminsWords : \A b, c, d : Administrative(<<a, b, c, d>>)
       /\ \A c : Administrative(<<"devices", "7", c>>) /\ Administrative(<<"collection-runs", "7", c>>)
       /\ \A c, d : Administrative(<<"collection-runs", "7", c, d>>)
BY DEF ForOwner, OwnersWords, AdminsWords, Usual

LEMMA AdminsAreAllowed ==
    ASSUME NEW verb, NEW path, ~ForOwner(path), Usual(path), Routed(verb, path)
    PROVE  Allows({"staff", "admins"}, verb, path)
BY DEF Allows, Passes, Usual

LEMMA OwnerIsAllowed ==
    ASSUME NEW verb, NEW path, Usual(path), Routed(verb, path)
    PROVE  Allows({"staff", "admins", "owner"}, verb, path)
BY DEF Allows, Passes, Usual

-------------------------------------------------------------------------------
(* What the generated functions without parameters send.                       *)
(* A form's other verbs travel as the field _method.                           *)
LEMMA OneField ==
    ASSUME NEW verb
    PROVE  AddFields(<<Field("_method", Text(verb))>>, FALSE, <<>>) = <<Entry(<<"_method">>, verb)>>
<1>. DEFINE x == Field("_method", Text(verb))
            Cleared(added, key) == IF FALSE THEN clearParamFamily(added, key) ELSE added
            AddField(added, field) ==
                IF field.value.is = "object"
                THEN addNestedParams(field.value.leaves, <<field.key>>, Cleared(added, field.key))
                ELSE AddValue(Cleared(added, field.key), <<field.key>>, field.value)
            result == <<Entry(<<"_method">>, verb)>>
            P(iter) == iter = [s \in SUBSET (DOMAIN <<x>>) |->
                          IF s = {} THEN <<>> ELSE AddField(iter[s \ {Max(s)}], <<x>>[Max(s)])]
<1>1. DOMAIN <<x>> = {1} /\ <<x>>[1] = x /\ {1} \ {1} = {}
  OBVIOUS
<1>2. Max({1}) = 1
  BY DEF Max
<1>3. AddField(<<>>, x) = result
  <2>1. x.key = "_method" /\ x.value.is = "text" /\ x.value.text = verb
    BY DEF Field, Text
  <2>2. AddValue(<<>>, <<"_method">>, x.value) = SetParam(<<>>, <<"_method">>, verb)
    BY <2>1 DEF AddValue
  <2>3. SetParam(<<>>, <<"_method">>, verb) = <<Entry(<<"_method">>, verb)>>
    BY DEF SetParam
  <2>. QED  BY <2>1, <2>2, <2>3
<1>4. AddFields(<<x>>, FALSE, <<>>) = (CHOOSE iter : P(iter))[DOMAIN <<x>>]
  BY DEF AddFields, FoldLeft, MapThenFoldSet
<1>. HIDE DEF AddField, x, result
<1>5. \E iter : P(iter)
  <2>. DEFINE g == [s \in SUBSET {1} |-> IF s = {} THEN <<>> ELSE result]
  <2>1. \A s \in SUBSET {1} : s # {} => s = {1}
    OBVIOUS
  <2>2. \A s \in SUBSET {1} : g[s] = IF s = {} THEN <<>> ELSE AddField(g[s \ {Max(s)}], <<x>>[Max(s)])
    BY <2>1, <1>1, <1>2, <1>3
  <2>3. P(g)
    BY <2>2, <1>1
  <2>. QED  BY <2>3
<1>. HIDE DEF P
<1>6. P(CHOOSE iter : P(iter))
  BY <1>5
<1>7. \A iter : P(iter) => iter[{}] = <<>> /\ iter[{1}] = AddField(iter[{1} \ {1}], x)
  BY <1>1, <1>2 DEF P
<1>. QED  BY <1>1, <1>3, <1>4, <1>6, <1>7 DEF x, result

SpoofedPost(path, verb) == Request("visit", "post", path, <<Entry(<<"_method">>, verb)>>)

(* A generated function without parameters, by its verb: what its link, its    *)
(* form and its fetch send.                                                    *)
LEMMA GeneratedSends ==
    ASSUME NEW as, NEW methods, NEW path, Plain(path)
    PROVE  LET route == RouteDefinition(as, methods, path)
           IN /\ Href(route) = Visit(methods[1], path)
              /\ FetchOf(route) = Fetch(path)
              /\ methods[1] = "post" => FormOf(route) = Visit("post", path)
              /\ methods[1] \in {"put", "patch", "delete"} => FormOf(route) = SpoofedPost(path, methods[1])
<1>. DEFINE route == RouteDefinition(as, methods, path)
<1>1. route.path = path /\ route.methods = methods
  BY DEF RouteDefinition
<1>. HIDE DEF route
<1>2. ASSUME NEW by, NEW verb, NEW values, NEW options, NEW search
      PROVE  Built(by, Call(route, verb, values, options, search)) =
                Request(by, verb, path, queryParams(options, search))
  <2>. DEFINE call == Call(route, verb, values, options, search)
  <2>1. PathOf(route, parsedArgs(route, values, <<>>)) = path
    BY <1>1, PlainPath
  <2>2. call.method = verb /\ call.path = path /\ call.query = queryParams(options, search)
    BY <2>1 DEF Call
  <2>. HIDE DEF call
  <2>. QED  BY <2>2, Zenon DEF Built, call
<1>3. queryParams(NoOptions, <<>>) = <<>>
  BY DEF queryParams, NoOptions
<1>4. \A by, verb : Built(by, Call(route, verb, <<>>, NoOptions, <<>>)) = Request(by, verb, path, <<>>)
  BY <1>2, <1>3, Zenon
<1>5. Href(route) = Visit(methods[1], path)
  <2>1. Href(route) = Built("visit", Call(route, methods[1], <<>>, NoOptions, <<>>))
    BY <1>1, Zenon DEF Href
  <2>. QED  BY <1>4, <2>1, Zenon DEF Visit
<1>6. FetchOf(route) = Fetch(path)
  BY <1>4, Zenon DEF FetchOf, Fetch
<1>7. ASSUME methods[1] = "post"  PROVE FormOf(route) = Visit("post", path)
  <2>1. Form(route, "post", <<>>, NoOptions, <<>>) = Call(route, "post", <<>>, NoOptions, <<>>)
    BY DEF Form, FormMethod
  <2>2. FormOf(route) = Built("visit", Form(route, "post", <<>>, NoOptions, <<>>))
    BY <1>1, <1>7, Zenon DEF FormOf
  <2>. QED  BY <1>4, <2>1, <2>2, Zenon DEF Visit
<1>8. ASSUME NEW verb \in {"put", "patch", "delete"}, methods[1] = verb
      PROVE  FormOf(route) = SpoofedPost(path, verb)
  <2>. DEFINE fields == <<Field("_method", Text(verb))>>
  <2>1. Spoofed(NoOptions, verb) = Query(fields)
    <3>1. Chosen(NoOptions) = <<>> /\ "mergeQuery" \notin NoOptions.gives
      BY DEF Chosen, NoOptions
    <3>2. fields \o <<>> = fields /\ DOMAIN <<>> = {}
      OBVIOUS
    <3>. QED  BY <3>1, <3>2 DEF Spoofed
  <2>2. queryParams(Query(fields), <<>>) = AddFields(fields, FALSE, <<>>)
    <3>. HIDE DEF fields
    <3>1. Query(fields).gives = {"query"} /\ Chosen(Query(fields)) = fields
      BY DEF Query, Chosen
    <3>2. {"query"} # {} /\ ("mergeQuery" \in {"query"}) = FALSE
      OBVIOUS
    <3>. QED  BY <3>1, <3>2 DEF queryParams
  <2>3. Form(route, verb, <<>>, NoOptions, <<>>) = Call(route, "post", <<>>, Query(fields), <<>>)
    BY <2>1 DEF Form, FormMethod
  <2>4. queryParams(Query(fields), <<>>) = <<Entry(<<"_method">>, verb)>>
    BY <2>2, OneField, Zenon
  <2>. HIDE DEF fields
  <2>5. FormOf(route) = Built("visit", Form(route, verb, <<>>, NoOptions, <<>>))
    BY <1>1, <1>8, Zenon DEF FormOf
  <2>. QED  BY <1>2, <2>3, <2>4, <2>5, Zenon DEF SpoofedPost
<1>9. methods[1] \in {"put", "patch", "delete"} => FormOf(route) = SpoofedPost(path, methods[1])
  BY <1>8
<1>. QED  BY <1>5, <1>6, <1>7, <1>9, Zenon DEF route

LEMMA SpoofedVerb ==
    ASSUME NEW path, NEW verb \in {"put", "patch", "delete"}
    PROVE  Verb(SpoofedPost(path, verb)) = verb
<1>. DEFINE query == <<Entry(<<"_method">>, verb)>>
            spoof == {query[i].text : i \in {j \in DOMAIN query : query[j].key = <<"_method">>}}
<1>1. DOMAIN query = {1} /\ query[1].key = <<"_method">> /\ query[1].text = verb
  BY DEF Entry
<1>. HIDE DEF query
<1>2. spoof = {verb}
  BY <1>1
<1>3. verb \in Verbs
  BY DEF Verbs
<1>4. EffectiveMethod("post", query) = verb
  BY <1>2, <1>3 DEF EffectiveMethod
<1>. QED  BY <1>4 DEF Verb, SpoofedPost, Request, query

LEMMA SuitsSpoofed ==
    ASSUME NEW gates, NEW path, NEW verb \in {"put", "patch", "delete"}, Allows(gates, verb, path)
    PROVE  Suits(SpoofedPost(path, verb), gates)
<1>1. SpoofedPost(path, verb).path = path
  BY DEF SpoofedPost, Request
<1>. QED  BY <1>1, SpoofedVerb DEF Suits

LEMMA FirstVerbs ==
    /\ GetHead[1] = "get" /\ Post[1] = "post" /\ Put[1] = "put"
    /\ Patch[1] = "patch" /\ Delete[1] = "delete"
BY DEF GetHead, Post, Put, Patch, Delete

PlainWords == {"settings", "profile", "logout", "security", "appearance", "login", "register",
               "forgot-password",
               "reset-password", "user", "confirm-password", "two-factor-challenge", "email", "password",
               "verification-notification", "two-factor-authentication", "two-factor-recovery-codes",
               "confirmed-two-factor-authentication", "two-factor-qr-code", "two-factor-secret-key"}

LEMMA PlainWordsArePlain ==
    /\ Plain(<<>>)
    /\ \A a \in PlainWords : Plain(<<a>>)
    /\ \A a, b \in PlainWords : Plain(<<a, b>>)
<1>1. \A word \in PlainWords : word \notin NotLiteral
  BY DEF PlainWords, NotLiteral, Parameters
<1>. QED  BY <1>1, PlainTuples

LEMMA LinksSend ==
    /\ Href(profile_edit) = Link(<<"settings", "profile">>)
    /\ Href(security_edit) = Link(<<"settings", "security">>)
    /\ Href(appearance_edit) = Link(<<"settings", "appearance">>)
    /\ Href(logout) = Visit("post", <<"logout">>)
    /\ Href(home) = Link(<<>>)
    /\ Href(login) = Link(<<"login">>)
    /\ Href(register) = Link(<<"register">>)
    /\ Href(password_request) = Link(<<"forgot-password">>)
<1>1. \A path : Plain(path) => \A as : Href(RouteDefinition(as, GetHead, path)) = Link(path)
  BY GeneratedSends, FirstVerbs, Zenon DEF Link
<1>2. \A path : Plain(path) => \A as : Href(RouteDefinition(as, Post, path)) = Visit("post", path)
  BY GeneratedSends, FirstVerbs, Zenon
<1>3. /\ Href(profile_edit) = Link(<<"settings", "profile">>)
      /\ Href(security_edit) = Link(<<"settings", "security">>)
      /\ Href(appearance_edit) = Link(<<"settings", "appearance">>)
  BY <1>1, PlainWordsArePlain DEF PlainWords, profile_edit, security_edit, appearance_edit
<1>4. Href(logout) = Visit("post", <<"logout">>)
  BY <1>2, PlainWordsArePlain DEF PlainWords, logout
<1>5. Href(home) = Link(<<>>)
  BY <1>1, PlainWordsArePlain DEF home
<1>6. /\ Href(login) = Link(<<"login">>) /\ Href(register) = Link(<<"register">>)
      /\ Href(password_request) = Link(<<"forgot-password">>)
  BY <1>1, PlainWordsArePlain DEF PlainWords, login, register, password_request
<1>. QED  BY <1>3, <1>4, <1>5, <1>6

LEMMA FormsPost ==
    /\ FormOf(login_store) = Visit("post", <<"login">>)
    /\ FormOf(register_store) = Visit("post", <<"register">>)
    /\ FormOf(password_email) = Visit("post", <<"forgot-password">>)
    /\ FormOf(password_update) = Visit("post", <<"reset-password">>)
    /\ FormOf(password_confirm_store) = Visit("post", <<"user", "confirm-password">>)
    /\ FormOf(twoFactor_login_store) = Visit("post", <<"two-factor-challenge">>)
    /\ FormOf(verification_send) = Visit("post", <<"email", "verification-notification">>)
    /\ FormOf(twoFactor_enable) = Visit("post", <<"user", "two-factor-authentication">>)
    /\ FormOf(twoFactor_confirm) = Visit("post", <<"user", "confirmed-two-factor-authentication">>)
    /\ FormOf(twoFactor_regenerateRecoveryCodes) = Visit("post", <<"user", "two-factor-recovery-codes">>)
<1>1. \A path : Plain(path) => \A as : FormOf(RouteDefinition(as, Post, path)) = Visit("post", path)
  BY GeneratedSends, FirstVerbs, Zenon
<1>2. /\ FormOf(login_store) = Visit("post", <<"login">>)
      /\ FormOf(register_store) = Visit("post", <<"register">>)
      /\ FormOf(password_email) = Visit("post", <<"forgot-password">>)
      /\ FormOf(password_update) = Visit("post", <<"reset-password">>)
  BY <1>1, PlainWordsArePlain DEF PlainWords, login_store, register_store, password_email, password_update
<1>3. /\ FormOf(password_confirm_store) = Visit("post", <<"user", "confirm-password">>)
      /\ FormOf(twoFactor_login_store) = Visit("post", <<"two-factor-challenge">>)
      /\ FormOf(verification_send) = Visit("post", <<"email", "verification-notification">>)
  BY <1>1, PlainWordsArePlain DEF PlainWords, password_confirm_store, twoFactor_login_store, verification_send
<1>4. /\ FormOf(twoFactor_enable) = Visit("post", <<"user", "two-factor-authentication">>)
      /\ FormOf(twoFactor_confirm) = Visit("post", <<"user", "confirmed-two-factor-authentication">>)
      /\ FormOf(twoFactor_regenerateRecoveryCodes) = Visit("post", <<"user", "two-factor-recovery-codes">>)
  BY <1>1, PlainWordsArePlain
     DEF PlainWords, twoFactor_enable, twoFactor_confirm, twoFactor_regenerateRecoveryCodes
<1>. QED  BY <1>2, <1>3, <1>4

LEMMA FormsSpoof ==
    /\ FormOf(ProfileController_update) = SpoofedPost(<<"settings", "profile">>, "patch")
    /\ FormOf(SecurityController_update) = SpoofedPost(<<"settings", "password">>, "put")
    /\ FormOf(twoFactor_disable) = SpoofedPost(<<"user", "two-factor-authentication">>, "delete")
<1>1. /\ Plain(<<"settings", "profile">>) /\ Plain(<<"settings", "password">>)
      /\ Plain(<<"user", "two-factor-authentication">>)
  BY PlainWordsArePlain DEF PlainWords
<1>2. Patch[1] \in {"put", "patch", "delete"} /\ Put[1] \in {"put", "patch", "delete"}
      /\ Delete[1] \in {"put", "patch", "delete"}
  BY FirstVerbs
<1>3. FormOf(ProfileController_update) = SpoofedPost(<<"settings", "profile">>, Patch[1])
  BY <1>1, <1>2, GeneratedSends DEF ProfileController_update
<1>4. FormOf(SecurityController_update) = SpoofedPost(<<"settings", "password">>, Put[1])
  BY <1>1, <1>2, GeneratedSends DEF SecurityController_update
<1>5. FormOf(twoFactor_disable) = SpoofedPost(<<"user", "two-factor-authentication">>, Delete[1])
  BY <1>1, <1>2, GeneratedSends DEF twoFactor_disable
<1>. QED  BY <1>3, <1>4, <1>5, FirstVerbs

LEMMA FetchesSend ==
    /\ FetchOf(twoFactor_qrCode) = Fetch(<<"user", "two-factor-qr-code">>)
    /\ FetchOf(twoFactor_secretKey) = Fetch(<<"user", "two-factor-secret-key">>)
    /\ FetchOf(twoFactor_recoveryCodes) = Fetch(<<"user", "two-factor-recovery-codes">>)
<1>1. /\ Plain(<<"user", "two-factor-qr-code">>) /\ Plain(<<"user", "two-factor-secret-key">>)
      /\ Plain(<<"user", "two-factor-recovery-codes">>)
  BY PlainWordsArePlain DEF PlainWords
<1>2. \A path : Plain(path) => \A as : FetchOf(RouteDefinition(as, GetHead, path)) = Fetch(path)
  BY GeneratedSends, Zenon
<1>. QED  BY <1>1, <1>2, Zenon DEF twoFactor_qrCode, twoFactor_secretKey, twoFactor_recoveryCodes

-------------------------------------------------------------------------------
(* The offers, by whom they suit.                                              *)
LEMMA GuestOffersSuit ==
    ASSUME NEW gates
    PROVE  /\ Suits(Link(<<"login">>), gates) /\ Suits(Link(<<>>), gates)
           /\ Suits(Link(<<"forgot-password">>), gates)
           /\ Suits(Visit("put", <<"locale">>), gates) /\ Suits(Visit("post", <<"login">>), gates)
           /\ Suits(Visit("post", <<"register">>), gates) /\ Suits(Visit("post", <<"forgot-password">>), gates)
           /\ Suits(Visit("post", <<"reset-password">>), gates)
           /\ Suits(Visit("post", <<"two-factor-challenge">>), gates)
           /\ Suits(Fetch(<<"tls-activation", "status">>), gates)
<1>1. <<"login">> # <<"register">> /\ <<"forgot-password">> # <<"register">> /\ <<>> # <<"register">>
  OBVIOUS
<1>2. /\ Allows(gates, "get", <<"login">>) /\ Allows(gates, "get", <<>>)
      /\ Allows(gates, "get", <<"forgot-password">>)
  BY <1>1, FreeIsAllowed, FreePaths, FortifyRoutes_Reached, PublicRoutes_Reached DEF FreeWords
<1>3. /\ Allows(gates, "put", <<"locale">>) /\ Allows(gates, "post", <<"login">>)
      /\ Allows(gates, "post", <<"register">>) /\ Allows(gates, "post", <<"forgot-password">>)
  BY FreeIsAllowed, FreePaths, FortifyRoutes_Reached, PublicRoutes_Reached DEF FreeWords
<1>4. /\ Allows(gates, "post", <<"reset-password">>) /\ Allows(gates, "post", <<"two-factor-challenge">>)
      /\ Allows(gates, "get", <<"tls-activation", "status">>)
  BY FreeIsAllowed, FreePaths, FortifyRoutes_Reached, PublicRoutes_Reached DEF FreeWords
<1>. QED  BY <1>2, <1>3, <1>4, SuitsWhenAllowed

LEMMA UserOffersSuit ==
    ASSUME NEW gates
    PROVE  /\ Suits(Link(<<"dashboard">>), gates) /\ Suits(Visit("post", <<"logout">>), gates)
           /\ Suits(Link(<<"settings", "profile">>), gates) /\ Suits(Link(<<"settings", "security">>), gates)
           /\ Suits(Link(<<"settings", "appearance">>), gates)
           /\ Suits(SpoofedPost(<<"settings", "profile">>, "patch"), gates)
           /\ Suits(SpoofedPost(<<"settings", "password">>, "put"), gates)
           /\ Suits(SpoofedPost(<<"user", "two-factor-authentication">>, "delete"), gates)
           /\ Suits(Visit("post", <<"user", "confirm-password">>), gates)
           /\ Suits(Visit("post", <<"email", "verification-notification">>), gates)
           /\ Suits(Visit("post", <<"user", "two-factor-authentication">>), gates)
           /\ Suits(Visit("post", <<"user", "confirmed-two-factor-authentication">>), gates)
           /\ Suits(Visit("post", <<"user", "two-factor-recovery-codes">>), gates)
           /\ Suits(Fetch(<<"user", "two-factor-qr-code">>), gates)
           /\ Suits(Fetch(<<"user", "two-factor-secret-key">>), gates)
           /\ Suits(Fetch(<<"user", "two-factor-recovery-codes">>), gates)
<1>1. <<"dashboard">> # <<"register">>
  OBVIOUS
<1>2. /\ Allows(gates, "get", <<"dashboard">>) /\ Allows(gates, "post", <<"logout">>)
      /\ Allows(gates, "get", <<"settings", "profile">>) /\ Allows(gates, "get", <<"settings", "security">>)
      /\ Allows(gates, "get", <<"settings", "appearance">>)
  BY <1>1, FreeIsAllowed, FreePaths, FortifyRoutes_Reached, DeviceRoutes_Reached, SettingsRoutes_Reached
     DEF FreeWords
<1>3. /\ Allows(gates, "patch", <<"settings", "profile">>) /\ Allows(gates, "put", <<"settings", "password">>)
      /\ Allows(gates, "delete", <<"user", "two-factor-authentication">>)
  BY FreeIsAllowed, FreePaths, FortifyRoutes_Reached, SettingsRoutes_Reached DEF FreeWords
<1>4. /\ Allows(gates, "post", <<"user", "confirm-password">>)
      /\ Allows(gates, "post", <<"email", "verification-notification">>)
      /\ Allows(gates, "post", <<"user", "two-factor-authentication">>)
      /\ Allows(gates, "post", <<"user", "confirmed-two-factor-authentication">>)
      /\ Allows(gates, "post", <<"user", "two-factor-recovery-codes">>)
  BY FreeIsAllowed, FreePaths, FortifyRoutes_Reached DEF FreeWords
<1>5. /\ Allows(gates, "get", <<"user", "two-factor-qr-code">>)
      /\ Allows(gates, "get", <<"user", "two-factor-secret-key">>)
      /\ Allows(gates, "get", <<"user", "two-factor-recovery-codes">>)
  BY FreeIsAllowed, FreePaths, FortifyRoutes_Reached DEF FreeWords
<1>. QED  BY <1>2, <1>3, <1>4, <1>5, SuitsWhenAllowed, SuitsSpoofed

LEMMA GuestPagesSuit ==
    ASSUME NEW gates
    PROVE  /\ SuitsAll(LanguageSelector, gates) /\ SuitsAll({Href(home)}, gates)
           /\ SuitsAll(Welcome(TRUE), gates) /\ SuitsAll(Login(TRUE), gates)
           /\ SuitsAll(TlsActivation, gates) /\ SuitsAll(Register, gates)
           /\ SuitsAll(ForgotPassword, gates) /\ SuitsAll(ResetPassword, gates)
           /\ SuitsAll(ConfirmPassword, gates) /\ SuitsAll(TwoFactorChallenge, gates)
           /\ SuitsAll(VerifyEmail, gates)
<1>1. SuitsAll(LanguageSelector, gates) /\ SuitsAll({Href(home)}, gates)
  BY GuestOffersSuit, LinksSend DEF SuitsAll, LanguageSelector
<1>2. SuitsAll(Welcome(TRUE), gates) /\ SuitsAll(TlsActivation, gates)
  BY GuestOffersSuit DEF SuitsAll, Welcome, TlsActivation, LanguageSelector
<1>3. SuitsAll(Login(TRUE), gates) /\ SuitsAll(Register, gates)
  BY GuestOffersSuit, LinksSend, FormsPost DEF SuitsAll, Login, Register, If
<1>4. SuitsAll(ForgotPassword, gates) /\ SuitsAll(ResetPassword, gates)
  BY GuestOffersSuit, LinksSend, FormsPost DEF SuitsAll, ForgotPassword, ResetPassword
<1>5. SuitsAll(ConfirmPassword, gates) /\ SuitsAll(TwoFactorChallenge, gates) /\ SuitsAll(VerifyEmail, gates)
  BY GuestOffersSuit, UserOffersSuit, LinksSend, FormsPost
     DEF SuitsAll, ConfirmPassword, TwoFactorChallenge, VerifyEmail
<1>. QED  BY <1>1, <1>2, <1>3, <1>4, <1>5

(* Before the first user there is the link to the registration besides.        *)
LEMMA UnclaimedOffers ==
    \A o \in Welcome(FALSE) \cup Login(FALSE) : o \in Welcome(TRUE) \cup Login(TRUE) \/ o = Link(<<"register">>)
BY LinksSend DEF Welcome, Login, If

LEMMA SettingsSuit ==
    ASSUME NEW gates
    PROVE  /\ SuitsAll(UserMenu, gates) /\ SuitsAll(SettingsMenu, gates)
           /\ SuitsAll(Profile, gates) /\ SuitsAll(Security, gates)
<1>1. SuitsAll(UserMenu, gates) /\ SuitsAll(SettingsMenu, gates)
  BY UserOffersSuit, LinksSend DEF SuitsAll, UserMenu, SettingsMenu
<1>2. SuitsAll(Profile, gates) /\ SuitsAll(PasswordForm, gates)
  BY UserOffersSuit, GuestOffersSuit, FormsSpoof DEF SuitsAll, Profile, PasswordForm, LanguageSelector
<1>3. SuitsAll(TwoFactor, gates)
  BY UserOffersSuit, FormsPost, FormsSpoof DEF SuitsAll, TwoFactor
<1>4. SuitsAll(TwoFactorFetches, gates)
  BY UserOffersSuit, FetchesSend DEF SuitsAll, TwoFactorFetches
<1>. QED  BY <1>1, <1>2, <1>3, <1>4 DEF SuitsAll, Security

LEMMA AllowsMore ==
    ASSUME NEW gates, NEW more, gates \subseteq more, NEW verb, NEW path, Allows(gates, verb, path)
    PROVE  Allows(more, verb, path)
BY DEF Allows, Passes

LEMMA DeviceIsRead ==
    ASSUME NEW gates, NEW path, ~ForOwner(path), ~ForAdmins(path), Usual(path), Routed("get", path)
    PROVE  /\ Suits(Link(path), gates) /\ Suits(Fetch(path), gates)
           /\ \A query : Suits(Request("visit", "get", path, query), gates)
<1>1. Allows({}, "get", path) /\ {} \subseteq gates
  BY DeviceIsAllowed
<1>2. Allows(gates, "get", path)
  BY <1>1, AllowsMore
<1>. QED  BY <1>2, SuitsWhenAllowed

LEMMA DeviceIsChanged ==
    ASSUME NEW gates, "staff" \in gates, NEW method, NEW path,
           ~ForOwner(path), ~ForAdmins(path), Usual(path), Routed(method, path)
    PROVE  Suits(Visit(method, path), gates)
<1>1. Allows({"staff"}, method, path) /\ {"staff"} \subseteq gates
  BY DeviceIsAllowed
<1>2. Allows(gates, method, path)
  BY <1>1, AllowsMore
<1>. QED  BY <1>2, SuitsWhenAllowed

LEMMA IsAdministered ==
    ASSUME NEW gates, {"staff", "admins"} \subseteq gates, NEW method, NEW path,
           ~ForOwner(path), Usual(path), Routed(method, path)
    PROVE  /\ Suits(Visit(method, path), gates)
           /\ method = "get" => /\ Suits(Link(path), gates)
                                /\ \A query : Suits(Request("visit", "get", path, query), gates)
<1>1. Allows(gates, method, path)
  BY AdminsAreAllowed, AllowsMore
<1>. QED  BY <1>1, SuitsWhenAllowed

LEMMA IsOwned ==
    ASSUME NEW method, NEW path, Usual(path), Routed(method, path)
    PROVE  /\ Suits(Visit(method, path), {"staff", "admins", "owner"})
           /\ method = "get" => /\ Suits(Link(path), {"staff", "admins", "owner"})
                                /\ Suits(Fetch(path), {"staff", "admins", "owner"})
BY OwnerIsAllowed, SuitsWhenAllowed

LEMMA DeviceOffersSuit ==
    ASSUME NEW gates
    PROVE  /\ Suits(Link(<<"devices">>), gates) /\ Suits(Link(<<"devices", "7", "configuration">>), gates)
           /\ Suits(Link(<<"devices", "7", "edit">>), gates)
           /\ Suits(Fetch(<<"devices", "7", "collection-runs">>), gates)
           /\ Suits(Fetch(<<"devices", "7", "configuration", "diff">>), gates)
           /\ Suits(Fetch(<<"collection-runs", "7", "events">>), gates)
           /\ Suits(Fetch(<<"collection-runs", "7", "stream">>), gates)
           /\ \A query : /\ Suits(Request("visit", "get", <<"devices", "export">>, query), gates)
                         /\ Suits(Request("visit", "get", <<"devices">>, query), gates)
                         /\ Suits(Request("visit", "get", <<"devices", "7", "edit">>, query), gates)
                         /\ Suits(Request("visit", "get",
                                          <<"devices", "7", "configuration", "download">>, query), gates)
<1>1. /\ Suits(Link(<<"devices">>), gates)
      /\ \A query : /\ Suits(Request("visit", "get", <<"devices", "export">>, query), gates)
                    /\ Suits(Request("visit", "get", <<"devices">>, query), gates)
  BY DeviceIsRead, DevicePaths, DeviceRoutes_Reached
<1>2. "edit" \notin AdminsTails /\ "configuration" \notin AdminsTails /\ "collection-runs" \notin AdminsTails
  BY DEF AdminsTails
<1>3. /\ Suits(Link(<<"devices", "7", "configuration">>), gates)
      /\ Suits(Link(<<"devices", "7", "edit">>), gates)
      /\ Suits(Fetch(<<"devices", "7", "collection-runs">>), gates)
      /\ \A query : Suits(Request("visit", "get", <<"devices", "7", "edit">>, query), gates)
  BY <1>2, DeviceIsRead, DevicePaths, DeviceRoutes_Reached, ConfigurationRoutes_Reached
<1>4. /\ Suits(Fetch(<<"devices", "7", "configuration", "diff">>), gates)
      /\ \A query : Suits(Request("visit", "get", <<"devices", "7", "configuration", "download">>, query), gates)
  BY DeviceIsRead, DevicePaths, ConfigurationRoutes_Reached
<1>5. <<"collection-runs", "7", "events">> # <<"register">> /\ <<"collection-runs", "7", "stream">> # <<"register">>
  OBVIOUS
<1>6. /\ Suits(Fetch(<<"collection-runs", "7", "events">>), gates)
      /\ Suits(Fetch(<<"collection-runs", "7", "stream">>), gates)
  BY <1>5, FreeIsAllowed, FreePaths, ConfigurationRoutes_Reached, SuitsWhenAllowed
<1>. QED  BY <1>1, <1>3, <1>4, <1>6

LEMMA StaffOffersSuit ==
    ASSUME NEW gates, "staff" \in gates
    PROVE  /\ Suits(Visit("post", <<"devices", "import">>), gates) /\ Suits(Visit("post", <<"devices">>), gates)
           /\ Suits(Visit("delete", <<"devices", "7">>), gates) /\ Suits(Visit("put", <<"devices", "7">>), gates)
           /\ Suits(Visit("post", <<"devices", "7", "collect">>), gates)
<1>1. "collect" \notin AdminsTails
  BY DEF AdminsTails
<1>. QED  BY <1>1, DeviceIsChanged, DevicePaths, DeviceRoutes_Reached

LEMMA ManagerOffersSuit ==
    ASSUME NEW gates, {"staff", "admins"} \subseteq gates
    PROVE  /\ \A tail \in {"approve", "revoke-approval", "force-collect", "diagnostics"} :
                 Suits(Visit("post", <<"devices", "7", tail>>), gates)
           /\ Suits(Link(<<"collection-runs", "7", "trace">>), gates)
           /\ \A query : Suits(Request("visit", "get",
                                       <<"collection-runs", "7", "trace", "download">>, query), gates)
<1>1. \A tail \in {"approve", "revoke-approval", "force-collect", "diagnostics"} :
         Suits(Visit("post", <<"devices", "7", tail>>), gates)
  BY IsAdministered, AdminsOnly, DeviceRoutes_Reached
<1>2. Suits(Link(<<"collection-runs", "7", "trace">>), gates)
  BY IsAdministered, AdminsOnly, ConfigurationRoutes_Reached
<1>3. \A query : Suits(Request("visit", "get", <<"collection-runs", "7", "trace", "download">>, query), gates)
  BY IsAdministered, AdminsOnly, ConfigurationRoutes_Reached
<1>. QED  BY <1>1, <1>2, <1>3

-------------------------------------------------------------------------------
(* The pages, by their roles: what each offers suits the role it is drawn      *)
(* for.                                                                        *)
LEMMA DevicePagesSuit ==
    ASSUME NEW role
    PROVE  /\ SuitsAll(Dashboard, RoleGate(role)) /\ SuitsAll(DevicesIndex(role), RoleGate(role))
           /\ SuitsAll(EditDevice(role), RoleGate(role)) /\ SuitsAll(ConfigurationShow, RoleGate(role))
<1>1. Operates(role) => "staff" \in RoleGate(role)
  BY RoleGates
<1>2. Manages(role) => {"staff", "admins"} \subseteq RoleGate(role)
  BY RoleGates
<1>3. SuitsAll(Dashboard, RoleGate(role)) /\ SuitsAll(ConfigurationShow, RoleGate(role))
  BY DeviceOffersSuit DEF SuitsAll, Dashboard, ConfigurationShow
<1>4. SuitsAll(DevicesToolbar(role), RoleGate(role)) /\ SuitsAll(NewDevice(role), RoleGate(role))
  BY <1>1, DeviceOffersSuit, StaffOffersSuit DEF SuitsAll, DevicesToolbar, NewDevice, If
<1>5. SuitsAll(DeviceRow(role), RoleGate(role))
  BY <1>1, <1>2, DeviceOffersSuit, StaffOffersSuit, ManagerOffersSuit DEF SuitsAll, DeviceRow, If
<1>6. SuitsAll(CollectDialog(role), RoleGate(role))
  BY <1>1, <1>2, StaffOffersSuit, ManagerOffersSuit DEF SuitsAll, CollectDialog, If
<1>7. SuitsAll(EditApproval(role), RoleGate(role)) /\ SuitsAll(EditForm(role), RoleGate(role))
  BY <1>1, <1>2, DeviceOffersSuit, StaffOffersSuit, ManagerOffersSuit DEF SuitsAll, EditApproval, EditForm, If
<1>8. SuitsAll(CollectionHistory(Manages(role)), RoleGate(role))
  BY <1>2, DeviceOffersSuit, ManagerOffersSuit DEF SuitsAll, CollectionHistory, If
<1>9. SuitsAll(ArtifactPanel(Manages(role)), RoleGate(role))
  BY <1>2, ManagerOffersSuit DEF SuitsAll, ArtifactPanel, If
<1>10. SuitsAll(DevicesIndex(role), RoleGate(role))
  BY <1>4, <1>5, <1>6 DEF SuitsAll, DevicesIndex
<1>11. SuitsAll(EditDevice(role), RoleGate(role))
  BY <1>7, <1>8, <1>9 DEF SuitsAll, EditDevice
<1>. QED  BY <1>3, <1>10, <1>11

LEMMA TraceSuits ==
    ASSUME NEW role, Manages(role)
    PROVE  SuitsAll(CollectionTrace, RoleGate(role))
<1>1. {"staff", "admins"} \subseteq RoleGate(role)
  BY RoleGates
<1>. QED  BY <1>1, DeviceOffersSuit, ManagerOffersSuit DEF SuitsAll, CollectionTrace

(* The pages of the administration, for one who manages.                       *)
LEMMA InventorySuits ==
    ASSUME NEW gates, {"staff", "admins"} \subseteq gates
    PROVE  SuitsAll(Credentials, gates) /\ SuitsAll(Catalog, gates) /\ SuitsAll(CustomModels, gates)
<1>1. {"credentials", "catalog", "models"} \subseteq AdminsWords \ {"users", "system"}
  BY DEF AdminsWords
<1>2. SuitsAll(Credentials, gates)
  BY <1>1, IsAdministered, AdminsOnly, CatalogRoutes_Reached DEF SuitsAll, Credentials
<1>3. Suits(Visit("post", <<"catalog">>), gates)
  BY <1>1, IsAdministered, AdminsOnly, CatalogRoutes_Reached
<1>4. \A kind \in Kinds : Suits(Visit("delete", <<"catalog", kind, "7">>), gates)
  BY <1>1, IsAdministered, AdminsOnly, CatalogRoutes_Reached
<1>5. SuitsAll(Catalog, gates)
  BY <1>3, <1>4 DEF SuitsAll, Catalog, Kinds
<1>6. SuitsAll(CustomModels, gates)
  BY <1>1, IsAdministered, AdminsOnly, CatalogRoutes_Reached DEF SuitsAll, CustomModels
<1>. QED  BY <1>2, <1>5, <1>6

LEMMA ConnectionsSuit ==
    ASSUME NEW gates, {"staff", "admins"} \subseteq gates
    PROVE  /\ SuitsAll(Integrations, gates) /\ SuitsAll(Notifications, gates)
           /\ SuitsAll(DestinationCard \cup NewDestination, gates) /\ SuitsAll(Audit, gates)
           /\ SuitsAll(SystemForm, gates) /\ SuitsAll(InviteForm, gates)
<1>1. {"integrations", "notifications", "data-protection"} \subseteq AdminsWords \ {"users", "system"}
      /\ {"audit", "system", "users"} \subseteq AdminsWords
  BY DEF AdminsWords
<1>2. SuitsAll(Integrations, gates)
  BY <1>1, IsAdministered, AdminsOnly, IntegrationRoutes_Reached DEF SuitsAll, Integrations
<1>3. SuitsAll(Notifications, gates)
  BY <1>1, IsAdministered, AdminsOnly, IntegrationRoutes_Reached DEF SuitsAll, Notifications
<1>4. SuitsAll(DestinationCard \cup NewDestination, gates)
  BY <1>1, IsAdministered, AdminsOnly, IntegrationRoutes_Reached DEF SuitsAll, DestinationCard, NewDestination
<1>5. SuitsAll(Audit, gates) /\ SuitsAll(SystemForm, gates) /\ SuitsAll(InviteForm, gates)
  BY <1>1, IsAdministered, AdminsOnly, AdministrationRoutes_Reached DEF SuitsAll, Audit, SystemForm, InviteForm
<1>. QED  BY <1>2, <1>3, <1>4, <1>5

LEMMA UsersSuit ==
    ASSUME NEW role, Manages(role)
    PROVE  SuitsAll(Users(role), RoleGate(role))
<1>1. /\ {"staff", "admins"} \subseteq RoleGate(role)
      /\ IsOwner(role) => RoleGate(role) = {"staff", "admins", "owner"}
  BY RoleGates
<1>2. ASSUME NEW row  PROVE SuitsAll(UserForm(role, row), RoleGate(role))
  <2>1. ~ForOwner(<<"users", row.id>>) /\ Usual(<<"users", row.id>>)
    BY AdminsOnly DEF AdminsWords
  <2>. QED  BY <1>1, <2>1, IsAdministered, AdministrationRoutes_Reached DEF SuitsAll, UserForm, If
<1>3. ASSUME NEW row  PROVE SuitsAll(TransferButton(role, row), RoleGate(role))
  <2>1. Usual(<<"users", row.id, "transfer-ownership">>)
    BY DEF Usual
  <2>. QED  BY <1>1, <2>1, IsOwned, AdministrationRoutes_Reached DEF SuitsAll, TransferButton, If
<1>4. SuitsAll(InviteForm, RoleGate(role))
  BY <1>1, ConnectionsSuit
<1>5. ASSUME NEW o \in Users(role)  PROVE Suits(o, RoleGate(role))
  <2>1. o \in InviteForm \/ \E row : o \in UserForm(role, row) \cup TransferButton(role, row)
    BY DEF Users
  <2>. QED  BY <1>2, <1>3, <1>4, <2>1 DEF SuitsAll
<1>. QED  BY <1>5 DEF SuitsAll

LEMMA SystemSuits ==
    ASSUME NEW role, Manages(role)
    PROVE  SuitsAll(SystemForm \cup DangerousFeatures(role), RoleGate(role))
<1>1. /\ {"staff", "admins"} \subseteq RoleGate(role)
      /\ IsOwner(role) => RoleGate(role) = {"staff", "admins", "owner"}
  BY RoleGates
<1>2. SuitsAll(SystemForm, RoleGate(role))
  BY <1>1, ConnectionsSuit
<1>3. \A f \in Features :
        Suits(Visit("patch", <<"system", "dangerous-features", f>>), {"staff", "admins", "owner"})
  BY IsOwned, AdministrationRoutes_Reached DEF Usual
<1>4. SuitsAll(DangerousFeatures(role), RoleGate(role))
  BY <1>1, <1>3 DEF SuitsAll, DangerousFeatures, If, Features
<1>. QED  BY <1>2, <1>4 DEF SuitsAll

(* The pages of the owner.                                                     *)
LEMMA OwnersPagesSuit ==
    ASSUME NEW role, IsOwner(role)
    PROVE  /\ SuitsAll(UpdatesCheck \cup UpdatesAcknowledge \cup UpdatesPolicy \cup UpdateDialog, RoleGate(role))
           /\ SuitsAll(Setup, RoleGate(role)) /\ SuitsAll(UpdateBanner(role), RoleGate(role))
<1>. DEFINE gates == {"staff", "admins", "owner"}
<1>1. RoleGate(role) = gates
  BY RoleGates
<1>2. SuitsAll(UpdatesCheck, gates) /\ SuitsAll(UpdatesAcknowledge, gates)
  BY IsOwned, AdministrationRoutes_Reached DEF SuitsAll, UpdatesCheck, UpdatesAcknowledge, Usual
<1>3. SuitsAll(UpdatesPolicy, gates) /\ SuitsAll(UpdateDialog, gates)
  BY IsOwned, AdministrationRoutes_Reached DEF SuitsAll, UpdatesPolicy, UpdateDialog, Usual
<1>4. SuitsAll(UpdateBanner(role), gates)
  BY IsOwned, AdministrationRoutes_Reached DEF SuitsAll, UpdateBanner, If, Usual
<1>5. SuitsAll(Setup, gates)
  <2>1. Suits(Visit("post", <<"setup">>), gates)
    BY IsOwned, SetupRoutes_Reached DEF Usual
  <2>. QED  BY <2>1, GuestOffersSuit DEF SuitsAll, Setup, LanguageSelector
<1>. QED  BY <1>1, <1>2, <1>3, <1>4, <1>5 DEF SuitsAll

LEMMA SidebarSuits ==
    ASSUME NEW role
    PROVE  SuitsAll(AppSidebar(role), RoleGate(role)) /\ SuitsAll(UpdateBanner(role), RoleGate(role))
<1>1. Manages(role) => {"staff", "admins"} \subseteq RoleGate(role)
  BY RoleGates
<1>2. IsOwner(role) => RoleGate(role) = {"staff", "admins", "owner"}
  BY RoleGates
<1>3. /\ \A p \in {"dashboard", "devices"} : Suits(Link(<<p>>), RoleGate(role))
      /\ Suits(Link(<<"settings", "profile">>), RoleGate(role))
  BY UserOffersSuit, DeviceOffersSuit
<1>4. ASSUME Manages(role), NEW p \in AdminsWords  PROVE Suits(Link(<<p>>), RoleGate(role))
  <2>1. ~ForOwner(<<p>>) /\ Usual(<<p>>)
    BY AdminsOnly
  <2>2. Routed("get", <<p>>)
    BY CatalogRoutes_Reached, IntegrationRoutes_Reached, AdministrationRoutes_Reached DEF AdminsWords
  <2>. QED  BY <1>1, <1>4, <2>1, <2>2, IsAdministered
<1>5. IsOwner(role) => Suits(Link(<<"updates">>), RoleGate(role))
  BY <1>2, IsOwned, AdministrationRoutes_Reached DEF Usual
<1>6. SuitsAll(AppSidebar(role), RoleGate(role))
  BY <1>3, <1>4, <1>5 DEF SuitsAll, AppSidebar, If, AdminsWords
<1>7. SuitsAll(UpdateBanner(role), RoleGate(role))
  BY OwnersPagesSuit DEF SuitsAll, UpdateBanner, If
<1>. QED  BY <1>6, <1>7

LEMMA AroundSuits ==
    ASSUME NEW component, NEW role
    PROVE  SuitsAll(Around(component, role), RoleGate(role))
<1>1. SuitsAll({Href(home)} \cup LanguageSelector, RoleGate(role))
  BY GuestPagesSuit DEF SuitsAll
<1>2. SuitsAll(AppSidebar(role) \cup UserMenu \cup UpdateBanner(role)
               \cup If(Layout(component) = "settings", SettingsMenu), RoleGate(role))
  BY SidebarSuits, SettingsSuit DEF SuitsAll, If
<1>. QED  BY <1>1, <1>2 DEF SuitsAll, Around

-------------------------------------------------------------------------------
(* Whom a page is for, and the two offers that depend on something else than   *)
(* a role.                                                                     *)
ManagersPages ==
    {"collection-runs/trace", "credentials/index", "catalog/index", "models/index", "integrations/index",
     "notifications/index", "data-protection/index", "users/index", "audit/index", "system/index"}

IsFor(component, role) ==
    /\ component \in ManagersPages => Manages(role)
    /\ component \in {"updates/index", "setup"} => IsOwner(role)
    /\ component = "restore" => role \in {Nobody, "owner"}

Apart(o, component, claimed) ==
    \/ ~claimed /\ o = Link(<<"register">>)
    \/ component = "restore" /\ o = Visit("post", <<"restore">>)

LEMMA OffersSuit ==
    ASSUME NEW component \in Components, NEW role, NEW claimed \in BOOLEAN, IsFor(component, role),
           NEW o \in Offers(component, role, claimed)
    PROVE  Suits(o, RoleGate(role)) \/ Apart(o, component, claimed)
<1>. DEFINE gates == RoleGate(role)
<1>. HIDE DEF gates
<1>1. SuitsAll(Around(component, role), gates)
  BY AroundSuits DEF gates
<1>2. CASE component \in {"welcome", "auth/login"}
  <2>1. o \in Around(component, role) \cup Welcome(claimed) \cup Login(claimed)
    BY <1>2 DEF Offers
  <2>2. \/ o \in Around(component, role) \cup Welcome(TRUE) \cup Login(TRUE)
        \/ ~claimed /\ o = Link(<<"register">>)
    <3>1. CASE claimed = TRUE
      BY <2>1, <3>1
    <3>2. CASE claimed = FALSE
      BY <2>1, <3>2, UnclaimedOffers
    <3>. QED  BY <3>1, <3>2
  <2>3. SuitsAll(Welcome(TRUE), gates) /\ SuitsAll(Login(TRUE), gates)
    BY GuestPagesSuit
  <2>. QED  BY <1>1, <2>2, <2>3 DEF SuitsAll, Apart, gates
<1>3. CASE component \in {"setup", "tls-activation"}
  BY <1>1, <1>3, OwnersPagesSuit, GuestPagesSuit DEF SuitsAll, Offers, IsFor, gates
<1>4. CASE component = "restore"
  <2>1. o \in Around(component, role) \cup Restore
    BY <1>4 DEF Offers
  <2>. QED  BY <1>1, <1>4, <2>1, GuestPagesSuit DEF SuitsAll, Restore, Apart, gates
<1>5. CASE component \in {"auth/register", "auth/forgot-password", "auth/reset-password"}
  BY <1>1, <1>5, GuestPagesSuit DEF SuitsAll, Offers, gates
<1>6. CASE component \in {"auth/confirm-password", "auth/two-factor-challenge", "auth/verify-email"}
  BY <1>1, <1>6, GuestPagesSuit DEF SuitsAll, Offers, gates
<1>7. CASE component \in {"dashboard", "devices/index", "devices/edit", "configurations/show"}
  BY <1>1, <1>7, DevicePagesSuit DEF SuitsAll, Offers, gates
<1>8. CASE component \in ManagersPages
  <2>1. Manages(role) /\ {"staff", "admins"} \subseteq gates
    BY <1>8 DEF IsFor, Manages, RoleGate, gates
  <2>2. CASE component \in {"collection-runs/trace", "credentials/index", "catalog/index", "models/index"}
    BY <1>1, <2>1, <2>2, TraceSuits, InventorySuits DEF SuitsAll, Offers, gates
  <2>3. CASE component \in {"integrations/index", "notifications/index", "data-protection/index"}
    BY <1>1, <2>1, <2>3, ConnectionsSuit DEF SuitsAll, Offers, gates
  <2>4. CASE component \in {"users/index", "audit/index", "system/index"}
    BY <1>1, <2>1, <2>4, ConnectionsSuit, UsersSuit, SystemSuits DEF SuitsAll, Offers, gates
  <2>. QED  BY <1>8, <2>2, <2>3, <2>4 DEF ManagersPages
<1>9. CASE component = "updates/index"
  BY <1>1, <1>9, OwnersPagesSuit DEF SuitsAll, Offers, IsFor, gates
<1>10. CASE component \in {"settings/profile", "settings/security", "settings/appearance"}
  BY <1>1, <1>10, SettingsSuit DEF SuitsAll, Offers, gates
<1>. QED  BY <1>2, <1>3, <1>4, <1>5, <1>6, <1>7, <1>8, <1>9, <1>10 DEF Components, ManagersPages, gates

(* So every offer of a page reaches a route and passes its roles.              *)
LEMMA OfferReaches ==
    ASSUME NEW component \in Components, NEW role, NEW claimed \in BOOLEAN, IsFor(component, role),
           NEW o \in Offers(component, role, claimed)
    PROVE  /\ Routed(Verb(o), o.path) /\ Passes(RoleGate(role), Verb(o), o.path)
           /\ o.path = <<"register">> => Verb(o) = "post" \/ ~claimed
           /\ o.path = <<"restore">> => component = "restore"
<1>1. CASE Suits(o, RoleGate(role))
  BY <1>1 DEF Suits, Allows
<1>2. CASE ~claimed /\ o = Link(<<"register">>)
  <2>1. Verb(o) = "get" /\ o.path = <<"register">>
    BY <1>2, GetIsGet DEF Verb, Link, Visit, Request
  <2>2. Free(<<"register">>)
    BY FreePaths DEF FreeWords
  <2>3. <<"register">> # <<"restore">>
    OBVIOUS
  <2>. QED  BY <1>2, <2>1, <2>2, <2>3, FortifyRoutes_Reached DEF Free, Passes
<1>3. CASE component = "restore" /\ o = Visit("post", <<"restore">>)
  <2>1. Verb(o) = "post" /\ o.path = <<"restore">>
    BY <1>3, PlainVerb DEF Verb, Visit, Request
  <2>2. ~ForOwner(<<"restore">>) /\ ~ForAdmins(<<"restore">>) /\ ~ForStaff(<<"restore">>)
    BY DEF ForOwner, ForAdmins, ForStaff, OwnersWords, AdminsWords
  <2>. QED  BY <1>3, <2>1, <2>2, PublicRoutes_Reached DEF Passes
<1>. QED  BY <1>1, <1>2, <1>3, OffersSuit DEF Apart

(* What the pages of guests fetch is open to guests.                           *)
LEMMA GuestsFetch ==
    ASSUME NEW component \in Components, Layout(component) \notin {"app", "settings"},
           NEW role, NEW claimed, NEW o \in Offers(component, role, claimed), o.by = "fetch"
    PROVE  ~ForUsers(o.path)
<1>1. \A route : Href(route).by = "visit" /\ FormOf(route).by = "visit"
  BY DEF Href, FormOf, Built, Request
<1>2. \A method, path : Visit(method, path).by = "visit" /\ Link(path).by = "visit"
  BY DEF Visit, Link, Request
<1>3. "visit" # "fetch"
  OBVIOUS
<1>4. Layout(component) # "settings" /\ Layout(component) # "app"
  OBVIOUS
<1>5. component \in {"welcome", "setup", "tls-activation", "auth/login", "auth/register",
                    "auth/forgot-password", "auth/reset-password", "auth/confirm-password",
                    "auth/two-factor-challenge", "auth/verify-email"}
  BY <1>4 DEF Layout
<1>6. o \notin Around(component, role) /\ o \notin LanguageSelector
  BY <1>1, <1>2, <1>3, <1>4 DEF Around, LanguageSelector
<1>7. o \notin Welcome(claimed) /\ o \notin Setup
  BY <1>2, <1>3 DEF Welcome, Setup, LanguageSelector
<1>8. o \notin Login(claimed) /\ o \notin Register /\ o \notin ForgotPassword /\ o \notin ResetPassword
  BY <1>1, <1>3 DEF Login, Register, ForgotPassword, ResetPassword, If
<1>9. o \notin ConfirmPassword /\ o \notin TwoFactorChallenge /\ o \notin VerifyEmail
  BY <1>1, <1>3 DEF ConfirmPassword, TwoFactorChallenge, VerifyEmail
<1>10. o \in TlsActivation
  BY <1>5, <1>6, <1>7, <1>8, <1>9 DEF Offers
<1>11. o = Fetch(<<"tls-activation", "status">>)
  BY <1>6, <1>10 DEF TlsActivation
<1>12. o.path = <<"tls-activation", "status">>
  BY <1>11 DEF Fetch, Request
<1>13. "tls-activation" \notin UsersWords
  BY DEF UsersWords, OwnersWords, AdminsWords
<1>. QED  BY <1>12, <1>13 DEF ForUsers

-------------------------------------------------------------------------------
(* The invariant: until the set-up is done there is only the owner, the page   *)
(* that is open is for the role it was drawn for, and what is pressed is on    *)
(* it.                                                                         *)
Placed ==
    /\ installed # "ready" => user.role = "owner"
    /\ IsFor(page.component, page.role)
    /\ page.drawn /\ Layout(page.component) \in {"app", "settings"} => page.role # Nobody

Pressed ==
    request.why = "offer" =>
        /\ page.drawn
        /\ \E o \in Offers(page.component, page.role, page.claimed) : request = Ask("offer", 0, o)

OffersInv == Placed /\ Pressed /\ OfferedIsAccepted

LEMMA AskedFor ==
    ASSUME NEW why, NEW hops, NEW o
    PROVE  LET r == Ask(why, hops, o)
           IN r.why = why /\ r.by = o.by /\ r.method = o.method /\ r.path = o.path /\ r.query = o.query
BY DEF Ask

(* The route of any request that finds one is known.                           *)
LEMMA FoundIsKnown ==
    ASSUME SessionInv, request # None, RouteOf(request).name \notin {"404", "405"}
    PROVE  Known(RouteOf(request))
<1>1. PICK i \in DOMAIN Routes : RouteOf(request) = Routes[i]
  BY RouteOfRequest, ResolveReaches, ResolveMisses, MissedIsMissing DEF SessionInv
<1>. QED  BY <1>1, RoutesAreKnown DEF ElementsOf

LEMMA OneSegment ==
    ASSUME NEW route, NEW word, route.path = <<word>>, word \notin ServerParameters,
           NEW path, IsPath(path), MatchesPath(route, path)
    PROVE  path = <<word>>
<1>1. Len(path) = 1
  BY DEF MatchesPath
<1>. DEFINE s == [i \in 1..1 |-> path[i]]
<1>2. path = s /\ DOMAIN path = 1..1
  BY <1>1 DEF IsPath
<1>3. s = <<path[1]>>
  OBVIOUS
<1>4. route.path[1] = word
  OBVIOUS
<1>5. path[1] = word
  BY <1>2, <1>4 DEF MatchesPath, Fits
<1>. HIDE DEF s
<1>. QED  BY <1>2, <1>3, <1>5

(* What is pressed while things are as the page was drawn for.                 *)
LEMMA OfferArrives ==
    ASSUME SessionInv, Placed, Pressed, request # None, request.why = "offer", Current
    PROVE  LET route == RouteOf(request)
           IN /\ route.name \notin {"404", "405"}
              /\ route.gates \cap {"staff", "admins", "owner"} \subseteq RoleGate(page.role)
              /\ "auth" \in route.gates /\ session # "in" => request.by # "fetch"
              /\ route.name = "register" => ~Claimed
              /\ route.name \in {"restore.index", "restore.store"} => Viewer \in {Nobody, "owner"}
<1>. DEFINE route == RouteOf(request)
<1>1. PICK o \in Offers(page.component, page.role, page.claimed) : request = Ask("offer", 0, o)
  BY DEF Pressed
<1>2. /\ request.by = o.by /\ request.path = o.path
      /\ EffectiveMethod(request.method, request.query) = Verb(o)
  BY <1>1, AskedFor DEF Verb
<1>3. page.component \in Components /\ page.claimed \in BOOLEAN /\ page.role \in Roles \cup {Nobody}
  BY DEF SessionInv, Paged
<1>4. IsPath(o.path)
  BY <1>3, OffersAreRequests DEF OnlyOffers, IsOffer, Segments
<1>5. /\ Routed(Verb(o), o.path) /\ Passes(RoleGate(page.role), Verb(o), o.path)
      /\ o.path = <<"register">> => Verb(o) = "post" \/ ~page.claimed
      /\ o.path = <<"restore">> => page.component = "restore"
  BY <1>3, OfferReaches DEF Placed
<1>6. PICK i \in DOMAIN Routes :
        route = Routes[i] /\ Sound(Routes[i]) /\ Serves(Routes[i], Verb(o), o.path)
  <2>1. \E i \in DOMAIN Routes : Serves(Routes[i], Verb(o), o.path)
    BY <1>5 DEF Routed, ElementsOf
  <2>. QED  BY <1>2, <2>1, RouteOfRequest, ResolveReaches DEF SessionInv
<1>7. Routes[i] \in ElementsOf(Routes) /\ Known(Routes[i])
  BY RoutesAreKnown DEF ElementsOf
<1>8. route.name \notin {"404", "405"}
  BY <1>6 DEF Sound, IsFound
<1>9. route.gates \cap {"staff", "admins", "owner"} \subseteq RoleGate(page.role)
  BY <1>4, <1>5, <1>6, <1>7, PassingIsEnough
<1>10. ASSUME "auth" \in route.gates, session # "in"  PROVE request.by # "fetch"
  <2>1. page.role = Nobody /\ page.drawn
    BY <1>10 DEF Current, Viewer, Pressed
  <2>2. Layout(page.component) \notin {"app", "settings"}
    BY <2>1 DEF Placed
  <2>3. ForUsers(o.path)
    BY <1>4, <1>6, <1>7, <1>10, MatchedPath DEF Known, Judged, Serves
  <2>. QED  BY <1>2, <1>3, <2>2, <2>3, GuestsFetch
<1>11. {"register", "restore"} \cap ServerParameters = {}
  BY DEF ServerParameters, Parameters
<1>12. ASSUME route.name = "register"  PROVE ~Claimed
  <2>1. route.methods = GetHead
    BY <1>6, <1>12 DEF Sound, IsGot, PagesForGuests
  <2>2. Verb(o) # "post"
    BY <1>6, <2>1 DEF Serves, ToSet, GetHead
  <2>3. o.path = <<"register">>
    BY <1>4, <1>6, <1>7, <1>11, <1>12, OneSegment DEF Known, Called, Serves
  <2>. QED  BY <1>5, <2>2, <2>3 DEF Current
<1>13. ASSUME route.name \in {"restore.index", "restore.store"}  PROVE Viewer \in {Nobody, "owner"}
  <2>1. o.path = <<"restore">>
    BY <1>4, <1>6, <1>7, <1>11, <1>13, OneSegment DEF Known, Called, Serves
  <2>. QED  BY <1>5, <2>1 DEF Placed, IsFor, Current
<1>. QED  BY <1>8, <1>9, <1>10, <1>12, <1>13

-------------------------------------------------------------------------------
(* Every answer is an answer to the request, and leads to a page or away.      *)
Leads ==
    /\ \E code : Answered(code)
    /\ \/ request' = None /\ UNCHANGED page
       \/ (\E path : request' = Ask("redirect", request.hops + 1, Link(path))) /\ UNCHANGED page
       \/ request' = None /\ \E component : Show(component)

Accepts == \E code \in {"page", "redirect", "data", "locked", "invalid", "insecure",
                        "forbidden"} : Answered(code)

LEMMA Answers ==
    /\ \A code : Stay(code) => Leads /\ Answered(code)
    /\ \A path : Redirect(path) => Leads /\ Accepts
    /\ Back => Leads /\ Accepts
    /\ Intended => Leads /\ Accepts
    /\ \A component : Show(component) => Leads /\ Accepts
<1>1. \A code : Stay(code) => Leads /\ Answered(code)
  BY DEF Stay, Leads
<1>2. \A path : Redirect(path) => Leads /\ Accepts
  BY DEF Redirect, Leads, Accepts
<1>3. \A component : Show(component) => Leads /\ Accepts
  BY DEF Show, Leads, Accepts
<1>4. (Back => Leads /\ Accepts) /\ (Intended => Leads /\ Accepts)
  BY <1>2 DEF Back, Intended
<1>. QED  BY <1>1, <1>2, <1>3, <1>4

LEMMA Stays ==
    ASSUME NEW code \in {"data", "locked", "invalid", "insecure", "forbidden"}, Stay(code)
    PROVE  Leads /\ Accepts
BY Answers DEF Accepts

LEMMA TurnsAway ==
    ASSUME NEW route, TurnedAway(route)
    PROVE  /\ Leads
           /\ \/ Accepts
              \/ Gate(route) = "missing"
              \/ Gate(route) = "inactive"
              \/ Gate(route) = "auth" /\ request.by = "fetch"
              \/ Gate(route) = "role"
<1>. DEFINE gate == Gate(route)
<1>. HIDE DEF gate
<1>1. CASE gate = "missing" /\ Stay("missing")
  BY <1>1, Answers DEF gate
<1>2. CASE gate = "inactive" /\ IF request.by = "fetch" THEN Stay("refused") ELSE Redirect(<<"login">>)
  BY <1>2, Answers DEF gate
<1>3. CASE gate = "guest" /\ Redirect(<<"dashboard">>)
  BY <1>3, Answers DEF gate
<1>4. CASE gate = "auth" /\ IF request.by = "fetch" THEN Stay("refused") ELSE Redirect(<<"login">>)
  BY <1>4, Answers DEF gate
<1>5. CASE gate = "setup" /\ Redirect(<<"setup">>)
  BY <1>5, Answers DEF gate
<1>6. CASE gate = "role" /\ Stay("refused")
  BY <1>6, Answers DEF gate
<1>7. CASE gate \in {"confirm", "recent"} /\ IF request.by = "fetch" THEN Stay("locked")
                                             ELSE Redirect(<<"user", "confirm-password">>)
  BY <1>7, Answers, Stays DEF gate
<1>. QED  BY <1>1, <1>2, <1>3, <1>4, <1>5, <1>6, <1>7 DEF TurnedAway, gate

LEMMA HandlersAnswer ==
    ASSUME NEW route, Answer(route), ~TurnedAway(route)
    PROVE  /\ Leads
           /\ \/ Accepts
              \/ Reaches(route, "register") /\ Claimed
              \/ route.name \in {"restore.index", "restore.store"} /\ Viewer \notin {Nobody, "owner"}
<1>1. CASE ShowPage(route) \/ Give(route)
  BY <1>1, Answers, Stays DEF ShowPage, Give
<1>2. CASE ShowRegister(route)
  BY <1>2, Answers DEF ShowRegister
<1>3. CASE ShowSetup(route) \/ ShowTlsActivation(route) \/ ShowChallenge(route) \/ ShowVerifyEmail(route)
  BY <1>3, Answers DEF ShowSetup, ShowTlsActivation, ShowChallenge, ShowVerifyEmail
<1>4. CASE ShowRestore(route)
  BY <1>4, Answers DEF ShowRestore, Reaches
<1>5. CASE RegisterOwner(route) \/ LogIn(route) \/ PassChallenge(route) \/ LogOut(route)
  BY <1>5, Answers DEF RegisterOwner, LogIn, PassChallenge, LoggedIn, LogOut
<1>6. CASE ResetForgottenPassword(route) \/ ConfirmsPassword(route) \/ StoreSetup(route)
  BY <1>6, Answers DEF ResetForgottenPassword, ConfirmsPassword, StoreSetup
<1>7. CASE UpdateSystem(route) \/ UpdateUser(route) \/ TransferOwnership(route)
  BY <1>7, Answers, Stays DEF UpdateSystem, UpdateUser, TransferOwnership
<1>8. CASE UpdateProfile(route) \/ Reauthenticate(route) \/ RunUpdate(route)
  BY <1>8, Answers DEF UpdateProfile, Reauthenticate, RunUpdate
<1>9. CASE Does(route) \/ DoesCarefully(route)
  BY <1>9, Answers, Stays DEF Does, DoesCarefully
<1>10. CASE StoreRestore(route)
  BY <1>10, Answers, Stays DEF StoreRestore, Reaches
<1>. QED  BY <1>1, <1>2, <1>3, <1>4, <1>5, <1>6, <1>7, <1>8, <1>9, <1>10 DEF Answer

(* What an offer is answered while things are as its page was drawn for.       *)
LEMMA OfferIsAccepted ==
    ASSUME SessionInv, Placed, Pressed, Serve
    PROVE  OfferedIsAccepted'
<1>. DEFINE route == RouteOf(request)
<1>1. request # None /\ Answer(route)
  BY DEF Serve
<1>2. CASE Accepts
  BY <1>2 DEF Accepts, Answered, OfferedIsAccepted
<1>3. CASE ~(request.why = "offer" /\ Current)
  <2>1. \E code : Answered(code)
    BY <1>1, TurnsAway, HandlersAnswer DEF Leads
  <2>2. (request.why = "offer" /\ Current) = FALSE
    BY <1>3
  <2>3. \E code : answer' = [code |-> code, offered |-> FALSE]
    BY <2>1, <2>2, Zenon DEF Answered
  <2>. QED  BY <2>3 DEF OfferedIsAccepted
<1>4. CASE ~Accepts /\ request.why = "offer" /\ Current
  <2>1. Gate(route) \notin {"missing", "role", "inactive"}
    <3>1. route.name \notin {"404", "405"} /\ EnsureActiveUser(route)
      BY <1>1, <1>4, OfferArrives DEF EnsureActiveUser, Current
    <3>2. EnsureRole(route)
      <4>1. route.gates \cap {"staff", "admins", "owner"} \subseteq RoleGate(page.role)
        BY <1>1, <1>4, OfferArrives
      <4>2. page.role = user.role \/ RoleGate(page.role) = {}
        BY <1>4 DEF Current, Viewer, Nobody, RoleGate
      <4>. QED  BY <4>1, <4>2 DEF EnsureRole
    <3>. QED  BY <3>1, <3>2 DEF Gate
  <2>2. ~(Gate(route) = "auth" /\ request.by = "fetch")
    BY <1>1, <1>4, OfferArrives DEF Gate, Authenticate
  <2>3. Answer(route) /\ ~TurnedAway(route)
    BY <1>1, <1>4, <2>1, <2>2, TurnsAway
  <2>. QED  BY <1>1, <1>4, <2>3, OfferArrives, HandlersAnswer DEF Reaches
<1>. QED  BY <1>2, <1>3, <1>4

-------------------------------------------------------------------------------
(* A page is shown to whom it is for: its route has asked for the role.        *)
LEMMA PagesOfManagers ==
    \A p \in PageOf :
        /\ p[2] \in ManagersPages => p[1] \in ManagersRoutes
        /\ p[2] = "updates/index" => p[1] = "updates.index"
        /\ p[2] \notin {"setup", "restore"}
BY DEF PageOf, ManagersPages, ManagersRoutes

LEMMA OpensFor ==
    ASSUME SessionInv, request # None, Gate(RouteOf(request)) = "open"
    PROVE  LET route == RouteOf(request)
           IN /\ Known(route)
              /\ "auth" \in route.gates => Viewer = user.role
              /\ "admins" \in route.gates => Manages(user.role)
              /\ "owner" \in route.gates => IsOwner(user.role)
              /\ "setup" \in route.gates => installed = "ready"
<1>. DEFINE route == RouteOf(request)
<1>1. Known(route)
  BY OpenGate, FoundIsKnown
<1>2. Authenticate(route) /\ EnsureRole(route) /\ EnsureSetupComplete(route)
  BY DEF Gate
<1>3. "auth" \in route.gates => Viewer = user.role
  BY <1>2 DEF Authenticate, Viewer
<1>4. "admins" \in route.gates => "admins" \in RoleGate(user.role)
  BY <1>2 DEF EnsureRole
<1>5. "owner" \in route.gates => "owner" \in RoleGate(user.role)
  BY <1>2 DEF EnsureRole
<1>6. /\ "admins" \in RoleGate(user.role) => Manages(user.role)
      /\ "owner" \in RoleGate(user.role) => IsOwner(user.role)
  BY DEF RoleGate, Manages, IsOwner
<1>. QED  BY <1>1, <1>2, <1>3, <1>4, <1>5, <1>6 DEF EnsureSetupComplete

Places == IsFor(page.component, page.role)
          /\ (page.drawn /\ Layout(page.component) \in {"app", "settings"} => page.role # Nobody)

LEMMA ShowPlaces ==
    ASSUME NEW component, Show(component), IsFor(component, Viewer)
    PROVE  Places'
<1>1. page' = [component |-> component, path |-> request.path, role |-> Viewer,
               claimed |-> Claimed, drawn |-> Drawn(component)]
  BY DEF Show
<1>2. page'.component = component /\ page'.role = Viewer /\ page'.drawn = Drawn(component)
  BY <1>1
<1>3. Drawn(component) /\ Layout(component) \in {"app", "settings"} => Viewer # Nobody
  BY DEF Drawn
<1>. QED  BY <1>2, <1>3 DEF Places

LEMMA AnswerPlaces ==
    ASSUME SessionInv, Placed, request # None, Answer(RouteOf(request))
    PROVE  Places'
<1>. DEFINE route == RouteOf(request)
<1>1. CASE UNCHANGED page
  BY <1>1 DEF Placed, Places
<1>2. ASSUME NEW p \in PageOf, Reaches(route, p[1]), Show(p[2])  PROVE Places'
  <2>1. Gate(route) = "open" /\ route.name = p[1]
    BY <1>2 DEF Reaches
  <2>2. IsFor(p[2], Viewer)
    BY <2>1, OpensFor, PagesOfManagers DEF IsFor, Known, Called
  <2>. QED  BY <1>2, <2>2, ShowPlaces
<1>3. ASSUME Reaches(route, "setup.show"), Show("setup"), installed # "ready"  PROVE Places'
  <2>1. Viewer = "owner"
    BY <1>3, OpensFor DEF Reaches, Known, Called, Placed
  <2>2. IsFor("setup", Viewer)
    BY <2>1 DEF IsFor, ManagersPages, IsOwner
  <2>. QED  BY <1>3, <2>2, ShowPlaces
<1>4. ASSUME Viewer \in {Nobody, "owner"}, Show("restore")  PROVE Places'
  BY <1>4, ShowPlaces DEF IsFor, ManagersPages
<1>5. ASSUME NEW component \in {"auth/register", "tls-activation", "auth/two-factor-challenge",
                                "auth/verify-email"},
             Show(component)
      PROVE  Places'
  BY <1>5, ShowPlaces DEF IsFor, ManagersPages
<1>6. \/ UNCHANGED page \/ ShowPage(route) \/ ShowSetup(route) \/ ShowRestore(route)
      \/ \E component \in {"auth/register", "tls-activation", "auth/two-factor-challenge",
                           "auth/verify-email"} :
            Show(component)
  <2>1. CASE TurnedAway(route)
    BY <2>1 DEF TurnedAway, Stay, Redirect
  <2>2. CASE ShowRegister(route) \/ ShowTlsActivation(route) \/ ShowChallenge(route) \/ ShowVerifyEmail(route)
    BY <2>2 DEF ShowRegister, ShowTlsActivation, ShowChallenge, ShowVerifyEmail, Intended, Stay, Redirect
  <2>3. CASE RegisterOwner(route) \/ LogIn(route) \/ PassChallenge(route) \/ LogOut(route) \/ ConfirmsPassword(route)
    BY <2>3 DEF RegisterOwner, LogIn, PassChallenge, LoggedIn, LogOut, ConfirmsPassword, Intended, Back,
       Redirect
  <2>4. CASE StoreSetup(route) \/ UpdateSystem(route) \/ UpdateUser(route) \/ TransferOwnership(route)
             \/ Reauthenticate(route)
    BY <2>4 DEF StoreSetup, UpdateSystem, UpdateUser, TransferOwnership, Reauthenticate, Back, Redirect, Stay
  <2>5. CASE ResetForgottenPassword(route) \/ UpdateProfile(route) \/ RunUpdate(route) \/ Does(route)
             \/ DoesCarefully(route) \/ StoreRestore(route) \/ Give(route)
    BY <2>5 DEF ResetForgottenPassword, UpdateProfile, RunUpdate, Does, DoesCarefully, StoreRestore, Give,
                Back, Redirect, Stay
  <2>. QED  BY <2>1, <2>2, <2>3, <2>4, <2>5 DEF Answer
<1>7. CASE ShowPage(route)
  BY <1>2, <1>7 DEF ShowPage
<1>8. CASE ShowSetup(route)
  BY <1>1, <1>3, <1>8 DEF ShowSetup, Redirect
<1>9. CASE ShowRestore(route)
  BY <1>1, <1>4, <1>9 DEF ShowRestore, Stay
<1>. QED  BY <1>1, <1>5, <1>6, <1>7, <1>8, <1>9

(* Until the set-up is done the only user is the owner.                        *)
LEMMA OwnerUntilReady ==
    ASSUME SessionInv, Placed, request # None, Answer(RouteOf(request))
    PROVE  installed' # "ready" => user'.role = "owner"
<1>. DEFINE route == RouteOf(request)
<1>1. CASE UNCHANGED <<installed, user>>
  BY <1>1 DEF Placed
<1>2. CASE RegisterOwner(route)
  BY <1>1, <1>2 DEF RegisterOwner, Account
<1>3. CASE StoreSetup(route)
  BY <1>1, <1>3 DEF StoreSetup
<1>4. CASE UpdateUser(route) \/ TransferOwnership(route)
  <2>1. installed = "ready" /\ UNCHANGED installed
    BY <1>4, OpensFor DEF UpdateUser, TransferOwnership, Reaches, Known, Called
  <2>. QED  BY <2>1
<1>5. \/ UNCHANGED <<installed, user>> \/ RegisterOwner(route) \/ StoreSetup(route)
      \/ UpdateUser(route) \/ TransferOwnership(route)
  <2>1. CASE \/ TurnedAway(route) \/ ShowPage(route) \/ Give(route) \/ ShowRegister(route) \/ ShowSetup(route)
             \/ ShowTlsActivation(route) \/ ShowRestore(route) \/ ShowChallenge(route) \/ ShowVerifyEmail(route)
    BY <2>1 DEF TurnedAway, ShowPage, Give, ShowRegister, ShowSetup, ShowTlsActivation, ShowRestore,
                ShowChallenge, ShowVerifyEmail, Account
  <2>2. CASE LogIn(route) \/ PassChallenge(route) \/ LogOut(route) \/ ConfirmsPassword(route)
             \/ UpdateSystem(route) \/ Reauthenticate(route)
    BY <2>2 DEF LogIn, PassChallenge, LogOut, ConfirmsPassword, UpdateSystem, Reauthenticate, Account
  <2>3. CASE ResetForgottenPassword(route) \/ UpdateProfile(route) \/ RunUpdate(route) \/ Does(route)
             \/ DoesCarefully(route) \/ StoreRestore(route)
    BY <2>3 DEF ResetForgottenPassword, UpdateProfile, RunUpdate, Does, DoesCarefully, StoreRestore, Account
  <2>. QED  BY <2>1, <2>2, <2>3 DEF Answer
<1>. QED  BY <1>1, <1>2, <1>3, <1>4, <1>5

LEMMA OffersStep == SessionInv /\ OffersInv /\ [Next]_vars => OffersInv'
<1>. SUFFICES ASSUME SessionInv, OffersInv, [Next]_vars  PROVE OffersInv'
  OBVIOUS
<1>. USE DEF OffersInv
<1>1. ASSUME UNCHANGED <<installed, page>>, UNCHANGED user \/ installed = "ready"
      PROVE  Placed'
  BY <1>1 DEF Placed
<1>2. CASE Serve
  <2>1. request # None /\ Answer(RouteOf(request))
    BY <1>2 DEF Serve
  <2>2. Placed'
    BY <2>1, AnswerPlaces, OwnerUntilReady DEF Placed, Places
  <2>3. Leads
    BY <2>1, TurnsAway, HandlersAnswer
  <2>4. Pressed'
    <3>1. request'.why # "offer"
      BY <2>3, AskedFor DEF Leads, None
    <3>. QED  BY <3>1 DEF Pressed
  <2>. QED  BY <1>2, <2>2, <2>4, OfferIsAccepted
<1>3. CASE Press
  <2>1. Placed' /\ answer' = Unanswered
    BY <1>1, <1>3 DEF Press, Account
  <2>2. Pressed'
    BY <1>3 DEF Press, Pressed
  <2>. QED  BY <2>1, <2>2 DEF OfferedIsAccepted, Unanswered
<1>4. CASE Open
  <2>1. Placed' /\ answer' = Unanswered
    BY <1>1, <1>4 DEF Open, Account
  <2>2. Pressed'
    BY <1>4, AskedFor DEF Open, Pressed
  <2>. QED  BY <2>1, <2>2 DEF OfferedIsAccepted, Unanswered
<1>5. CASE OthersChangeRole \/ Deactivate \/ RevokeSessions \/ SessionExpires \/ ConfirmationAges
  <2>1. UNCHANGED <<installed, page, request, answer>> /\ (UNCHANGED user \/ installed = "ready")
    BY <1>5 DEF OthersChangeRole, Deactivate, RevokeSessions, SessionExpires, ConfirmationAges, Happens, Account
  <2>2. Placed'
    BY <1>1, <2>1
  <2>. QED  BY <2>1, <2>2 DEF Pressed, OfferedIsAccepted
<1>6. CASE UNCHANGED vars
  BY <1>1, <1>6 DEF vars, Pressed, OfferedIsAccepted
<1>. QED  BY <1>2, <1>3, <1>4, <1>5, <1>6 DEF Next

LEMMA OffersBegin == Init => OffersInv
<1>. SUFFICES ASSUME Init  PROVE OffersInv
  OBVIOUS
<1>1. installed # "ready" => user.role = "owner"
  BY DEF Init
<1>2. page = [component |-> "welcome", path |-> <<>>, role |-> Nobody, claimed |-> Claimed, drawn |-> TRUE]
  BY DEF Init
<1>3. IsFor("welcome", Nobody) /\ Layout("welcome") \notin {"app", "settings"}
  BY DEF IsFor, ManagersPages, Layout
<1>4. Placed
  BY <1>1, <1>2, <1>3 DEF Placed
<1>5. Pressed /\ OfferedIsAccepted
  BY DEF Init, None, Unanswered, Pressed, OfferedIsAccepted
<1>. QED  BY <1>4, <1>5 DEF OffersInv

(* What a page offers reaches a handler, for every bookmark, first role and    *)
(* number of changes: while nothing has changed since the page was drawn, no   *)
(* offer of it is refused for its viewer's role or finds no route.             *)
THEOREM OffersAreAccepted == Spec => []OfferedIsAccepted
<1>1. OffersInv => OfferedIsAccepted
  BY DEF OffersInv
<1>. QED  BY <1>1, SessionAlways, OffersBegin, OffersStep, PTL DEF Spec
===============================================================================

--------------------------- MODULE WebSession_proofs ---------------------------
(* What holds of a session for every set of bookmarks, every role a viewer may *)
(* have at first and every number of changes behind his back: nobody who has   *)
(* been locked out gets in, the state has its types, every page a viewer is    *)
(* given can be drawn, and what a gate remembers can be read.                  *)
EXTENDS WebSession, WellFoundedInduction, TLAPS

(* Only the login, the second factor and the registration of the first user    *)
(* begin a session, and each looks at whether the user is active after he has  *)
(* been locked out, or makes him active.                                       *)
LEMMA LockedOutStep ==
    ASSUME [Next]_vars, session # "in", session' = "in"
    PROVE  user'.active
<1>1. CASE Serve
  <2>. SUFFICES ASSUME NEW route, Answer(route)  PROVE user'.active
    BY <1>1 DEF Serve
  <2>1. CASE TurnedAway(route)
    BY <2>1 DEF TurnedAway, EndSession, Session
  <2>2. CASE ShowPage(route) \/ Give(route) \/ ShowRegister(route) \/ ShowSetup(route)
             \/ ShowTlsActivation(route) \/ ShowRestore(route) \/ ShowChallenge(route)
             \/ ShowVerifyEmail(route)
    BY <2>2 DEF ShowPage, Give, ShowRegister, ShowSetup, ShowTlsActivation, ShowRestore,
                ShowChallenge, ShowVerifyEmail, Session
  <2>3. CASE RegisterOwner(route)
    BY <2>3 DEF RegisterOwner, Session
  <2>4. CASE LogIn(route)
    BY <2>4 DEF LogIn, Account
  <2>5. CASE PassChallenge(route)
    BY <2>5 DEF PassChallenge, LoggedIn, EndSession, Session, Account
  <2>6. CASE LogOut(route) \/ UpdateSystem(route)
    BY <2>6 DEF LogOut, UpdateSystem, EndSession, Session
  <2>7. CASE ResetForgottenPassword(route) \/ ConfirmsPassword(route) \/ StoreSetup(route)
             \/ UpdateUser(route) \/ TransferOwnership(route) \/ UpdateProfile(route)
             \/ Reauthenticate(route) \/ RunUpdate(route)
    BY <2>7 DEF ResetForgottenPassword, ConfirmsPassword, StoreSetup, UpdateUser,
                TransferOwnership, UpdateProfile, Reauthenticate, RunUpdate, Session
  <2>8. CASE Does(route) \/ DoesCarefully(route) \/ StoreRestore(route)
    BY <2>8 DEF Does, DoesCarefully, StoreRestore, Session
  <2>. QED  BY <2>1, <2>2, <2>3, <2>4, <2>5, <2>6, <2>7, <2>8 DEF Answer
<1>2. CASE Press \/ Open \/ OthersChangeRole \/ Deactivate
  BY <1>2 DEF Press, Open, OthersChangeRole, Deactivate, Session
<1>3. CASE RevokeSessions \/ SessionExpires \/ ConfirmationAges
  BY <1>3 DEF RevokeSessions, SessionExpires, ConfirmationAges, EndSession
<1>4. CASE UNCHANGED vars
  BY <1>4 DEF vars
<1>. QED  BY <1>1, <1>2, <1>3, <1>4 DEF Next

(* Nobody who has been locked out gets a session: EnsureActiveUser looks again *)
(* once the second factor has been passed, and the login looks for itself.     *)
THEOREM NobodyLockedOutGetsIn == Spec => LockedOutStaysOut
<1>1. [Next]_vars => [session # "in" /\ session' = "in" => user'.active]_vars
  BY LockedOutStep
<1>. QED  BY <1>1, PTL DEF Spec, LockedOutStaysOut

-------------------------------------------------------------------------------
(* The routes.  What the pages need of a route: it is found, those of a page   *)
(* drawn for a user ask for a user, a page is got, and a route that asks for a *)
(* recent password is got too, except the diagnostic.                          *)
PagesForUsers ==
    {"dashboard", "devices.index", "devices.edit", "configurations.show", "collection-runs.trace",
     "credentials.index", "catalog.index", "models.index", "integrations.index", "notifications.index",
     "data-protection.index", "users.index", "audit.index", "updates.index", "system.index",
     "profile.edit", "security.edit", "appearance.edit"}

PagesForGuests ==
    {"home", "login", "password.request", "password.reset", "password.confirm", "register", "setup.show",
     "tls.activation", "restore.index", "two-factor.login", "verification.notice"}

IsFound(route) == route.name \notin {"404", "405"}
AsksForUser(route) == route.name \in PagesForUsers => "auth" \in route.gates
IsGot(route) == route.name \in PagesForUsers \cup PagesForGuests => route.methods = GetHead
AsksAgain(route) ==
    "recent" \in route.gates =>
        \/ route.methods = GetHead
        \/ route.methods = Post /\ route.path = <<"devices", "{device}", "diagnostics">>

Sound(route) == IsFound(route) /\ AsksForUser(route) /\ IsGot(route) /\ AsksAgain(route)

ElementsOf(table) == {table[i] : i \in DOMAIN table}

SoundTable(table) == table \in Seq(ElementsOf(table)) /\ \A i \in DOMAIN table : Sound(table[i])

LEMMA TableIsSequence ==
    ASSUME NEW table, NEW n \in Nat, DOMAIN table = 1..n, table = [i \in DOMAIN table |-> table[i]]
    PROVE  table \in Seq(ElementsOf(table))
<1>1. table \in [1..n -> ElementsOf(table)]
  BY Zenon DEF ElementsOf
<1>. QED  BY <1>1

LEMMA PublicRoutes_Sound == SoundTable(PublicRoutes)
<1>. USE DEF PublicRoutes
<1>1. DOMAIN PublicRoutes = 1..11
  OBVIOUS
<1>2. PublicRoutes = [i \in DOMAIN PublicRoutes |-> PublicRoutes[i]]
  OBVIOUS
<1>3. /\ Sound(PublicRoutes[1]) /\ Sound(PublicRoutes[2]) /\ Sound(PublicRoutes[3]) /\ Sound(PublicRoutes[4])
      /\ Sound(PublicRoutes[5]) /\ Sound(PublicRoutes[6]) /\ Sound(PublicRoutes[7]) /\ Sound(PublicRoutes[8])
  BY DEF Served, Sound, IsFound, AsksForUser, IsGot, AsksAgain, PagesForUsers, PagesForGuests,
         Member, Staff, Admins, Owner, Confirmed, Recent, Auth, Guest, GetHead, Post
<1>4. /\ Sound(PublicRoutes[9]) /\ Sound(PublicRoutes[10]) /\ Sound(PublicRoutes[11])
  BY DEF Served, Sound, IsFound, AsksForUser, IsGot, AsksAgain, PagesForUsers, PagesForGuests,
         Member, Staff, Admins, Owner, Confirmed, Recent, Auth, Guest, GetHead, Post
<1>. HIDE DEF PublicRoutes
<1>5. \A i \in 1..11 : Sound(PublicRoutes[i])
  BY <1>3, <1>4
<1>. QED  BY <1>1, <1>2, <1>5, TableIsSequence DEF SoundTable

LEMMA SetupRoutes_Sound == SoundTable(SetupRoutes)
<1>. USE DEF SetupRoutes
<1>1. DOMAIN SetupRoutes = 1..2
  OBVIOUS
<1>2. SetupRoutes = [i \in DOMAIN SetupRoutes |-> SetupRoutes[i]]
  OBVIOUS
<1>3. /\ Sound(SetupRoutes[1]) /\ Sound(SetupRoutes[2])
  BY DEF Served, Sound, IsFound, AsksForUser, IsGot, AsksAgain, PagesForUsers, PagesForGuests,
         Member, Staff, Admins, Owner, Confirmed, Recent, Auth, Guest, GetHead, Post
<1>. HIDE DEF SetupRoutes
<1>4. \A i \in 1..2 : Sound(SetupRoutes[i])
  BY <1>3
<1>. QED  BY <1>1, <1>2, <1>4, TableIsSequence DEF SoundTable

LEMMA DeviceRoutes_Sound == SoundTable(DeviceRoutes)
<1>. USE DEF DeviceRoutes
<1>1. DOMAIN DeviceRoutes = 1..13
  OBVIOUS
<1>2. DeviceRoutes = [i \in DOMAIN DeviceRoutes |-> DeviceRoutes[i]]
  OBVIOUS
<1>3. /\ Sound(DeviceRoutes[1]) /\ Sound(DeviceRoutes[2]) /\ Sound(DeviceRoutes[3]) /\ Sound(DeviceRoutes[4])
      /\ Sound(DeviceRoutes[5]) /\ Sound(DeviceRoutes[6]) /\ Sound(DeviceRoutes[7]) /\ Sound(DeviceRoutes[8])
  BY DEF Served, Sound, IsFound, AsksForUser, IsGot, AsksAgain, PagesForUsers, PagesForGuests,
         Member, Staff, Admins, Owner, Confirmed, Recent, Auth, Guest, GetHead, Post
<1>4. /\ Sound(DeviceRoutes[9]) /\ Sound(DeviceRoutes[10]) /\ Sound(DeviceRoutes[11]) /\ Sound(DeviceRoutes[12])
      /\ Sound(DeviceRoutes[13])
  BY DEF Served, Sound, IsFound, AsksForUser, IsGot, AsksAgain, PagesForUsers, PagesForGuests,
         Member, Staff, Admins, Owner, Confirmed, Recent, Auth, Guest, GetHead, Post
<1>. HIDE DEF DeviceRoutes
<1>5. \A i \in 1..13 : Sound(DeviceRoutes[i])
  BY <1>3, <1>4
<1>. QED  BY <1>1, <1>2, <1>5, TableIsSequence DEF SoundTable

LEMMA ConfigurationRoutes_Sound == SoundTable(ConfigurationRoutes)
<1>. USE DEF ConfigurationRoutes
<1>1. DOMAIN ConfigurationRoutes = 1..8
  OBVIOUS
<1>2. ConfigurationRoutes = [i \in DOMAIN ConfigurationRoutes |-> ConfigurationRoutes[i]]
  OBVIOUS
<1>3. /\ Sound(ConfigurationRoutes[1]) /\ Sound(ConfigurationRoutes[2]) /\ Sound(ConfigurationRoutes[3])
      /\ Sound(ConfigurationRoutes[4])
      /\ Sound(ConfigurationRoutes[5]) /\ Sound(ConfigurationRoutes[6]) /\ Sound(ConfigurationRoutes[7])
      /\ Sound(ConfigurationRoutes[8])
  BY DEF Served, Sound, IsFound, AsksForUser, IsGot, AsksAgain, PagesForUsers, PagesForGuests,
         Member, Staff, Admins, Owner, Confirmed, Recent, Auth, Guest, GetHead, Post
<1>. HIDE DEF ConfigurationRoutes
<1>4. \A i \in 1..8 : Sound(ConfigurationRoutes[i])
  BY <1>3
<1>. QED  BY <1>1, <1>2, <1>4, TableIsSequence DEF SoundTable

LEMMA CatalogRoutes_Sound == SoundTable(CatalogRoutes)
<1>. USE DEF CatalogRoutes
<1>1. DOMAIN CatalogRoutes = 1..13
  OBVIOUS
<1>2. CatalogRoutes = [i \in DOMAIN CatalogRoutes |-> CatalogRoutes[i]]
  OBVIOUS
<1>3. /\ Sound(CatalogRoutes[1]) /\ Sound(CatalogRoutes[2]) /\ Sound(CatalogRoutes[3])
      /\ Sound(CatalogRoutes[4])
      /\ Sound(CatalogRoutes[5]) /\ Sound(CatalogRoutes[6]) /\ Sound(CatalogRoutes[7])
      /\ Sound(CatalogRoutes[8])
  BY DEF Served, Sound, IsFound, AsksForUser, IsGot, AsksAgain, PagesForUsers, PagesForGuests,
         Member, Staff, Admins, Owner, Confirmed, Recent, Auth, Guest, GetHead, Post
<1>4. /\ Sound(CatalogRoutes[9]) /\ Sound(CatalogRoutes[10]) /\ Sound(CatalogRoutes[11])
      /\ Sound(CatalogRoutes[12])
      /\ Sound(CatalogRoutes[13])
  BY DEF Served, Sound, IsFound, AsksForUser, IsGot, AsksAgain, PagesForUsers, PagesForGuests,
         Member, Staff, Admins, Owner, Confirmed, Recent, Auth, Guest, GetHead, Post
<1>. HIDE DEF CatalogRoutes
<1>5. \A i \in 1..13 : Sound(CatalogRoutes[i])
  BY <1>3, <1>4
<1>. QED  BY <1>1, <1>2, <1>5, TableIsSequence DEF SoundTable

LEMMA IntegrationRoutes_Sound == SoundTable(IntegrationRoutes)
<1>. USE DEF IntegrationRoutes
<1>1. DOMAIN IntegrationRoutes = 1..12
  OBVIOUS
<1>2. IntegrationRoutes = [i \in DOMAIN IntegrationRoutes |-> IntegrationRoutes[i]]
  OBVIOUS
<1>3. /\ Sound(IntegrationRoutes[1]) /\ Sound(IntegrationRoutes[2]) /\ Sound(IntegrationRoutes[3])
      /\ Sound(IntegrationRoutes[4])
      /\ Sound(IntegrationRoutes[5]) /\ Sound(IntegrationRoutes[6]) /\ Sound(IntegrationRoutes[7])
      /\ Sound(IntegrationRoutes[8])
  BY DEF Served, Sound, IsFound, AsksForUser, IsGot, AsksAgain, PagesForUsers, PagesForGuests,
         Member, Staff, Admins, Owner, Confirmed, Recent, Auth, Guest, GetHead, Post
<1>4. /\ Sound(IntegrationRoutes[9]) /\ Sound(IntegrationRoutes[10]) /\ Sound(IntegrationRoutes[11])
      /\ Sound(IntegrationRoutes[12])
  BY DEF Served, Sound, IsFound, AsksForUser, IsGot, AsksAgain, PagesForUsers, PagesForGuests,
         Member, Staff, Admins, Owner, Confirmed, Recent, Auth, Guest, GetHead, Post
<1>. HIDE DEF IntegrationRoutes
<1>5. \A i \in 1..12 : Sound(IntegrationRoutes[i])
  BY <1>3, <1>4
<1>. QED  BY <1>1, <1>2, <1>5, TableIsSequence DEF SoundTable

LEMMA AdministrationRoutes_Sound == SoundTable(AdministrationRoutes)
<1>. USE DEF AdministrationRoutes
<1>1. DOMAIN AdministrationRoutes = 1..15
  OBVIOUS
<1>2. AdministrationRoutes = [i \in DOMAIN AdministrationRoutes |-> AdministrationRoutes[i]]
  OBVIOUS
<1>3. /\ Sound(AdministrationRoutes[1]) /\ Sound(AdministrationRoutes[2]) /\ Sound(AdministrationRoutes[3])
      /\ Sound(AdministrationRoutes[4])
      /\ Sound(AdministrationRoutes[5]) /\ Sound(AdministrationRoutes[6]) /\ Sound(AdministrationRoutes[7])
      /\ Sound(AdministrationRoutes[8])
  BY DEF Served, Sound, IsFound, AsksForUser, IsGot, AsksAgain, PagesForUsers, PagesForGuests,
         Member, Staff, Admins, Owner, Confirmed, Recent, Auth, Guest, GetHead, Post
<1>4. /\ Sound(AdministrationRoutes[9]) /\ Sound(AdministrationRoutes[10]) /\ Sound(AdministrationRoutes[11])
      /\ Sound(AdministrationRoutes[12])
      /\ Sound(AdministrationRoutes[13]) /\ Sound(AdministrationRoutes[14]) /\ Sound(AdministrationRoutes[15])
  BY DEF Served, Sound, IsFound, AsksForUser, IsGot, AsksAgain, PagesForUsers, PagesForGuests,
         Member, Staff, Admins, Owner, Confirmed, Recent, Auth, Guest, GetHead, Post
<1>. HIDE DEF AdministrationRoutes
<1>5. \A i \in 1..15 : Sound(AdministrationRoutes[i])
  BY <1>3, <1>4
<1>. QED  BY <1>1, <1>2, <1>5, TableIsSequence DEF SoundTable

LEMMA SettingsRoutes_Sound == SoundTable(SettingsRoutes)
<1>. USE DEF SettingsRoutes
<1>1. DOMAIN SettingsRoutes = 1..7
  OBVIOUS
<1>2. SettingsRoutes = [i \in DOMAIN SettingsRoutes |-> SettingsRoutes[i]]
  OBVIOUS
<1>3. /\ Sound(SettingsRoutes[1]) /\ Sound(SettingsRoutes[2]) /\ Sound(SettingsRoutes[3])
      /\ Sound(SettingsRoutes[4])
      /\ Sound(SettingsRoutes[5]) /\ Sound(SettingsRoutes[6]) /\ Sound(SettingsRoutes[7])
  BY DEF Served, Sound, IsFound, AsksForUser, IsGot, AsksAgain, PagesForUsers, PagesForGuests,
         Member, Staff, Admins, Owner, Confirmed, Recent, Auth, Guest, GetHead, Post
<1>. HIDE DEF SettingsRoutes
<1>4. \A i \in 1..7 : Sound(SettingsRoutes[i])
  BY <1>3
<1>. QED  BY <1>1, <1>2, <1>4, TableIsSequence DEF SoundTable

LEMMA FortifyRoutes_Sound == SoundTable(FortifyRoutes)
<1>. USE DEF FortifyRoutes
<1>1. DOMAIN FortifyRoutes = 1..24
  OBVIOUS
<1>2. FortifyRoutes = [i \in DOMAIN FortifyRoutes |-> FortifyRoutes[i]]
  OBVIOUS
<1>3. /\ Sound(FortifyRoutes[1]) /\ Sound(FortifyRoutes[2]) /\ Sound(FortifyRoutes[3])
      /\ Sound(FortifyRoutes[4])
      /\ Sound(FortifyRoutes[5]) /\ Sound(FortifyRoutes[6]) /\ Sound(FortifyRoutes[7])
      /\ Sound(FortifyRoutes[8])
  BY DEF Served, Sound, IsFound, AsksForUser, IsGot, AsksAgain, PagesForUsers, PagesForGuests,
         Member, Staff, Admins, Owner, Confirmed, Recent, Auth, Guest, GetHead, Post
<1>4. /\ Sound(FortifyRoutes[9]) /\ Sound(FortifyRoutes[10]) /\ Sound(FortifyRoutes[11])
      /\ Sound(FortifyRoutes[12])
      /\ Sound(FortifyRoutes[13]) /\ Sound(FortifyRoutes[14]) /\ Sound(FortifyRoutes[15])
      /\ Sound(FortifyRoutes[16])
  BY DEF Served, Sound, IsFound, AsksForUser, IsGot, AsksAgain, PagesForUsers, PagesForGuests,
         Member, Staff, Admins, Owner, Confirmed, Recent, Auth, Guest, GetHead, Post
<1>5. /\ Sound(FortifyRoutes[17]) /\ Sound(FortifyRoutes[18]) /\ Sound(FortifyRoutes[19])
      /\ Sound(FortifyRoutes[20])
      /\ Sound(FortifyRoutes[21]) /\ Sound(FortifyRoutes[22]) /\ Sound(FortifyRoutes[23])
      /\ Sound(FortifyRoutes[24])
  BY DEF Served, Sound, IsFound, AsksForUser, IsGot, AsksAgain, PagesForUsers, PagesForGuests,
         Member, Staff, Admins, Owner, Confirmed, Recent, Auth, Guest, GetHead, Post
<1>. HIDE DEF FortifyRoutes
<1>6. \A i \in 1..24 : Sound(FortifyRoutes[i])
  BY <1>3, <1>4, <1>5
<1>. QED  BY <1>1, <1>2, <1>6, TableIsSequence DEF SoundTable

LEMMA PasskeyRoutes_Sound == SoundTable(PasskeyRoutes)
<1>. USE DEF PasskeyRoutes
<1>1. DOMAIN PasskeyRoutes = 1..9
  OBVIOUS
<1>2. PasskeyRoutes = [i \in DOMAIN PasskeyRoutes |-> PasskeyRoutes[i]]
  OBVIOUS
<1>3. /\ Sound(PasskeyRoutes[1]) /\ Sound(PasskeyRoutes[2]) /\ Sound(PasskeyRoutes[3])
      /\ Sound(PasskeyRoutes[4])
      /\ Sound(PasskeyRoutes[5]) /\ Sound(PasskeyRoutes[6]) /\ Sound(PasskeyRoutes[7])
      /\ Sound(PasskeyRoutes[8])
  BY DEF Served, Sound, IsFound, AsksForUser, IsGot, AsksAgain, PagesForUsers, PagesForGuests,
         Member, Staff, Admins, Owner, Confirmed, Recent, Auth, Guest, GetHead, Post
<1>4. /\ Sound(PasskeyRoutes[9])
  BY DEF Served, Sound, IsFound, AsksForUser, IsGot, AsksAgain, PagesForUsers, PagesForGuests,
         Member, Staff, Admins, Owner, Confirmed, Recent, Auth, Guest, GetHead, Post
<1>. HIDE DEF PasskeyRoutes
<1>5. \A i \in 1..9 : Sound(PasskeyRoutes[i])
  BY <1>3, <1>4
<1>. QED  BY <1>1, <1>2, <1>5, TableIsSequence DEF SoundTable

-------------------------------------------------------------------------------
(* The router.                                                                 *)
LEMMA SoundTogether ==
    ASSUME NEW s, NEW t, SoundTable(s), SoundTable(t)
    PROVE  SoundTable(s \o t)
<1>1. s \in Seq(ElementsOf(s)) /\ t \in Seq(ElementsOf(t))
  BY DEF SoundTable
<1>2. /\ Len(s \o t) = Len(s) + Len(t)
      /\ \A i \in 1..Len(s \o t) : (s \o t)[i] = IF i <= Len(s) THEN s[i] ELSE t[i - Len(s)]
  BY <1>1
<1>3. DOMAIN s = 1..Len(s) /\ DOMAIN t = 1..Len(t) /\ Len(s) \in Nat /\ Len(t) \in Nat
  BY <1>1
<1>4. s \o t \in Seq(ElementsOf(s) \cup ElementsOf(t))
  <2>1. s \in Seq(ElementsOf(s) \cup ElementsOf(t)) /\ t \in Seq(ElementsOf(s) \cup ElementsOf(t))
    BY <1>1
  <2>. QED  BY <2>1
<1>5. DOMAIN (s \o t) = 1..(Len(s) + Len(t))
  BY <1>2, <1>4
<1>6. ASSUME NEW i \in DOMAIN (s \o t)  PROVE Sound((s \o t)[i])
  <2>1. CASE i <= Len(s)
    BY <2>1, <1>2, <1>3, <1>5 DEF SoundTable
  <2>2. CASE ~(i <= Len(s))
    <3>1. i - Len(s) \in 1..Len(t)
      BY <2>2, <1>3, <1>5
    <3>. QED  BY <2>2, <3>1, <1>2, <1>3, <1>5 DEF SoundTable
  <2>. QED  BY <2>1, <2>2
<1>7. s \o t = [i \in DOMAIN (s \o t) |-> (s \o t)[i]]
  <2>1. ASSUME NEW S, NEW u \in Seq(S)  PROVE u = [i \in DOMAIN u |-> u[i]]
    BY <2>1
  <2>. QED  BY <1>4, <2>1
<1>8. Len(s) + Len(t) \in Nat
  BY <1>3
<1>9. s \o t \in Seq(ElementsOf(s \o t))
  BY <1>5, <1>7, <1>8, TableIsSequence
<1>. QED  BY <1>6, <1>9 DEF SoundTable

LEMMA HomeStaysFirst ==
    ASSUME NEW s, NEW t, SoundTable(s), SoundTable(t), Len(s) >= 1
    PROVE  Len(s \o t) >= 1 /\ (s \o t)[1] = s[1]
<1>1. s \in Seq(ElementsOf(s)) /\ t \in Seq(ElementsOf(t))
  BY DEF SoundTable
<1>. QED  BY <1>1

(* All the routes together, the home page first.                               *)
SoundFromHome(table) == SoundTable(table) /\ Len(table) >= 1 /\ table[1] = PublicRoutes[1]

LEMMA SoundFromHomeTogether ==
    ASSUME NEW s, NEW t, SoundFromHome(s), SoundTable(t)
    PROVE  SoundFromHome(s \o t)
BY SoundTogether, HomeStaysFirst DEF SoundFromHome

LEMMA RoutesAreSound == SoundFromHome(Routes)
<1>1. SoundFromHome(PublicRoutes)
  <2>1. Len(PublicRoutes) = 11
    BY DEF PublicRoutes
  <2>. QED  BY <2>1, PublicRoutes_Sound DEF SoundFromHome
<1>2. SoundFromHome(PublicRoutes \o SetupRoutes \o DeviceRoutes \o ConfigurationRoutes \o CatalogRoutes)
  BY <1>1, SoundFromHomeTogether, SetupRoutes_Sound, DeviceRoutes_Sound,
     ConfigurationRoutes_Sound, CatalogRoutes_Sound
<1>3. SoundFromHome(PublicRoutes \o SetupRoutes \o DeviceRoutes \o ConfigurationRoutes \o CatalogRoutes
                    \o IntegrationRoutes \o AdministrationRoutes \o SettingsRoutes)
  BY <1>2, SoundFromHomeTogether, IntegrationRoutes_Sound, AdministrationRoutes_Sound,
     SettingsRoutes_Sound
<1>. QED  BY <1>3, SoundFromHomeTogether, FortifyRoutes_Sound, PasskeyRoutes_Sound DEF Routes

(* A set of numbers that is not empty has a least one.                         *)
LEMMA LeastIndex ==
    ASSUME NEW S \in SUBSET Nat, S # {}
    PROVE  \E i \in S : \A j \in S : i <= j
<1>1. PICK i \in S : \A j \in S : <<j, i>> \notin OpToRel(<, Nat)
  BY NatLessThanWellFounded, WFMin
<1>2. \A j \in S : ~(j < i)
  BY <1>1 DEF OpToRel
<1>. QED  BY <1>2

Serves(route, verb, path) == MatchesPath(route, path) /\ verb \in ToSet(route.methods)

(* A request reaches a route of the tables that serves it, if there is one.    *)
LEMMA ResolveReaches ==
    ASSUME NEW method, NEW path, NEW query,
           \E i \in DOMAIN Routes : Serves(Routes[i], EffectiveMethod(method, query), path)
    PROVE  \E i \in DOMAIN Routes :
              /\ Resolve(method, path, query) = Routes[i] /\ Sound(Routes[i])
              /\ Serves(Routes[i], EffectiveMethod(method, query), path)
<1>. DEFINE verb  == EffectiveMethod(method, query)
            There == {i \in DOMAIN Routes : MatchesPath(Routes[i], path)}
            Hits  == {i \in There : verb \in ToSet(Routes[i].methods)}
            First == CHOOSE i \in Hits : \A j \in Hits : i <= j
<1>1. Hits # {} /\ Hits \subseteq DOMAIN Routes
  BY DEF Serves
<1>2. DOMAIN Routes \subseteq Nat
  BY RoutesAreSound DEF SoundFromHome, SoundTable
<1>3. First \in Hits
  BY <1>1, <1>2, LeastIndex
<1>4. Resolve(method, path, query) = Routes[First]
  BY <1>1 DEF Resolve
<1>5. Sound(Routes[First]) /\ Serves(Routes[First], verb, path)
  BY <1>1, <1>3, RoutesAreSound DEF SoundFromHome, SoundTable, Serves
<1>. QED  BY <1>1, <1>3, <1>4, <1>5

(* Every other request finds no route, or none for its verb.                   *)
LEMMA ResolveMisses ==
    ASSUME NEW method, NEW path, NEW query,
           ~\E i \in DOMAIN Routes : Serves(Routes[i], EffectiveMethod(method, query), path)
    PROVE  Resolve(method, path, query) \in {NoRoute, NotAllowed}
BY DEF Resolve, Serves

LEMMA MissedIsMissing ==
    ASSUME NEW route \in {NoRoute, NotAllowed}
    PROVE  route.name \in {"404", "405"}
BY DEF NoRoute, NotAllowed, Served

LEMMA GetIsGet ==
    ASSUME NEW query
    PROVE  EffectiveMethod("get", query) = "get"
BY DEF EffectiveMethod

(* A path can be read if a plain visit to it reaches a route.                  *)
Readable(path) == \E i \in DOMAIN Routes : Serves(Routes[i], "get", path)

LEMMA ReadableIsFound ==
    ASSUME NEW path, Readable(path)
    PROVE  Resolve("get", path, <<>>).name \notin {"404", "405"}
<1>1. EffectiveMethod("get", <<>>) = "get"
  BY GetIsGet
<1>. QED  BY <1>1, ResolveReaches DEF Readable, Sound, IsFound

-------------------------------------------------------------------------------
(* What the pages offer.  A generated function without parameters builds the   *)
(* path it was generated for.                                                  *)
LEMMA NothingTrails ==
    ASSUME NEW S, NEW s \in Seq(S), NEW blank, Len(s) = 0 \/ s[Len(s)] # blank
    PROVE  SubSeq(s, 1, Max({0} \cup {i \in DOMAIN s : s[i] # blank})) = s
<1>. DEFINE Filled == {0} \cup {i \in DOMAIN s : s[i] # blank}
<1>1. Len(s) \in Nat /\ DOMAIN s = 1..Len(s)
  OBVIOUS
<1>2. Len(s) \in Filled /\ \A i \in Filled : Len(s) >= i
  BY <1>1
<1>3. Filled \subseteq Nat
  BY <1>1
<1>. HIDE DEF Filled
<1>4. Max(Filled) \in Filled /\ \A i \in Filled : Max(Filled) >= i
  BY <1>2 DEF Max
<1>5. Max(Filled) = Len(s)
  <2>1. \A m, n \in Nat : m >= n /\ n >= m => m = n
    OBVIOUS
  <2>2. Max(Filled) \in Nat /\ Len(s) \in Nat
    BY <1>1, <1>3, <1>4
  <2>3. Max(Filled) >= Len(s) /\ Len(s) >= Max(Filled)
    BY <1>2, <1>4
  <2>. QED  BY <2>1, <2>2, <2>3
<1>6. SubSeq(s, 1, Len(s)) = s
  OBVIOUS
<1>. QED  BY <1>5, <1>6 DEF Filled

IsPath(path) == Len(path) \in Nat /\ path = [i \in 1..Len(path) |-> path[i]]

NotLiteral == Parameters \cup {""}

Plain(path) == IsPath(path) /\ \A i \in 1..Len(path) : path[i] \notin NotLiteral

LEMMA PlainPath ==
    ASSUME NEW route, Plain(route.path), NEW args
    PROVE  PathOf(route, args) = route.path
<1>. DEFINE path == route.path
<1>1. IsPath(path) /\ DOMAIN path = 1..Len(path)
  BY DEF Plain, IsPath
<1>2. \A i \in DOMAIN path : path[i] # "" /\ ~IsParameter(path[i])
  BY <1>1 DEF Plain, NotLiteral, IsParameter
<1>3. [i \in DOMAIN path |-> IF IsParameter(path[i]) THEN args[path[i]] ELSE path[i]] = path
  BY <1>1, <1>2 DEF IsPath
<1>4. Len(path) = 0 \/ path[Len(path)] # ""
  <2>1. Len(path) = 0 \/ Len(path) \in DOMAIN path
    BY <1>1 DEF IsPath
  <2>. QED  BY <1>2, <2>1, Zenon
<1>5. path \in Seq({path[i] : i \in 1..Len(path)})
  <2>1. path \in [1..Len(path) -> {path[i] : i \in 1..Len(path)}]
    BY <1>1, Zenon DEF IsPath
  <2>. HIDE DEF path
  <2>. QED  BY <1>1, <2>1 DEF IsPath
<1>6. WithoutTrailing(path) = path
  BY <1>4, <1>5, NothingTrails DEF WithoutTrailing
<1>. QED  BY <1>3, <1>6 DEF PathOf

LEMMA Tuples ==
    ASSUME NEW a, NEW b, NEW c, NEW d
    PROVE  /\ Len(<<>>) = 0 /\ IsPath(<<>>)
           /\ Len(<<a>>) = 1 /\ IsPath(<<a>>)
           /\ Len(<<a, b>>) = 2 /\ IsPath(<<a, b>>)
           /\ Len(<<a, b, c>>) = 3 /\ IsPath(<<a, b, c>>)
           /\ Len(<<a, b, c, d>>) = 4 /\ IsPath(<<a, b, c, d>>)
BY DEF IsPath

LEMMA PlainTuples ==
    /\ Plain(<<>>)
    /\ \A a : a \notin NotLiteral => Plain(<<a>>)
    /\ \A a, b : a \notin NotLiteral /\ b \notin NotLiteral => Plain(<<a, b>>)
<1>1. Plain(<<>>)
  <2>1. Len(<<>>) = 0 /\ IsPath(<<>>)
    BY DEF IsPath
  <2>. QED  BY <2>1 DEF Plain
<1>2. ASSUME NEW a, a \notin NotLiteral  PROVE Plain(<<a>>)
  <2>1. \A i \in 1..Len(<<a>>) : <<a>>[i] = a
    OBVIOUS
  <2>. QED  BY <1>2, <2>1, Tuples, Zenon DEF Plain
<1>3. ASSUME NEW a, NEW b, a \notin NotLiteral, b \notin NotLiteral  PROVE Plain(<<a, b>>)
  <2>1. \A i \in 1..Len(<<a, b>>) : <<a, b>>[i] = a \/ <<a, b>>[i] = b
    OBVIOUS
  <2>. QED  BY <1>3, <2>1, Tuples, Zenon DEF Plain
<1>. QED  BY <1>1, <1>2, <1>3

(* What is known of every offer: it is a request, its path is made of segments *)
(* and the diagnostic is offered for the one device there is.                  *)
Diagnostics == <<"devices", "7", "diagnostics">>

Segments(path) ==
    /\ IsPath(path)
    /\ (\E device : path = <<"devices", device, "diagnostics">>) => path = Diagnostics

IsOffer(o) == o = Request(o.by, o.method, o.path, o.query) /\ Segments(o.path)

OnlyOffers(S) == \A o \in S : IsOffer(o)

LEMMA RequestIsOffer ==
    ASSUME NEW path, Segments(path)
    PROVE  /\ \A by, method, query : IsOffer(Request(by, method, path, query))
           /\ IsOffer(Link(path)) /\ IsOffer(Fetch(path)) /\ \A method : IsOffer(Visit(method, path))
BY DEF IsOffer, Request, Link, Fetch, Visit

LEMMA TuplesDiffer ==
    ASSUME NEW a, NEW b, NEW c, NEW d, NEW x, NEW y, NEW z
    PROVE  /\ <<>> # <<x, y, z>> /\ <<a>> # <<x, y, z>> /\ <<a, b>> # <<x, y, z>>
           /\ <<a, b, c, d>> # <<x, y, z>>
           /\ <<a, b, c>> = <<x, y, z>> => a = x /\ c = z
OBVIOUS

LEMMA AllSegments ==
    /\ Segments(<<>>)
    /\ \A a : Segments(<<a>>)
    /\ \A a, b : Segments(<<a, b>>)
    /\ \A a, b, c : a # "devices" \/ c # "diagnostics" => Segments(<<a, b, c>>)
    /\ \A a, b, c, d : Segments(<<a, b, c, d>>)
    /\ Segments(Diagnostics)
<1>1. Segments(Diagnostics)
  BY Tuples, Zenon DEF Segments, Diagnostics
<1>2. \A a, b, c : a # "devices" \/ c # "diagnostics" => Segments(<<a, b, c>>)
  BY Tuples, TuplesDiffer, Zenon DEF Segments
<1>3. Segments(<<>>)
  BY Tuples, TuplesDiffer, Zenon DEF Segments
<1>4. \A a : Segments(<<a>>)
  BY Tuples, TuplesDiffer, Zenon DEF Segments
<1>5. \A a, b : Segments(<<a, b>>)
  BY Tuples, TuplesDiffer, Zenon DEF Segments
<1>6. \A a, b, c, d : Segments(<<a, b, c, d>>)
  BY Tuples, TuplesDiffer, Zenon DEF Segments
<1>. QED  BY <1>1, <1>2, <1>3, <1>4, <1>5, <1>6

Usable(route) == IsOffer(Href(route)) /\ IsOffer(FormOf(route)) /\ IsOffer(FetchOf(route))

LEMMA GeneratedIsOffer ==
    ASSUME NEW as, NEW methods, NEW path, Plain(path), Segments(path),
           NEW route, route = RouteDefinition(as, methods, path)
    PROVE  Usable(route)
<1>1. route.path = path
  BY DEF RouteDefinition
<1>2. \A by, method, query : IsOffer(Request(by, method, path, query))
  BY RequestIsOffer
<1>3. \A verb, values, options, search : Call(route, verb, values, options, search).path = path
  BY <1>1, PlainPath DEF Call
<1>4. \A verb, values, options, search : Form(route, verb, values, options, search).path = path
  BY <1>3 DEF Form
<1>5. ASSUME NEW by, NEW call, call.path = path  PROVE IsOffer(Built(by, call))
  BY <1>2, <1>5 DEF Built
<1>6. IsOffer(Href(route)) /\ IsOffer(FetchOf(route))
  BY <1>3, <1>5, Zenon DEF Href, FetchOf
<1>7. IsOffer(FormOf(route))
  BY <1>4, <1>5, Zenon DEF FormOf
<1>. QED  BY <1>6, <1>7 DEF Usable

LEMMA GeneratedAreUsable ==
    /\ Usable(profile_edit) /\ Usable(logout) /\ Usable(security_edit)
    /\ Usable(appearance_edit) /\ Usable(home) /\ Usable(login)
    /\ Usable(login_store) /\ Usable(register) /\ Usable(register_store)
    /\ Usable(password_request) /\ Usable(password_email) /\ Usable(password_update)
    /\ Usable(password_confirm_store) /\ Usable(twoFactor_login_store) /\ Usable(twoFactor_enable)
    /\ Usable(twoFactor_confirm) /\ Usable(twoFactor_disable) /\ Usable(twoFactor_regenerateRecoveryCodes)
    /\ Usable(twoFactor_qrCode) /\ Usable(twoFactor_secretKey) /\ Usable(twoFactor_recoveryCodes)
    /\ Usable(verification_send) /\ Usable(ProfileController_update) /\ Usable(SecurityController_update)
<1>. DEFINE Words == {"settings", "profile", "logout", "security",
                     "appearance", "login", "register", "forgot-password",
                     "reset-password", "user", "confirm-password", "two-factor-challenge",
                     "two-factor-authentication", "confirmed-two-factor-authentication",
                     "two-factor-recovery-codes", "two-factor-qr-code",
                     "two-factor-secret-key", "email", "verification-notification", "password"}
<1>1. \A word \in Words : word \notin NotLiteral
  BY DEF NotLiteral, Parameters
<1>2. Usable(profile_edit) /\ Usable(logout)
  BY <1>1, GeneratedIsOffer, PlainTuples, AllSegments DEF profile_edit, logout
<1>3. Usable(security_edit) /\ Usable(appearance_edit)
  BY <1>1, GeneratedIsOffer, PlainTuples, AllSegments DEF security_edit, appearance_edit
<1>4. Usable(home) /\ Usable(login)
  BY <1>1, GeneratedIsOffer, PlainTuples, AllSegments DEF home, login
<1>5. Usable(login_store) /\ Usable(register)
  BY <1>1, GeneratedIsOffer, PlainTuples, AllSegments DEF login_store, register
<1>6. Usable(register_store) /\ Usable(password_request)
  BY <1>1, GeneratedIsOffer, PlainTuples, AllSegments DEF register_store, password_request
<1>7. Usable(password_email) /\ Usable(password_update)
  BY <1>1, GeneratedIsOffer, PlainTuples, AllSegments DEF password_email, password_update
<1>8. Usable(password_confirm_store) /\ Usable(twoFactor_login_store)
  BY <1>1, GeneratedIsOffer, PlainTuples, AllSegments DEF password_confirm_store, twoFactor_login_store
<1>9. Usable(twoFactor_enable) /\ Usable(twoFactor_confirm)
  BY <1>1, GeneratedIsOffer, PlainTuples, AllSegments DEF twoFactor_enable, twoFactor_confirm
<1>10. Usable(twoFactor_disable) /\ Usable(twoFactor_regenerateRecoveryCodes)
  BY <1>1, GeneratedIsOffer, PlainTuples, AllSegments DEF twoFactor_disable, twoFactor_regenerateRecoveryCodes
<1>11. Usable(twoFactor_qrCode) /\ Usable(twoFactor_secretKey)
  BY <1>1, GeneratedIsOffer, PlainTuples, AllSegments DEF twoFactor_qrCode, twoFactor_secretKey
<1>12. Usable(twoFactor_recoveryCodes) /\ Usable(verification_send)
  BY <1>1, GeneratedIsOffer, PlainTuples, AllSegments DEF twoFactor_recoveryCodes, verification_send
<1>13. Usable(ProfileController_update) /\ Usable(SecurityController_update)
  BY <1>1, GeneratedIsOffer, PlainTuples, AllSegments DEF ProfileController_update, SecurityController_update
<1>. QED  BY <1>2, <1>3, <1>4, <1>5, <1>6, <1>7, <1>8, <1>9, <1>10, <1>11, <1>12, <1>13

LEMMA AroundIsOffered ==
    ASSUME NEW component, NEW role
    PROVE  OnlyOffers(Around(component, role))
<1>1. OnlyOffers(AppSidebar(role))
  BY RequestIsOffer, AllSegments DEF OnlyOffers, AppSidebar, If
<1>2. OnlyOffers(LanguageSelector)
  BY RequestIsOffer, AllSegments DEF OnlyOffers, LanguageSelector
<1>3. OnlyOffers(UpdateBanner(role))
  BY RequestIsOffer, AllSegments DEF OnlyOffers, UpdateBanner, If
<1>4. OnlyOffers(UserMenu) /\ OnlyOffers(SettingsMenu) /\ IsOffer(Href(home))
  BY GeneratedAreUsable DEF OnlyOffers, UserMenu, SettingsMenu, Usable
<1>. QED  BY <1>1, <1>2, <1>3, <1>4 DEF OnlyOffers, Around, If

LEMMA GuestPagesAreOffered ==
    ASSUME NEW claimed
    PROVE  /\ OnlyOffers(Welcome(claimed)) /\ OnlyOffers(Setup) /\ OnlyOffers(TlsActivation)
           /\ OnlyOffers(Restore) /\ OnlyOffers(Login(claimed)) /\ OnlyOffers(Register)
           /\ OnlyOffers(ForgotPassword) /\ OnlyOffers(ResetPassword) /\ OnlyOffers(ConfirmPassword)
           /\ OnlyOffers(TwoFactorChallenge) /\ OnlyOffers(VerifyEmail)
<1>1. OnlyOffers(Welcome(claimed))
  BY RequestIsOffer, AllSegments DEF OnlyOffers, Welcome, LanguageSelector
<1>2. OnlyOffers(Setup) /\ OnlyOffers(TlsActivation) /\ OnlyOffers(Restore)
  BY RequestIsOffer, AllSegments DEF OnlyOffers, Setup, TlsActivation, Restore, LanguageSelector
<1>3. OnlyOffers(Login(claimed)) /\ OnlyOffers(Register) /\ OnlyOffers(ForgotPassword)
  BY GeneratedAreUsable DEF OnlyOffers, Usable, Login, Register, ForgotPassword, If
<1>4. OnlyOffers(ResetPassword) /\ OnlyOffers(ConfirmPassword)
  BY GeneratedAreUsable DEF OnlyOffers, Usable, ResetPassword, ConfirmPassword
<1>5. OnlyOffers(TwoFactorChallenge) /\ OnlyOffers(VerifyEmail)
  BY GeneratedAreUsable DEF OnlyOffers, Usable, TwoFactorChallenge, VerifyEmail
<1>. QED  BY <1>1, <1>2, <1>3, <1>4, <1>5

LEMMA DevicePagesAreOffered ==
    ASSUME NEW role
    PROVE  /\ OnlyOffers(Dashboard) /\ OnlyOffers(DevicesIndex(role)) /\ OnlyOffers(EditDevice(role))
           /\ OnlyOffers(CollectionTrace) /\ OnlyOffers(ConfigurationShow)
<1>1. OnlyOffers(Dashboard)
  BY RequestIsOffer, AllSegments DEF OnlyOffers, Dashboard
<1>2. OnlyOffers(DevicesIndex(role))
  <2>1. OnlyOffers(DevicesToolbar(role)) /\ OnlyOffers(NewDevice(role))
    BY RequestIsOffer, AllSegments DEF OnlyOffers, DevicesToolbar, NewDevice, If
  <2>2. OnlyOffers(DeviceRow(role)) /\ OnlyOffers(CollectDialog(role))
    BY RequestIsOffer, AllSegments DEF OnlyOffers, DeviceRow, CollectDialog, If
  <2>. QED  BY <2>1, <2>2 DEF OnlyOffers, DevicesIndex
<1>3. OnlyOffers(EditDevice(role))
  <2>1. OnlyOffers(EditApproval(role)) /\ OnlyOffers(EditForm(role))
    BY RequestIsOffer, AllSegments DEF OnlyOffers, EditApproval, EditForm, If
  <2>2. OnlyOffers(CollectionHistory(Manages(role)))
    BY RequestIsOffer, AllSegments DEF OnlyOffers, CollectionHistory, Diagnostics, If
  <2>3. OnlyOffers(ArtifactPanel(Manages(role)))
    BY RequestIsOffer, AllSegments DEF OnlyOffers, ArtifactPanel, If
  <2>. QED  BY <2>1, <2>2, <2>3 DEF OnlyOffers, EditDevice
<1>4. OnlyOffers(CollectionTrace) /\ OnlyOffers(ConfigurationShow)
  BY RequestIsOffer, AllSegments DEF OnlyOffers, CollectionTrace, ConfigurationShow
<1>. QED  BY <1>1, <1>2, <1>3, <1>4

LEMMA AdministrationIsOffered ==
    ASSUME NEW role
    PROVE  /\ OnlyOffers(Credentials) /\ OnlyOffers(Catalog) /\ OnlyOffers(CustomModels)
           /\ OnlyOffers(Integrations) /\ OnlyOffers(Notifications)
           /\ OnlyOffers(DestinationCard \cup NewDestination) /\ OnlyOffers(Users(role))
           /\ OnlyOffers(Audit) /\ OnlyOffers(SystemForm \cup DangerousFeatures(role))
           /\ OnlyOffers(UpdatesCheck \cup UpdatesAcknowledge \cup UpdatesPolicy \cup UpdateDialog)
<1>1. OnlyOffers(Credentials) /\ OnlyOffers(Catalog) /\ OnlyOffers(CustomModels)
  BY RequestIsOffer, AllSegments DEF OnlyOffers, Credentials, Catalog, CustomModels
<1>2. OnlyOffers(Integrations) /\ OnlyOffers(Notifications)
  BY RequestIsOffer, AllSegments DEF OnlyOffers, Integrations, Notifications
<1>3. OnlyOffers(DestinationCard \cup NewDestination)
  BY RequestIsOffer, AllSegments DEF OnlyOffers, DestinationCard, NewDestination
<1>4. OnlyOffers(Users(role))
  <2>1. \A row : OnlyOffers(UserForm(role, row)) /\ OnlyOffers(TransferButton(role, row))
    BY RequestIsOffer, AllSegments DEF OnlyOffers, UserForm, TransferButton, If
  <2>2. OnlyOffers(InviteForm)
    BY RequestIsOffer, AllSegments DEF OnlyOffers, InviteForm
  <2>3. ASSUME NEW o \in Users(role)  PROVE IsOffer(o)
    <3>1. o \in InviteForm \/ \E row : o \in UserForm(role, row) \cup TransferButton(role, row)
      BY DEF Users
    <3>. QED  BY <2>1, <2>2, <3>1 DEF OnlyOffers
  <2>. QED  BY <2>3 DEF OnlyOffers
<1>5. OnlyOffers(Audit) /\ OnlyOffers(SystemForm \cup DangerousFeatures(role))
  BY RequestIsOffer, AllSegments DEF OnlyOffers, Audit, SystemForm, DangerousFeatures, If
<1>6. OnlyOffers(UpdatesCheck \cup UpdatesAcknowledge)
  BY RequestIsOffer, AllSegments DEF OnlyOffers, UpdatesCheck, UpdatesAcknowledge
<1>7. OnlyOffers(UpdatesPolicy \cup UpdateDialog)
  BY RequestIsOffer, AllSegments DEF OnlyOffers, UpdatesPolicy, UpdateDialog
<1>8. OnlyOffers(UpdatesCheck \cup UpdatesAcknowledge \cup UpdatesPolicy \cup UpdateDialog)
  BY <1>6, <1>7 DEF OnlyOffers
<1>. QED  BY <1>1, <1>2, <1>3, <1>4, <1>5, <1>8

LEMMA SettingsAreOffered == OnlyOffers(Profile) /\ OnlyOffers(Security)
<1>1. OnlyOffers(Profile)
  BY GeneratedAreUsable, RequestIsOffer, AllSegments DEF OnlyOffers, Usable, Profile, LanguageSelector
<1>2. OnlyOffers(PasswordForm) /\ OnlyOffers(TwoFactor) /\ OnlyOffers(TwoFactorFetches)
  BY GeneratedAreUsable DEF OnlyOffers, Usable, PasswordForm, TwoFactor, TwoFactorFetches
<1>. QED  BY <1>1, <1>2 DEF OnlyOffers, Security

LEMMA OffersAreRequests ==
    ASSUME NEW component \in Components, NEW role, NEW claimed
    PROVE  OnlyOffers(Offers(component, role, claimed))
<1>1. CASE component \in {"welcome", "setup", "tls-activation", "restore"}
  BY <1>1, AroundIsOffered, GuestPagesAreOffered DEF Offers, OnlyOffers
<1>2. CASE component \in {"auth/login", "auth/register", "auth/forgot-password", "auth/reset-password"}
  BY <1>2, AroundIsOffered, GuestPagesAreOffered DEF Offers, OnlyOffers
<1>3. CASE component \in {"auth/confirm-password", "auth/two-factor-challenge", "auth/verify-email"}
  BY <1>3, AroundIsOffered, GuestPagesAreOffered DEF Offers, OnlyOffers
<1>4. CASE component \in {"dashboard", "devices/index", "devices/edit"}
  BY <1>4, AroundIsOffered, DevicePagesAreOffered DEF Offers, OnlyOffers
<1>5. CASE component \in {"collection-runs/trace", "configurations/show"}
  BY <1>5, AroundIsOffered, DevicePagesAreOffered DEF Offers, OnlyOffers
<1>6. CASE component \in {"credentials/index", "catalog/index", "models/index", "integrations/index"}
  BY <1>6, AroundIsOffered, AdministrationIsOffered DEF Offers, OnlyOffers
<1>7. CASE component \in {"notifications/index", "data-protection/index", "users/index"}
  BY <1>7, AroundIsOffered, AdministrationIsOffered DEF Offers, OnlyOffers
<1>8. CASE component \in {"audit/index", "updates/index", "system/index"}
  BY <1>8, AroundIsOffered, AdministrationIsOffered DEF Offers, OnlyOffers
<1>9. CASE component \in {"settings/profile", "settings/security", "settings/appearance"}
  BY <1>9, AroundIsOffered, SettingsAreOffered DEF Offers, OnlyOffers
<1>. QED  BY <1>1, <1>2, <1>3, <1>4, <1>5, <1>6, <1>7, <1>8, <1>9 DEF Components

LEMMA AllOffersAreRequests == OnlyOffers(AllOffers)
BY OffersAreRequests DEF OnlyOffers, AllOffers

-------------------------------------------------------------------------------
(* The invariant: what is on its way is a plain visit or a request that a page *)
(* offers, the page that is open can be drawn, and it and the remembered       *)
(* address can be read.                                                        *)
Typed ==
    /\ installed \in {"fresh", "claimed", "ready"}
    /\ user \in [role : Roles, active : BOOLEAN]
    /\ session \in {"guest", "challenged", "in"}
    /\ confirmed \in {"recent", "old", "no"}
    /\ changes \in 0..MaxChanges

Paged ==
    /\ page.component \in Components
    /\ page.path \in Addresses
    /\ page.role \in Roles \cup {Nobody}
    /\ page.claimed \in BOOLEAN
    /\ PagesAreDrawn
    /\ Readable(page.path)

IsRequest(r) ==
    /\ r.path \in Addresses
    /\ r.why = "offer" => Request(r.by, r.method, r.path, r.query) \in AllOffers
    /\ r.why # "offer" => r.method = "get" /\ r.query = <<>>

Requested == request # None => IsRequest(request)

IsReturn(path) == path \in Addresses /\ (Readable(path) \/ path = Diagnostics)

Remembered == intended # NoAddress => IsReturn(intended)

SessionInv == Typed /\ Paged /\ Requested /\ Remembered

LEMMA RouteOfRequest ==
    ASSUME request # None, Requested
    PROVE  RouteOf(request) = Resolve(request.method, request.path, request.query)
<1>1. CASE request.why = "offer"
  <2>. DEFINE o == Request(request.by, request.method, request.path, request.query)
  <2>1. o \in AllOffers
    BY <1>1 DEF Requested, IsRequest
  <2>2. o.method = request.method /\ o.path = request.path /\ o.query = request.query
    BY DEF Request
  <2>3. RouteOf(request) = RouteOfOffer[o]
    BY <1>1 DEF RouteOf
  <2>. HIDE DEF o
  <2>4. RouteOfOffer[o] = Resolve(o.method, o.path, o.query)
    BY <2>1, Zenon DEF RouteOfOffer
  <2>. QED  BY <2>2, <2>3, <2>4
<1>2. CASE request.why # "offer"
  <2>1. request.path \in Addresses /\ request.method = "get" /\ request.query = <<>>
    BY <1>2 DEF Requested, IsRequest
  <2>2. RouteOf(request) = RouteOfLink[request.path]
    BY <1>2 DEF RouteOf
  <2>3. RouteOfLink[request.path] = Resolve("get", request.path, <<>>)
    BY <2>1, Zenon DEF RouteOfLink
  <2>. QED  BY <2>1, <2>2, <2>3
<1>. QED  BY <1>1, <1>2

LEMMA ThreeSegments ==
    ASSUME NEW path, IsPath(path), Len(path) = 3
    PROVE  /\ path = <<path[1], path[2], path[3]>>
           /\ DOMAIN path = 1..3 /\ 1 \in 1..3 /\ 3 \in 1..3
BY DEF IsPath

(* Only the one diagnostic there is matches the path of the diagnostics.       *)
LEMMA DiagnosticsMatch ==
    ASSUME NEW route, route.path = <<"devices", "{device}", "diagnostics">>,
           NEW path, Segments(path), MatchesPath(route, path)
    PROVE  path = Diagnostics
<1>1. IsPath(path) /\ Len(path) = 3
  BY DEF Segments, MatchesPath
<1>2. path = <<path[1], path[2], path[3]>> /\ DOMAIN path = 1..3
  BY <1>1, ThreeSegments
<1>3. Fits("devices", path[1]) /\ Fits("diagnostics", path[3])
  <2>1. \A i \in 1..3 : Fits(<<"devices", "{device}", "diagnostics">>[i], path[i])
    BY <1>2, Zenon DEF MatchesPath
  <2>2. 1 \in 1..3 /\ 3 \in 1..3
    BY <1>1, ThreeSegments, Zenon
  <2>3. /\ <<"devices", "{device}", "diagnostics">>[1] = "devices"
        /\ <<"devices", "{device}", "diagnostics">>[3] = "diagnostics"
    OBVIOUS
  <2>. QED  BY <2>1, <2>2, <2>3, Zenon
<1>4. path[1] = "devices" /\ path[3] = "diagnostics"
  BY <1>3 DEF Fits, ServerParameters, Parameters
<1>. QED  BY <1>2, <1>4, Zenon DEF Segments

(* What is known of the route that a request reaches.                          *)
LEMMA ReachedRoute ==
    ASSUME SessionInv, request # None, RouteOf(request).name \notin {"404", "405"}
    PROVE  /\ Sound(RouteOf(request))
           /\ RouteOf(request).methods = GetHead \/ request.method = "get" => Readable(request.path)
           /\ "recent" \in RouteOf(request).gates => IsReturn(request.path)
<1>. DEFINE verb == EffectiveMethod(request.method, request.query)
<1>1. PICK i \in DOMAIN Routes :
        RouteOf(request) = Routes[i] /\ Sound(Routes[i]) /\ Serves(Routes[i], verb, request.path)
  BY RouteOfRequest, ResolveReaches, ResolveMisses, MissedIsMissing DEF SessionInv
<1>2. Routes[i].methods = GetHead => Readable(request.path)
  <2>1. "get" \in ToSet(GetHead)
    BY DEF ToSet, GetHead
  <2>. QED  BY <1>1, <2>1 DEF Readable, Serves
<1>3. request.method = "get" => Readable(request.path)
  BY <1>1, GetIsGet DEF Readable
<1>4. ASSUME "recent" \in Routes[i].gates  PROVE IsReturn(request.path)
  <2>1. request.path \in Addresses
    BY DEF SessionInv, Requested, IsRequest
  <2>2. CASE Routes[i].methods = GetHead
    BY <1>2, <2>1, <2>2 DEF IsReturn
  <2>3. CASE Routes[i].methods = Post /\ Routes[i].path = <<"devices", "{device}", "diagnostics">>
    <3>1. request.method # "get"
      <4>1. "get" \notin ToSet(Post)
        BY DEF ToSet, Post
      <4>. QED  BY <1>1, <2>3, <4>1, GetIsGet DEF Serves
    <3>2. Request(request.by, request.method, request.path, request.query) \in AllOffers
      BY <3>1 DEF SessionInv, Requested, IsRequest
    <3>3. Segments(request.path)
      BY <3>2, AllOffersAreRequests DEF OnlyOffers, IsOffer, Request
    <3>. QED  BY <1>1, <2>1, <2>3, <3>3, DiagnosticsMatch DEF Serves, IsReturn
  <2>. QED  BY <1>1, <1>4, <2>2, <2>3 DEF Sound, AsksAgain
<1>. QED  BY <1>1, <1>2, <1>3, <1>4

-------------------------------------------------------------------------------
(* Addresses the server itself redirects to.                                   *)
LEMMA OfferedAddress ==
    ASSUME NEW component \in Components, NEW role \in Roles \cup {Nobody}, NEW claimed \in BOOLEAN,
           NEW o \in Offers(component, role, claimed)
    PROVE  o.path \in Addresses
BY DEF AllOffers, Addresses

LEMMA LinkPath == \A path : Link(path).path = path
BY DEF Link, Visit, Request

LEMMA ServerAddresses ==
    /\ <<>> \in Addresses /\ <<"tls-activation">> \in Addresses /\ <<"two-factor-challenge">> \in Addresses
    /\ <<"user", "confirm-password">> \in Addresses /\ <<"login">> \in Addresses
    /\ <<"dashboard">> \in Addresses /\ <<"settings", "profile">> \in Addresses
    /\ <<"updates">> \in Addresses /\ <<"setup">> \in Addresses
<1>1. /\ <<>> \in Addresses /\ <<"tls-activation">> \in Addresses
      /\ <<"two-factor-challenge">> \in Addresses /\ <<"user", "confirm-password">> \in Addresses
  BY DEF Addresses
<1>2. <<"login">> \in Addresses
  <2>1. Link(<<"login">>) \in Offers("welcome", Nobody, TRUE)
    BY DEF Offers, Welcome
  <2>. QED  BY <2>1, OfferedAddress, LinkPath DEF Components
<1>3. <<"setup">> \in Addresses
  <2>1. Visit("post", <<"setup">>) \in Offers("setup", Nobody, TRUE)
    BY DEF Offers, Setup
  <2>2. Visit("post", <<"setup">>).path = <<"setup">>
    BY DEF Visit, Request
  <2>. QED  BY <2>1, <2>2, OfferedAddress DEF Components
<1>4. AppSidebar("owner") \subseteq Offers("dashboard", "owner", TRUE)
  BY DEF Offers, Around, Layout
<1>5. /\ Link(<<"dashboard">>) \in AppSidebar("owner") /\ Link(<<"settings", "profile">>) \in AppSidebar("owner")
      /\ Link(<<"updates">>) \in AppSidebar("owner")
  BY DEF AppSidebar, If, Manages, IsOwner
<1>6. "dashboard" \in Components /\ "owner" \in Roles
  BY DEF Components, Roles
<1>. QED  BY <1>1, <1>2, <1>3, <1>4, <1>5, <1>6, OfferedAddress, LinkPath

(* What the pieces of an answer leave true.                                    *)
LEMMA PageStays ==
    ASSUME SessionInv, UNCHANGED page
    PROVE  Paged'
BY DEF SessionInv, Paged, PagesAreDrawn

LEMMA NothingOnItsWay ==
    ASSUME request' = None
    PROVE  Requested'
BY DEF Requested

LEMMA Staying ==
    ASSUME SessionInv, NEW code, Stay(code)
    PROVE  Paged' /\ Requested'
BY PageStays, NothingOnItsWay DEF Stay

LEMMA Asking ==
    ASSUME NEW why, why # "offer", NEW hops, NEW path \in Addresses, request' = Ask(why, hops, Link(path))
    PROVE  Requested'
BY DEF Requested, IsRequest, Ask, Link, Visit, Request

LEMMA Redirecting ==
    ASSUME SessionInv, NEW path \in Addresses, Redirect(path)
    PROVE  Paged' /\ Requested'
<1>1. request' = Ask("redirect", request.hops + 1, Link(path)) /\ UNCHANGED page
  BY DEF Redirect
<1>. QED  BY <1>1, PageStays, Asking

LEMMA GoingBack ==
    ASSUME SessionInv, Back
    PROVE  Paged' /\ Requested'
BY Redirecting DEF Back, SessionInv, Paged

LEMMA Returning ==
    ASSUME SessionInv, Intended
    PROVE  Paged' /\ Requested' /\ Remembered'
<1>1. CASE intended = NoAddress
  BY <1>1, Redirecting, ServerAddresses DEF Intended, Remembered
<1>2. CASE intended # NoAddress
  BY <1>2, Redirecting DEF Intended, SessionInv, Remembered, IsReturn
<1>. QED  BY <1>1, <1>2

LEMMA ReturnStays ==
    ASSUME SessionInv, UNCHANGED intended
    PROVE  Remembered'
BY DEF SessionInv, Remembered

LEMMA Ending ==
    ASSUME EndSession
    PROVE  Remembered' /\ session' = "guest" /\ confirmed' = "no"
BY DEF EndSession, Remembered

(* A gate remembers a visit that has reached a route, or the page.             *)
LEMMA Remembering ==
    ASSUME SessionInv, request # None, RouteOf(request).name \notin {"404", "405"}, Remember
    PROVE  Remembered'
<1>1. CASE request.method = "get" /\ request.by = "visit"
  BY <1>1, ReachedRoute DEF Remember, Remembered, IsReturn, SessionInv, Requested, IsRequest
<1>2. CASE ~(request.method = "get" /\ request.by = "visit")
  BY <1>2 DEF Remember, Remembered, IsReturn, SessionInv, Paged
<1>. QED  BY <1>1, <1>2

(* A page is drawn for somebody if its layout needs somebody: the gate of its  *)
(* route has seen to it, but for the restore page.                             *)
LEMMA OpenGate ==
    ASSUME NEW route, Gate(route) = "open"
    PROVE  route.name \notin {"404", "405"} /\ ("auth" \in route.gates => session = "in")
BY DEF Gate, Authenticate

LEMMA ViewerIsSomebody ==
    ASSUME SessionInv
    PROVE  Viewer \in Roles \cup {Nobody} /\ (session = "in" => Viewer # Nobody)
BY DEF SessionInv, Typed, Viewer, Roles, Nobody

LEMMA Showing ==
    ASSUME SessionInv, request # None, NEW component \in Components, Show(component),
           Gate(RouteOf(request)) = "open",
           RouteOf(request).name \in PagesForUsers \cup PagesForGuests,
           \/ Layout(component) \notin {"app", "settings"}
           \/ RouteOf(request).name \in PagesForUsers
           \/ component = "restore"
    PROVE  Paged' /\ Requested'
<1>. DEFINE route == RouteOf(request)
<1>1. route.name \notin {"404", "405"} /\ ("auth" \in route.gates => session = "in")
  BY OpenGate
<1>2. Sound(route) /\ Readable(request.path)
  BY <1>1, ReachedRoute DEF Sound, IsGot
<1>3. Drawn(component) \/ (component = "restore" /\ Viewer = Nobody)
  <2>1. CASE route.name \in PagesForUsers
    BY <1>1, <1>2, <2>1, ViewerIsSomebody DEF Drawn, Sound, AsksForUser
  <2>2. CASE route.name \notin PagesForUsers
    BY <2>2 DEF Drawn
  <2>. QED  BY <2>1, <2>2
<1>4. /\ page' = [component |-> component, path |-> request.path, role |-> Viewer,
                  claimed |-> Claimed, drawn |-> Drawn(component)]
      /\ request' = None
  BY DEF Show
<1>5. request.path \in Addresses /\ Claimed \in BOOLEAN
  BY DEF SessionInv, Requested, IsRequest, Claimed
<1>. QED  BY <1>2, <1>3, <1>4, <1>5, ViewerIsSomebody, NothingOnItsWay DEF Paged, PagesAreDrawn

-------------------------------------------------------------------------------
(* Every answer keeps the invariant.                                           *)
LEMMA TurnedAwayStep ==
    ASSUME SessionInv, request # None, TurnedAway(RouteOf(request))
    PROVE  SessionInv'
<1>. DEFINE route == RouteOf(request)
            gate  == Gate(route)
<1>1. gate # "missing" => route.name \notin {"404", "405"}
  BY DEF Gate
<1>2. UNCHANGED <<installed, user, changes>>
  BY DEF TurnedAway, Account
<1>. HIDE DEF gate
<1>3. CASE gate = "missing" /\ Stay("missing") /\ UNCHANGED Session
  BY <1>2, <1>3, Staying, ReturnStays DEF SessionInv, Typed, Session
<1>4. CASE /\ gate = "inactive" /\ EndSession
           /\ IF request.by = "fetch" THEN Stay("refused") ELSE Redirect(<<"login">>)
  <2>1. Paged' /\ Requested'
    BY <1>4, Staying, Redirecting, ServerAddresses
  <2>. QED  BY <1>2, <1>4, <2>1, Ending DEF SessionInv, Typed
<1>5. CASE gate = "guest" /\ Redirect(<<"dashboard">>) /\ UNCHANGED Session
  BY <1>2, <1>5, Redirecting, ReturnStays, ServerAddresses DEF SessionInv, Typed, Session
<1>6. CASE /\ gate = "auth"
           /\ IF request.by = "fetch" THEN Stay("refused") /\ UNCHANGED intended
              ELSE Redirect(<<"login">>) /\ Remember
           /\ UNCHANGED <<session, confirmed>>
  <2>1. Paged' /\ Requested' /\ Remembered'
    BY <1>1, <1>6, Staying, ReturnStays, Redirecting, Remembering, ServerAddresses
  <2>. QED  BY <1>2, <1>6, <2>1 DEF SessionInv, Typed
<1>7. CASE gate = "setup" /\ Redirect(<<"setup">>) /\ UNCHANGED Session
  BY <1>2, <1>7, Redirecting, ReturnStays, ServerAddresses DEF SessionInv, Typed, Session
<1>8. CASE gate = "role" /\ Stay("refused") /\ UNCHANGED Session
  BY <1>2, <1>8, Staying, ReturnStays DEF SessionInv, Typed, Session
<1>9. CASE /\ gate = "confirm"
           /\ IF request.by = "fetch" THEN Stay("locked") /\ UNCHANGED intended
              ELSE Redirect(<<"user", "confirm-password">>) /\ Remember
           /\ UNCHANGED <<session, confirmed>>
  <2>1. Paged' /\ Requested' /\ Remembered'
    BY <1>1, <1>9, Staying, ReturnStays, Redirecting, Remembering, ServerAddresses
  <2>. QED  BY <1>2, <1>9, <2>1 DEF SessionInv, Typed
<1>10. CASE /\ gate = "recent"
            /\ IF request.by = "fetch" THEN Stay("locked") /\ UNCHANGED intended
               ELSE Redirect(<<"user", "confirm-password">>) /\ intended' = request.path
            /\ UNCHANGED <<session, confirmed>>
  <2>1. "recent" \in route.gates /\ route.name \notin {"404", "405"}
    BY <1>1, <1>10 DEF gate, Gate, EnsureRecentPassword
  <2>2. IsReturn(request.path)
    BY <2>1, ReachedRoute
  <2>3. Paged' /\ Requested' /\ Remembered'
    BY <1>10, <2>2, Staying, ReturnStays, Redirecting, ServerAddresses DEF Remembered
  <2>. QED  BY <1>2, <1>10, <2>3 DEF SessionInv, Typed
<1>. QED  BY <1>3, <1>4, <1>5, <1>6, <1>7, <1>8, <1>9, <1>10 DEF TurnedAway, gate

(* The pages, each with the layout that its route's gates are good for.        *)
LEMMA PageTable ==
    \A p \in PageOf :
        /\ p[2] \in Components
        /\ \/ p[1] \in PagesForUsers
           \/ p[1] \in PagesForGuests /\ Layout(p[2]) \notin {"app", "settings"}
BY DEF PageOf, Components, PagesForUsers, PagesForGuests, Layout

LEMMA PageLayouts ==
    /\ {"auth/register", "setup", "tls-activation", "restore", "auth/two-factor-challenge",
        "auth/verify-email"} \subseteq Components
    /\ \A component \in {"auth/register", "setup", "tls-activation", "auth/two-factor-challenge",
                         "auth/verify-email"} : Layout(component) \notin {"app", "settings"}
BY DEF Components, Layout

LEMMA ShowsPage ==
    ASSUME SessionInv, request # None,
           \/ ShowPage(RouteOf(request)) \/ Give(RouteOf(request))
           \/ ShowRegister(RouteOf(request)) \/ ShowSetup(RouteOf(request))
           \/ ShowTlsActivation(RouteOf(request)) \/ ShowRestore(RouteOf(request))
           \/ ShowChallenge(RouteOf(request))
    PROVE  SessionInv'
<1>. DEFINE route == RouteOf(request)
<1>1. CASE ShowPage(route)
  <2>1. PICK p \in PageOf : Reaches(route, p[1]) /\ Show(p[2])
    BY <1>1 DEF ShowPage
  <2>2. Paged' /\ Requested'
    BY <2>1, PageTable, Showing DEF Reaches
  <2>. QED  BY <1>1, <2>2, ReturnStays DEF ShowPage, SessionInv, Typed, Account, Session
<1>2. CASE Give(route)
  BY <1>2, Staying, ReturnStays DEF Give, SessionInv, Typed, Account, Session
<1>3. CASE ShowRegister(route)
  <2>1. Paged' /\ Requested'
    BY <1>3, Staying, Showing, PageLayouts DEF ShowRegister, Reaches, PagesForGuests
  <2>. QED  BY <1>3, <2>1, ReturnStays DEF ShowRegister, SessionInv, Typed, Account, Session
<1>4. CASE ShowSetup(route)
  <2>1. Paged' /\ Requested'
    BY <1>4, Redirecting, ServerAddresses, Showing, PageLayouts DEF ShowSetup, Reaches, PagesForGuests
  <2>. QED  BY <1>4, <2>1, ReturnStays DEF ShowSetup, SessionInv, Typed, Account, Session
<1>5. CASE ShowTlsActivation(route)
  <2>1. Paged' /\ Requested'
    BY <1>5, Redirecting, ServerAddresses, Showing, PageLayouts
       DEF ShowTlsActivation, Reaches, PagesForGuests
  <2>. QED  BY <1>5, <2>1, ReturnStays DEF ShowTlsActivation, SessionInv, Typed, Account, Session
<1>6. CASE ShowRestore(route)
  <2>1. Paged' /\ Requested'
    BY <1>6, Staying, Showing, PageLayouts DEF ShowRestore, Reaches, PagesForGuests
  <2>. QED  BY <1>6, <2>1, ReturnStays DEF ShowRestore, SessionInv, Typed, Account, Session
<1>7. CASE ShowChallenge(route)
  <2>1. Paged' /\ Requested'
    BY <1>7, Redirecting, ServerAddresses, Showing, PageLayouts DEF ShowChallenge, Reaches, PagesForGuests
  <2>. QED  BY <1>7, <2>1, ReturnStays DEF ShowChallenge, SessionInv, Typed, Account, Session
<1>. QED  BY <1>1, <1>2, <1>3, <1>4, <1>5, <1>6, <1>7

LEMMA SignsIn ==
    ASSUME SessionInv, request # None,
           \/ ShowVerifyEmail(RouteOf(request)) \/ RegisterOwner(RouteOf(request))
           \/ LogIn(RouteOf(request)) \/ PassChallenge(RouteOf(request)) \/ LogOut(RouteOf(request))
           \/ ConfirmsPassword(RouteOf(request))
    PROVE  SessionInv'
<1>. DEFINE route == RouteOf(request)
<1>1. CASE ShowVerifyEmail(route)
  <2>1. Paged' /\ Requested' /\ Remembered'
    BY <1>1, Showing, Returning, ReturnStays, PageLayouts DEF ShowVerifyEmail, Reaches, PagesForGuests
  <2>. QED  BY <1>1, <2>1 DEF ShowVerifyEmail, SessionInv, Typed, Account
<1>2. CASE RegisterOwner(route)
  <2>1. Paged' /\ Requested' /\ Remembered'
    BY <1>2, GoingBack, Returning, ReturnStays DEF RegisterOwner, Session
  <2>2. CASE UNCHANGED <<Account, Session>>
    BY <1>2, <2>1, <2>2 DEF RegisterOwner, SessionInv, Typed, Account, Session
  <2>3. CASE /\ installed' = "claimed" /\ user' = [role |-> "owner", active |-> TRUE]
             /\ session' = "in" /\ UNCHANGED confirmed
    <3>1. user' \in [role : Roles, active : BOOLEAN]
      BY <2>3 DEF Roles
    <3>. QED  BY <1>2, <2>1, <2>3, <3>1 DEF RegisterOwner, SessionInv, Typed
  <2>. QED  BY <1>2, <2>2, <2>3 DEF RegisterOwner
<1>3. CASE LogIn(route)
  <2>1. Paged' /\ Requested' /\ Remembered'
    BY <1>3, GoingBack, Redirecting, Returning, ReturnStays, ServerAddresses DEF LogIn
  <2>. QED  BY <1>3, <2>1 DEF LogIn, SessionInv, Typed, Account
<1>4. CASE PassChallenge(route)
  <2>1. CASE LoggedIn
    <3>1. Paged' /\ Requested' /\ Remembered'
      BY <2>1, Redirecting, Returning, Ending, ServerAddresses DEF LoggedIn
    <3>. QED  BY <1>4, <2>1, <3>1, Ending DEF PassChallenge, LoggedIn, SessionInv, Typed, Account
  <2>2. CASE Redirect(<<"two-factor-challenge">>) /\ UNCHANGED Session
    BY <1>4, <2>2, Redirecting, ReturnStays, ServerAddresses
       DEF PassChallenge, SessionInv, Typed, Account, Session
  <2>. QED  BY <1>4, <2>1, <2>2 DEF PassChallenge
<1>5. CASE LogOut(route)
  BY <1>5, Redirecting, Ending, ServerAddresses DEF LogOut, SessionInv, Typed, Account
<1>6. CASE ConfirmsPassword(route)
  <2>1. Paged' /\ Requested' /\ Remembered'
    BY <1>6, GoingBack, Returning, ReturnStays DEF ConfirmsPassword
  <2>. QED  BY <1>6, <2>1 DEF ConfirmsPassword, SessionInv, Typed, Account
<1>. QED  BY <1>1, <1>2, <1>3, <1>4, <1>5, <1>6

LEMMA Administers ==
    ASSUME SessionInv, request # None,
           \/ StoreSetup(RouteOf(request)) \/ UpdateSystem(RouteOf(request))
           \/ UpdateUser(RouteOf(request)) \/ TransferOwnership(RouteOf(request))
           \/ Reauthenticate(RouteOf(request))
    PROVE  SessionInv'
<1>. DEFINE route == RouteOf(request)
<1>1. CASE StoreSetup(route)
  <2>1. Paged' /\ Requested'
    BY <1>1, GoingBack, Redirecting, ServerAddresses DEF StoreSetup
  <2>. QED  BY <1>1, <2>1, ReturnStays DEF StoreSetup, SessionInv, Typed, Session
<1>2. CASE UpdateSystem(route)
  <2>1. Paged' /\ Requested' /\ Remembered'
    BY <1>2, GoingBack, Staying, Redirecting, Ending, ReturnStays, ServerAddresses DEF UpdateSystem, Session
  <2>. QED  BY <1>2, <2>1, Ending DEF UpdateSystem, SessionInv, Typed, Account, Session
<1>3. CASE UpdateUser(route)
  <2>1. Paged' /\ Requested'
    BY <1>3, GoingBack, Staying DEF UpdateUser
  <2>. QED  BY <1>3, <2>1, ReturnStays DEF UpdateUser, SessionInv, Typed, Session
<1>4. CASE TransferOwnership(route)
  <2>1. Paged' /\ Requested'
    BY <1>4, GoingBack, Staying DEF TransferOwnership
  <2>. QED  BY <1>4, <2>1, ReturnStays DEF TransferOwnership, SessionInv, Typed, Session, Roles
<1>5. CASE Reauthenticate(route)
  BY <1>5, GoingBack, ReturnStays DEF Reauthenticate, SessionInv, Typed, Account
<1>. QED  BY <1>1, <1>2, <1>3, <1>4, <1>5

LEMMA ChangesNothing ==
    ASSUME SessionInv, request # None,
           \/ ResetForgottenPassword(RouteOf(request)) \/ UpdateProfile(RouteOf(request))
           \/ RunUpdate(RouteOf(request)) \/ Does(RouteOf(request))
           \/ DoesCarefully(RouteOf(request)) \/ StoreRestore(RouteOf(request))
    PROVE  SessionInv'
<1>. DEFINE route == RouteOf(request)
<1>1. UNCHANGED <<installed, user, session, confirmed, intended, changes>>
  BY DEF ResetForgottenPassword, UpdateProfile, RunUpdate, Does, DoesCarefully, StoreRestore,
         Account, Session
<1>2. Paged' /\ Requested'
  <2>1. CASE ResetForgottenPassword(route) \/ UpdateProfile(route) \/ RunUpdate(route)
    BY <2>1, GoingBack, Redirecting, ServerAddresses DEF ResetForgottenPassword, UpdateProfile, RunUpdate
  <2>2. CASE Does(route) \/ DoesCarefully(route) \/ StoreRestore(route)
    BY <2>2, GoingBack, Staying DEF Does, DoesCarefully, StoreRestore
  <2>. QED  BY <2>1, <2>2
<1>. QED  BY <1>1, <1>2, ReturnStays DEF SessionInv, Typed

(* What the viewer presses is an offer of the page.                            *)
LEMMA PressStep ==
    ASSUME SessionInv, Press
    PROVE  SessionInv'
<1>1. PICK offer \in Offers(page.component, page.role, page.claimed) : request' = Ask("offer", 0, offer)
  BY DEF Press
<1>2. offer \in AllOffers /\ offer.path \in Addresses
  <2>1. page.component \in Components /\ page.role \in Roles \cup {Nobody} /\ page.claimed \in BOOLEAN
    BY DEF SessionInv, Paged
  <2>. QED  BY <2>1, OfferedAddress DEF AllOffers
<1>3. offer = Request(offer.by, offer.method, offer.path, offer.query)
  BY <1>2, AllOffersAreRequests DEF OnlyOffers, IsOffer
<1>4. Requested'
  BY <1>1, <1>2, <1>3, Zenon DEF Requested, IsRequest, Ask
<1>. QED  BY <1>4, PageStays, ReturnStays DEF Press, SessionInv, Typed, Account, Session

LEMMA OpenStep ==
    ASSUME SessionInv, Open
    PROVE  SessionInv'
<1>1. PICK path \in Bookmarks : request' = Ask("open", 0, Link(path))
  BY DEF Open
<1>2. path \in Addresses
  BY DEF Addresses
<1>3. Requested'
  BY <1>1, <1>2, Asking
<1>. QED  BY <1>3, PageStays, ReturnStays DEF Open, SessionInv, Typed, Account, Session

LEMMA BehindHisBack ==
    ASSUME SessionInv,
           OthersChangeRole \/ Deactivate \/ RevokeSessions \/ SessionExpires \/ ConfirmationAges
    PROVE  SessionInv'
<1>1. UNCHANGED <<page, request>>
  BY DEF OthersChangeRole, Deactivate, RevokeSessions, SessionExpires, ConfirmationAges, Happens
<1>2. Paged' /\ Requested'
  BY <1>1, PageStays DEF SessionInv, Requested
<1>3. changes' \in 0..MaxChanges
  BY SessionAssumption
     DEF OthersChangeRole, Deactivate, RevokeSessions, SessionExpires, ConfirmationAges, Happens,
         SessionInv, Typed
<1>4. CASE OthersChangeRole \/ Deactivate
  BY <1>2, <1>3, <1>4, ReturnStays
     DEF OthersChangeRole, Deactivate, Happens, SessionInv, Typed, Session
<1>5. CASE RevokeSessions \/ SessionExpires
  BY <1>2, <1>3, <1>5, Ending DEF RevokeSessions, SessionExpires, Happens, SessionInv, Typed, Account
<1>6. CASE ConfirmationAges
  BY <1>2, <1>3, <1>6, ReturnStays DEF ConfirmationAges, Happens, SessionInv, Typed
<1>. QED  BY <1>4, <1>5, <1>6

LEMMA SessionStep == SessionInv /\ [Next]_vars => SessionInv'
<1>. SUFFICES ASSUME SessionInv, [Next]_vars  PROVE SessionInv'
  OBVIOUS
<1>1. CASE Serve
  BY <1>1, TurnedAwayStep, ShowsPage, SignsIn, Administers, ChangesNothing DEF Serve, Answer
<1>2. CASE Press
  BY <1>2, PressStep
<1>3. CASE Open
  BY <1>3, OpenStep
<1>4. CASE OthersChangeRole \/ Deactivate \/ RevokeSessions \/ SessionExpires \/ ConfirmationAges
  BY <1>4, BehindHisBack
<1>5. CASE UNCHANGED vars
  BY <1>5, PageStays, ReturnStays DEF vars, SessionInv, Typed, Requested
<1>. QED  BY <1>1, <1>2, <1>3, <1>4, <1>5 DEF Next

LEMMA SessionBegins == Init => SessionInv
<1>. SUFFICES ASSUME Init  PROVE SessionInv
  OBVIOUS
<1>1. Typed
  <2>1. user \in [role : Roles, active : BOOLEAN]
    <3>1. FirstRoles \subseteq Roles /\ "owner" \in Roles
      BY SessionAssumption DEF Roles
    <3>. QED  BY <3>1 DEF Init
  <2>2. 0 \in 0..MaxChanges
    BY SessionAssumption
  <2>. QED  BY <2>1, <2>2 DEF Init, Typed
<1>2. Readable(<<>>)
  <2>1. PublicRoutes[1].path = <<>> /\ PublicRoutes[1].methods = GetHead
    BY DEF PublicRoutes, Served
  <2>2. 1 \in DOMAIN Routes /\ Routes[1] = PublicRoutes[1]
    BY RoutesAreSound DEF SoundFromHome, SoundTable
  <2>3. "get" \in ToSet(GetHead)
    BY DEF ToSet, GetHead
  <2>4. MatchesPath(Routes[1], <<>>)
    BY <2>1, <2>2 DEF MatchesPath
  <2>. QED  BY <2>1, <2>2, <2>3, <2>4 DEF Readable, Serves
<1>3. Paged
  <2>1. page = [component |-> "welcome", path |-> <<>>, role |-> Nobody, claimed |-> Claimed, drawn |-> TRUE]
    BY DEF Init
  <2>2. "welcome" \in Components /\ <<>> \in Addresses /\ Claimed \in BOOLEAN
    BY ServerAddresses DEF Components, Claimed
  <2>. QED  BY <1>2, <2>1, <2>2 DEF Paged, PagesAreDrawn
<1>4. Requested /\ Remembered
  BY DEF Init, Requested, Remembered
<1>. QED  BY <1>1, <1>3, <1>4 DEF SessionInv

LEMMA SessionAlways == Spec => []SessionInv
BY SessionBegins, SessionStep, PTL DEF Spec

(* The state has its types: whatever is opened, offered, redirected to or      *)
(* remembered is an address of the pages, of the bookmarks or of the server.   *)
THEOREM SessionTyped == Spec => []TypeOK
<1>1. SessionInv => TypeOK
  BY DEF SessionInv, Typed, Paged, Requested, IsRequest, Remembered, IsReturn, TypeOK
<1>. QED  BY <1>1, SessionAlways, PTL

(* Every page a viewer is given can be drawn, except the restore page for one  *)
(* who has not signed in: every route whose page has the sidebar of the        *)
(* application in its layout stands behind the gate that asks for a user.      *)
THEOREM EveryPageIsDrawn == Spec => []PagesAreDrawn
<1>1. SessionInv => PagesAreDrawn
  BY DEF SessionInv, Paged
<1>. QED  BY <1>1, SessionAlways, PTL

(* An address remembered for after the login or the confirmation is one that a *)
(* visit can read, except the address of the diagnostic: whichever gate        *)
(* remembers it, whichever page or bookmark it comes from.                     *)
THEOREM RememberedCanBeRead == Spec => []RememberedIsReadable
<1>1. ASSUME SessionInv, intended # NoAddress, intended # Diagnostics
      PROVE  RouteOfLink[intended].name \notin {"404", "405"}
  <2>1. intended \in Addresses /\ Readable(intended)
    BY <1>1 DEF SessionInv, Remembered, IsReturn
  <2>2. RouteOfLink[intended] = Resolve("get", intended, <<>>)
    BY <2>1, Zenon DEF RouteOfLink
  <2>. QED  BY <2>1, <2>2, ReadableIsFound
<1>2. SessionInv => RememberedIsReadable
  BY <1>1 DEF RememberedIsReadable, Diagnostics
<1>. QED  BY <1>2, SessionAlways, PTL

===============================================================================

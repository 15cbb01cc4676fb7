----------------------- MODULE WebSession_visits_proofs -----------------------
(* No visit is sent round in circles.  Every address has a distance: how many  *)
(* redirects a visit to it may still take, told by the address, the session    *)
(* and whether the set-up is done.  Every answer to a visit that redirects     *)
(* leads to an address that is nearer, and nothing that happens meanwhile      *)
(* moves an address further away.  The one address that leads anywhere, the    *)
(* verification of the e-mail that returns to the remembered one, is used once *)
(* and remembers only what is near.                                            *)
EXTENDS WebSession_offers_proofs

-------------------------------------------------------------------------------
(* The addresses: the ones of guests, the ones behind the set-up, the ones     *)
(* that ask for the password, and the ones that are near.                      *)
Begins(path, words) == Len(path) >= 1 /\ path[1] \in words

GuestsWords == {"login", "register", "forgot-password", "reset-password", "two-factor-challenge"}
Doors       == GuestsWords \cup {"passkeys"}
InnerWords  == AdminsWords \cup {"dashboard", "devices", "collection-runs", "settings", "updates"}
AskWords    == AdminsWords \cup {"devices", "collection-runs", "updates"}
ShortWords  == AdminsWords
               \cup {"dashboard", "devices", "collection-runs", "updates", "setup", "tls-activation",
                     "restore", "user"}
UserTails   == {"two-factor-authentication", "confirmed-two-factor-authentication", "two-factor-qr-code",
                "two-factor-secret-key", "two-factor-recovery-codes", "passkeys"}

OfSettings(path) == Len(path) = 2 /\ path[1] = "settings"

Short(path) == path = <<>> \/ Begins(path, ShortWords) \/ OfSettings(path)

Asks(path) ==
    \/ Begins(path, AskWords)
    \/ OfSettings(path)
    \/ Len(path) \in {2, 3} /\ path[1] = "user" /\ path[2] \in UserTails

(* How many redirects a visit may still take when nothing is remembered, and   *)
(* how many it may take at all.                                                *)
Dash(n) == IF n = "ready" THEN 1 ELSE 2

Far(path, s, n) ==
    CASE path = <<"dashboard">>              -> IF s = "in" THEN Dash(n) ELSE 1
      [] path = <<"setup">>                  -> IF n = "ready" THEN 2 ELSE 1
      [] path = <<>>                         -> 1
      [] path = <<"user", "confirm-password">> -> 1
      [] path = <<"email", "verify">>        -> IF s = "in" THEN 1 + Dash(n) ELSE 1
      [] path = <<"settings">>               -> 3
      [] Begins(path, {"passkeys"})          -> 3
      [] path = <<"two-factor-challenge">>   -> IF s = "in" THEN 1 + Dash(n) ELSE 1
      [] Begins(path, GuestsWords) /\ path # <<"two-factor-challenge">>
                                             -> IF s = "in" THEN 1 + Dash(n) ELSE 0
      [] OTHER                               -> 2

Left(path, s, n, i) ==
    IF path = <<"email", "verify">> /\ s = "in" /\ i # NoAddress THEN 1 + Far(i, s, n)
    ELSE Far(path, s, n)

LEMMA FarOf ==
    ASSUME NEW s, NEW n
    PROVE  /\ Far(<<"dashboard">>, s, n) = IF s = "in" THEN Dash(n) ELSE 1
           /\ Far(<<"setup">>, s, n) = IF n = "ready" THEN 2 ELSE 1
           /\ Far(<<>>, s, n) = 1
           /\ Far(<<"user", "confirm-password">>, s, n) = 1
           /\ Far(<<"email", "verify">>, s, n) = IF s = "in" THEN 1 + Dash(n) ELSE 1
           /\ Far(<<"settings">>, s, n) = 3
           /\ Far(<<"two-factor-challenge">>, s, n) = IF s = "in" THEN 1 + Dash(n) ELSE 1
           /\ Far(<<"login">>, s, n) = IF s = "in" THEN 1 + Dash(n) ELSE 0
           /\ Far(<<"tls-activation">>, s, n) = 2
           /\ Far(<<"settings", "profile">>, s, n) = 2
<1>1. /\ \A words : ~Begins(<<>>, words)
      /\ \A word, words : Begins(<<word>>, words) <=> word \in words
      /\ \A word, next, words : Begins(<<word, next>>, words) <=> word \in words
  BY DEF Begins
<1>2. \A a, b : <<a>> # <<>> /\ <<a, b>> # <<>> /\ <<a>> # <<a, b>>
  OBVIOUS
<1>3. \A a, b, c : (<<a>> = <<b>> <=> a = b) /\ <<a>> # <<b, c>>
  OBVIOUS
<1>4. ASSUME NEW a, NEW b, NEW c, NEW d  PROVE <<a, b>> = <<c, d>> => a = c
  OBVIOUS
<1>5. /\ Far(<<"dashboard">>, s, n) = IF s = "in" THEN Dash(n) ELSE 1
      /\ Far(<<"setup">>, s, n) = IF n = "ready" THEN 2 ELSE 1
  BY <1>1, <1>2, <1>3 DEF Far, GuestsWords
<1>6. Far(<<>>, s, n) = 1 /\ Far(<<"settings">>, s, n) = 3
  BY <1>1, <1>2, <1>3 DEF Far, GuestsWords
<1>7. /\ Far(<<"user", "confirm-password">>, s, n) = 1
      /\ Far(<<"email", "verify">>, s, n) = IF s = "in" THEN 1 + Dash(n) ELSE 1
      /\ Far(<<"settings", "profile">>, s, n) = 2
  BY <1>1, <1>2, <1>3, <1>4 DEF Far, GuestsWords
<1>8. /\ Far(<<"two-factor-challenge">>, s, n) = IF s = "in" THEN 1 + Dash(n) ELSE 1
      /\ Far(<<"login">>, s, n) = IF s = "in" THEN 1 + Dash(n) ELSE 0
      /\ Far(<<"tls-activation">>, s, n) = 2
  BY <1>1, <1>2, <1>3 DEF Far, GuestsWords
<1>. QED  BY <1>5, <1>6, <1>7, <1>8

(* Which address is how far.                                                   *)
LEMMA Distances ==
    ASSUME NEW path, NEW s, NEW n
    PROVE  /\ Far(path, s, n) \in 0..3
           /\ Short(path) => Far(path, s, n) <= 2
           /\ s = "in" \/ ~Begins(path, GuestsWords) => Far(path, s, n) >= 1
           /\ s = "in" /\ Begins(path, Doors) => Far(path, s, n) >= 1 + Dash(n)
           /\ s = "in" /\ n # "ready" /\ Begins(path, InnerWords) => Far(path, s, n) >= 2
           /\ Asks(path) => Far(path, s, n) >= 2
<1>1. /\ \A a : Len(<<a>>) = 1 /\ <<a>>[1] = a
      /\ \A a, b : Len(<<a, b>>) = 2 /\ <<a, b>>[1] = a /\ <<a, b>>[2] = b
      /\ Len(<<>>) = 0
  OBVIOUS
<1>2. Dash(n) \in 1..2 /\ (n # "ready" => Dash(n) = 2)
  BY DEF Dash
<1>. HIDE DEF Dash
<1>3. Far(path, s, n) \in 0..3
  BY <1>2 DEF Far
<1>4. Short(path) => Far(path, s, n) <= 2
  BY <1>1, <1>2 DEF Far, Short, Begins, ShortWords, AdminsWords, GuestsWords, OfSettings
<1>5. s = "in" \/ ~Begins(path, GuestsWords) => Far(path, s, n) >= 1
  <2>1. ~Begins(path, GuestsWords) => path # <<"login">>
    BY <1>1 DEF Begins, GuestsWords
  <2>. QED  BY <1>2, <2>1 DEF Far
<1>6. s = "in" /\ Begins(path, Doors) => Far(path, s, n) >= 1 + Dash(n)
  BY <1>1, <1>2 DEF Far, Begins, Doors, GuestsWords
<1>7. s = "in" /\ n # "ready" /\ Begins(path, InnerWords) => Far(path, s, n) >= 2
  BY <1>1, <1>2 DEF Far, Begins, InnerWords, AdminsWords, GuestsWords
<1>8. Asks(path) => Far(path, s, n) >= 2
  BY <1>1, <1>2 DEF Far, Asks, Begins, AskWords, AdminsWords, GuestsWords, OfSettings, UserTails
<1>. QED  BY <1>3, <1>4, <1>5, <1>6, <1>7, <1>8

LEMMA AskedIsShort ==
    ASSUME NEW path, Asks(path)
    PROVE  Short(path)
BY DEF Asks, Short, Begins, AskWords, ShortWords, AdminsWords

(* What happens meanwhile moves no address further away.                       *)
LEMMA GuestsAreNearer ==
    ASSUME NEW path, NEW s, NEW n
    PROVE  Far(path, "guest", n) <= Far(path, s, n)
<1>1. Dash(n) \in 1..2
  BY DEF Dash
<1>. QED  BY <1>1 DEF Far

LEMMA LeftIsFew ==
    ASSUME NEW path, NEW s, NEW n, NEW i
    PROVE  /\ Left(path, s, n, i) \in 0..4
           /\ Left(path, "guest", n, NoAddress) <= Left(path, s, n, i)
           /\ (s = "in" /\ i # NoAddress => Short(i)) => Left(path, s, n, i) <= 3
           /\ Far(path, s, n) >= 1 => Left(path, s, n, i) >= 1
           /\ path # <<"email", "verify">> \/ i = NoAddress \/ s # "in" => Left(path, s, n, i) = Far(path, s, n)
<1>1. /\ Far(path, s, n) \in 0..3 /\ Far(i, s, n) \in 0..3 /\ Far(path, "guest", n) \in 0..3
      /\ Far(path, "guest", n) <= Far(path, s, n)
      /\ Short(i) => Far(i, s, n) <= 2
  BY Distances, GuestsAreNearer
<1>2. ASSUME path = <<"email", "verify">>, s = "in", i # NoAddress
      PROVE  Left(path, s, n, i) = 1 + Far(i, s, n)
  BY <1>2 DEF Left
<1>3. ~(path = <<"email", "verify">> /\ s = "in" /\ i # NoAddress) => Left(path, s, n, i) = Far(path, s, n)
  BY DEF Left
<1>4. Left(path, "guest", n, NoAddress) = Far(path, "guest", n)
  BY DEF Left
<1>5. Far(<<"email", "verify">>, "guest", n) = 1
  BY FarOf
<1>. QED  BY <1>1, <1>2, <1>3, <1>4, <1>5

-------------------------------------------------------------------------------
(* What is known of every route: which addresses its gates stand before, and   *)
(* where the routes that send a visit on are.                                  *)
VisitsOfData ==
    {"devices.export", "configurations.download", "configurations.diff", "devices.collection-runs.index",
     "collection-runs.events", "collection-runs.stream", "collection-runs.trace.download",
     "updates.operations.show", "tls.status", "two-factor.qr-code", "two-factor.secret-key",
     "two-factor.recovery-codes", "password.confirmation", "passkey.login-options", "passkey.confirm-options",
     "passkey.registration-options", "internal.caddy.ask", "internal.oxidized.nodes",
     "internal.oxidized.sandbox-nodes", "verification.verify", "well-known.passkeys", "storage.local"}

NearPages == PagesForUsers \cup {"home", "password.confirm", "setup.show", "tls.activation", "restore.index"}

VisitsOfPages == PagesForUsers \cup PagesForGuests \cup {"settings"}

SendsOn == {"setup.show", "tls.activation", "two-factor.login", "verification.notice", "settings"}

Gated(route) ==
    /\ "guest" \in route.gates => Begins(route.path, Doors)
    /\ "setup" \in route.gates => "auth" \in route.gates /\ Begins(route.path, InnerWords)
    /\ route.gates \cap {"confirm", "recent"} # {} => "auth" \in route.gates /\ Asks(route.path)

Sited(route) ==
    /\ route.methods \in Writes \/ route.name \in VisitsOfPages \cup VisitsOfData
    /\ route.name \in NearPages => Short(route.path)
    /\ route.name = "setup.show" => route.path = <<"setup">>
    /\ route.name = "tls.activation" => route.path = <<"tls-activation">>
    /\ route.name = "two-factor.login" => route.path = <<"two-factor-challenge">> /\ "guest" \in route.gates
    /\ route.name = "verification.notice" => route.path = <<"email", "verify">> /\ "auth" \in route.gates
    /\ route.name = "settings" => route.path = <<"settings">>

Steady(route) == Gated(route) /\ Sited(route)

LEMMA BeginsWith ==
    ASSUME NEW words, NEW a \in words, NEW b, NEW c, NEW d, NEW e
    PROVE  /\ Begins(<<a>>, words) /\ Begins(<<a, b>>, words) /\ Begins(<<a, b, c>>, words)
           /\ Begins(<<a, b, c, d>>, words) /\ Begins(<<a, b, c, d, e>>, words)
BY DEF Begins

LEMMA AskingPaths ==
    /\ \A path : Begins(path, AskWords) => Asks(path)
    /\ \A b : Asks(<<"settings", b>>)
    /\ \A b \in UserTails : Asks(<<"user", b>>)
    /\ \A b \in UserTails : \A c : Asks(<<"user", b, c>>)
BY DEF Asks, OfSettings

LEMMA ShortPaths ==
    /\ Short(<<>>)
    /\ \A path : Begins(path, ShortWords) => Short(path)
    /\ \A b : Short(<<"settings", b>>)
BY DEF Short, OfSettings

LEMMA GatedFreely ==
    ASSUME NEW name, NEW handler, NEW methods, NEW path,
           NEW gates \in {{}, {"token"}, {"reporter"}, Auth, {"auth", "owner"}}
    PROVE  Gated(Served(name, handler, methods, path, gates))
BY DEF Gated, Served, Auth

LEMMA GatedForGuests ==
    ASSUME NEW name, NEW handler, NEW methods, NEW path, Begins(path, Doors)
    PROVE  Gated(Served(name, handler, methods, path, Guest))
BY DEF Gated, Served, Guest

LEMMA GatedInside ==
    ASSUME NEW name, NEW handler, NEW methods, NEW path, Begins(path, InnerWords),
           NEW gates \in {Member, Staff, Admins, Owner}
    PROVE  Gated(Served(name, handler, methods, path, gates))
BY DEF Gated, Served, Member, Staff, Admins, Owner

LEMMA GatedCarefully ==
    ASSUME NEW name, NEW handler, NEW methods, NEW path, Begins(path, InnerWords), Asks(path),
           NEW gates \in {Confirmed(Member), Confirmed(Admins), Confirmed(Owner), Recent(Admins)}
    PROVE  Gated(Served(name, handler, methods, path, gates))
BY DEF Gated, Served, Member, Admins, Owner, Confirmed, Recent

LEMMA GatedForOneself ==
    ASSUME NEW name, NEW handler, NEW methods, NEW path, Asks(path)
    PROVE  Gated(Served(name, handler, methods, path, Confirmed(Auth)))
BY DEF Gated, Served, Auth, Confirmed

LEMMA SitedToWrite ==
    ASSUME NEW name, NEW handler, NEW methods \in Writes, NEW path, NEW gates,
           name \notin VisitsOfPages
    PROVE  Sited(Served(name, handler, methods, path, gates))
BY DEF Sited, Served, VisitsOfPages, NearPages, PagesForGuests

LEMMA SitedNear ==
    ASSUME NEW name, NEW handler, NEW methods, NEW path, NEW gates,
           name \in VisitsOfPages \cup VisitsOfData, name \notin SendsOn, Short(path)
    PROVE  Sited(Served(name, handler, methods, path, gates))
BY DEF Sited, Served, SendsOn

LEMMA SitedAnywhere ==
    ASSUME NEW name, NEW handler, NEW methods, NEW path, NEW gates,
           name \in VisitsOfPages \cup VisitsOfData, name \notin SendsOn, name \notin NearPages
    PROVE  Sited(Served(name, handler, methods, path, gates))
BY DEF Sited, Served, SendsOn

(* Every route of every table.                                                 *)
LEMMA PublicRoutes_Steady == \A route \in ElementsOf(PublicRoutes) : Steady(route)
<1>. USE DEF PublicRoutes
<1>1. DOMAIN PublicRoutes = 1..11
  OBVIOUS
<1>2. /\ Gated(PublicRoutes[1]) /\ Gated(PublicRoutes[2]) /\ Gated(PublicRoutes[3])
      /\ Gated(PublicRoutes[4]) /\ Gated(PublicRoutes[5])
  BY GatedFreely DEF Auth
<1>3. /\ Gated(PublicRoutes[6]) /\ Gated(PublicRoutes[7]) /\ Gated(PublicRoutes[8])
      /\ Gated(PublicRoutes[9]) /\ Gated(PublicRoutes[10])
  BY GatedFreely DEF Auth
<1>4. Gated(PublicRoutes[11])
  BY GatedFreely DEF Auth
<1>5. /\ Sited(PublicRoutes[2]) /\ Sited(PublicRoutes[4]) /\ Sited(PublicRoutes[10])
      /\ Sited(PublicRoutes[11])
  BY SitedToWrite DEF Writes, VisitsOfPages, PagesForUsers, PagesForGuests
<1>6. Sited(PublicRoutes[1]) /\ Sited(PublicRoutes[3])
  BY SitedNear, ShortPaths, BeginsWith
     DEF ShortWords, AdminsWords, SendsOn, VisitsOfPages, PagesForUsers, PagesForGuests
<1>7. /\ Sited(PublicRoutes[6]) /\ Sited(PublicRoutes[7]) /\ Sited(PublicRoutes[8])
      /\ Sited(PublicRoutes[9])
  BY SitedAnywhere
     DEF SendsOn, NearPages, VisitsOfPages, VisitsOfData, PagesForUsers, PagesForGuests
<1>8. Sited(PublicRoutes[5])
  BY ShortPaths, BeginsWith
     DEF Sited, Served, ShortWords, NearPages, VisitsOfPages, PagesForUsers, PagesForGuests, Auth, Guest
<1>. HIDE DEF PublicRoutes
<1>9. \A i \in 1..11 : Gated(PublicRoutes[i]) /\ Sited(PublicRoutes[i])
  BY <1>2, <1>3, <1>4, <1>5, <1>6, <1>7, <1>8
<1>. QED  BY <1>1, <1>9 DEF ElementsOf, Steady

LEMMA SetupRoutes_Steady == \A route \in ElementsOf(SetupRoutes) : Steady(route)
<1>. USE DEF SetupRoutes
<1>1. DOMAIN SetupRoutes = 1..2
  OBVIOUS
<1>2. Gated(SetupRoutes[1]) /\ Gated(SetupRoutes[2])
  BY GatedFreely DEF Auth
<1>3. Sited(SetupRoutes[2])
  BY SitedToWrite DEF Writes, VisitsOfPages, PagesForUsers, PagesForGuests
<1>4. Sited(SetupRoutes[1])
  BY ShortPaths, BeginsWith
     DEF Sited, Served, ShortWords, NearPages, VisitsOfPages, PagesForUsers, PagesForGuests, Auth, Guest
<1>. HIDE DEF SetupRoutes
<1>5. \A i \in 1..2 : Gated(SetupRoutes[i]) /\ Sited(SetupRoutes[i])
  BY <1>2, <1>3, <1>4
<1>. QED  BY <1>1, <1>5 DEF ElementsOf, Steady

LEMMA DeviceRoutes_Steady == \A route \in ElementsOf(DeviceRoutes) : Steady(route)
<1>. USE DEF DeviceRoutes
<1>1. DOMAIN DeviceRoutes = 1..13
  OBVIOUS
<1>2. /\ Gated(DeviceRoutes[1]) /\ Gated(DeviceRoutes[2]) /\ Gated(DeviceRoutes[3])
      /\ Gated(DeviceRoutes[4]) /\ Gated(DeviceRoutes[9])
  BY GatedInside, BeginsWith DEF InnerWords, AdminsWords
<1>3. /\ Gated(DeviceRoutes[10]) /\ Gated(DeviceRoutes[11]) /\ Gated(DeviceRoutes[12])
      /\ Gated(DeviceRoutes[13])
  BY GatedInside, BeginsWith DEF InnerWords, AdminsWords
<1>4. /\ Gated(DeviceRoutes[5]) /\ Gated(DeviceRoutes[6]) /\ Gated(DeviceRoutes[7])
      /\ Gated(DeviceRoutes[8])
  BY GatedCarefully, BeginsWith, AskingPaths DEF InnerWords, AskWords, AdminsWords
<1>5. /\ Sited(DeviceRoutes[3]) /\ Sited(DeviceRoutes[4]) /\ Sited(DeviceRoutes[5])
      /\ Sited(DeviceRoutes[6]) /\ Sited(DeviceRoutes[7])
  BY SitedToWrite DEF Writes, VisitsOfPages, PagesForUsers, PagesForGuests
<1>6. /\ Sited(DeviceRoutes[8]) /\ Sited(DeviceRoutes[10]) /\ Sited(DeviceRoutes[12])
      /\ Sited(DeviceRoutes[13])
  BY SitedToWrite DEF Writes, VisitsOfPages, PagesForUsers, PagesForGuests
<1>7. Sited(DeviceRoutes[1]) /\ Sited(DeviceRoutes[9]) /\ Sited(DeviceRoutes[11])
  BY SitedNear, ShortPaths, BeginsWith
     DEF ShortWords, AdminsWords, SendsOn, VisitsOfPages, PagesForUsers, PagesForGuests
<1>8. Sited(DeviceRoutes[2])
  BY SitedAnywhere
     DEF SendsOn, NearPages, VisitsOfPages, VisitsOfData, PagesForUsers, PagesForGuests
<1>. HIDE DEF DeviceRoutes
<1>9. \A i \in 1..13 : Gated(DeviceRoutes[i]) /\ Sited(DeviceRoutes[i])
  BY <1>2, <1>3, <1>4, <1>5, <1>6, <1>7, <1>8
<1>. QED  BY <1>1, <1>9 DEF ElementsOf, Steady

LEMMA ConfigurationRoutes_Steady == \A route \in ElementsOf(ConfigurationRoutes) : Steady(route)
<1>. USE DEF ConfigurationRoutes
<1>1. DOMAIN ConfigurationRoutes = 1..8
  OBVIOUS
<1>2. /\ Gated(ConfigurationRoutes[1]) /\ Gated(ConfigurationRoutes[2]) /\ Gated(ConfigurationRoutes[3])
      /\ Gated(ConfigurationRoutes[4]) /\ Gated(ConfigurationRoutes[5])
  BY GatedInside, BeginsWith DEF InnerWords, AdminsWords
<1>3. Gated(ConfigurationRoutes[6])
  BY GatedInside, BeginsWith DEF InnerWords, AdminsWords
<1>4. Gated(ConfigurationRoutes[7]) /\ Gated(ConfigurationRoutes[8])
  BY GatedCarefully, BeginsWith, AskingPaths DEF InnerWords, AskWords, AdminsWords
<1>5. Sited(ConfigurationRoutes[1]) /\ Sited(ConfigurationRoutes[7])
  BY SitedNear, ShortPaths, BeginsWith
     DEF ShortWords, AdminsWords, SendsOn, VisitsOfPages, PagesForUsers, PagesForGuests
<1>6. /\ Sited(ConfigurationRoutes[2]) /\ Sited(ConfigurationRoutes[3]) /\ Sited(ConfigurationRoutes[4])
      /\ Sited(ConfigurationRoutes[5]) /\ Sited(ConfigurationRoutes[6])
  BY SitedAnywhere
     DEF SendsOn, NearPages, VisitsOfPages, VisitsOfData, PagesForUsers, PagesForGuests
<1>7. Sited(ConfigurationRoutes[8])
  BY SitedAnywhere
     DEF SendsOn, NearPages, VisitsOfPages, VisitsOfData, PagesForUsers, PagesForGuests
<1>. HIDE DEF ConfigurationRoutes
<1>8. \A i \in 1..8 : Gated(ConfigurationRoutes[i]) /\ Sited(ConfigurationRoutes[i])
  BY <1>2, <1>3, <1>4, <1>5, <1>6, <1>7
<1>. QED  BY <1>1, <1>8 DEF ElementsOf, Steady

LEMMA CatalogRoutes_Steady == \A route \in ElementsOf(CatalogRoutes) : Steady(route)
<1>. USE DEF CatalogRoutes
<1>1. DOMAIN CatalogRoutes = 1..13
  OBVIOUS
<1>2. /\ Gated(CatalogRoutes[1]) /\ Gated(CatalogRoutes[2]) /\ Gated(CatalogRoutes[3])
      /\ Gated(CatalogRoutes[4]) /\ Gated(CatalogRoutes[5])
  BY GatedInside, BeginsWith DEF InnerWords, AdminsWords
<1>3. /\ Gated(CatalogRoutes[6]) /\ Gated(CatalogRoutes[7]) /\ Gated(CatalogRoutes[8])
      /\ Gated(CatalogRoutes[9]) /\ Gated(CatalogRoutes[10])
  BY GatedInside, BeginsWith DEF InnerWords, AdminsWords
<1>4. Gated(CatalogRoutes[11])
  BY GatedInside, BeginsWith DEF InnerWords, AdminsWords
<1>5. Gated(CatalogRoutes[12]) /\ Gated(CatalogRoutes[13])
  BY GatedCarefully, BeginsWith, AskingPaths DEF InnerWords, AskWords, AdminsWords
<1>6. /\ Sited(CatalogRoutes[2]) /\ Sited(CatalogRoutes[3]) /\ Sited(CatalogRoutes[4])
      /\ Sited(CatalogRoutes[6]) /\ Sited(CatalogRoutes[7])
  BY SitedToWrite DEF Writes, VisitsOfPages, PagesForUsers, PagesForGuests
<1>7. /\ Sited(CatalogRoutes[9]) /\ Sited(CatalogRoutes[10]) /\ Sited(CatalogRoutes[11])
      /\ Sited(CatalogRoutes[12]) /\ Sited(CatalogRoutes[13])
  BY SitedToWrite DEF Writes, VisitsOfPages, PagesForUsers, PagesForGuests
<1>8. Sited(CatalogRoutes[1]) /\ Sited(CatalogRoutes[5]) /\ Sited(CatalogRoutes[8])
  BY SitedNear, ShortPaths, BeginsWith
     DEF ShortWords, AdminsWords, SendsOn, VisitsOfPages, PagesForUsers, PagesForGuests
<1>. HIDE DEF CatalogRoutes
<1>9. \A i \in 1..13 : Gated(CatalogRoutes[i]) /\ Sited(CatalogRoutes[i])
  BY <1>2, <1>3, <1>4, <1>5, <1>6, <1>7, <1>8
<1>. QED  BY <1>1, <1>9 DEF ElementsOf, Steady

LEMMA IntegrationRoutes_Steady == \A route \in ElementsOf(IntegrationRoutes) : Steady(route)
<1>. USE DEF IntegrationRoutes
<1>1. DOMAIN IntegrationRoutes = 1..12
  OBVIOUS
<1>2. /\ Gated(IntegrationRoutes[1]) /\ Gated(IntegrationRoutes[2]) /\ Gated(IntegrationRoutes[3])
      /\ Gated(IntegrationRoutes[4]) /\ Gated(IntegrationRoutes[5])
  BY GatedInside, BeginsWith DEF InnerWords, AdminsWords
<1>3. Gated(IntegrationRoutes[6]) /\ Gated(IntegrationRoutes[7]) /\ Gated(IntegrationRoutes[8])
  BY GatedInside, BeginsWith DEF InnerWords, AdminsWords
<1>4. /\ Gated(IntegrationRoutes[9]) /\ Gated(IntegrationRoutes[10]) /\ Gated(IntegrationRoutes[11])
      /\ Gated(IntegrationRoutes[12])
  BY GatedCarefully, BeginsWith, AskingPaths DEF InnerWords, AskWords, AdminsWords
<1>5. /\ Sited(IntegrationRoutes[2]) /\ Sited(IntegrationRoutes[3]) /\ Sited(IntegrationRoutes[5])
      /\ Sited(IntegrationRoutes[6]) /\ Sited(IntegrationRoutes[7])
  BY SitedToWrite DEF Writes, VisitsOfPages, PagesForUsers, PagesForGuests
<1>6. /\ Sited(IntegrationRoutes[9]) /\ Sited(IntegrationRoutes[10]) /\ Sited(IntegrationRoutes[11])
      /\ Sited(IntegrationRoutes[12])
  BY SitedToWrite DEF Writes, VisitsOfPages, PagesForUsers, PagesForGuests
<1>7. Sited(IntegrationRoutes[1]) /\ Sited(IntegrationRoutes[4]) /\ Sited(IntegrationRoutes[8])
  BY SitedNear, ShortPaths, BeginsWith
     DEF ShortWords, AdminsWords, SendsOn, VisitsOfPages, PagesForUsers, PagesForGuests
<1>. HIDE DEF IntegrationRoutes
<1>8. \A i \in 1..12 : Gated(IntegrationRoutes[i]) /\ Sited(IntegrationRoutes[i])
  BY <1>2, <1>3, <1>4, <1>5, <1>6, <1>7
<1>. QED  BY <1>1, <1>8 DEF ElementsOf, Steady

LEMMA AdministrationRoutes_Steady == \A route \in ElementsOf(AdministrationRoutes) : Steady(route)
<1>. USE DEF AdministrationRoutes
<1>1. DOMAIN AdministrationRoutes = 1..15
  OBVIOUS
<1>2. /\ Gated(AdministrationRoutes[1]) /\ Gated(AdministrationRoutes[2]) /\ Gated(AdministrationRoutes[5])
      /\ Gated(AdministrationRoutes[6]) /\ Gated(AdministrationRoutes[7])
  BY GatedInside, BeginsWith DEF InnerWords, AdminsWords
<1>3. /\ Gated(AdministrationRoutes[9]) /\ Gated(AdministrationRoutes[10]) /\ Gated(AdministrationRoutes[11])
      /\ Gated(AdministrationRoutes[12]) /\ Gated(AdministrationRoutes[13])
  BY GatedInside, BeginsWith DEF InnerWords, AdminsWords
<1>4. /\ Gated(AdministrationRoutes[3]) /\ Gated(AdministrationRoutes[4]) /\ Gated(AdministrationRoutes[8])
      /\ Gated(AdministrationRoutes[14]) /\ Gated(AdministrationRoutes[15])
  BY GatedCarefully, BeginsWith, AskingPaths DEF InnerWords, AskWords, AdminsWords
<1>5. /\ Sited(AdministrationRoutes[2]) /\ Sited(AdministrationRoutes[3]) /\ Sited(AdministrationRoutes[4])
      /\ Sited(AdministrationRoutes[7]) /\ Sited(AdministrationRoutes[8])
  BY SitedToWrite DEF Writes, VisitsOfPages, PagesForUsers, PagesForGuests
<1>6. /\ Sited(AdministrationRoutes[9]) /\ Sited(AdministrationRoutes[10]) /\ Sited(AdministrationRoutes[12])
      /\ Sited(AdministrationRoutes[14]) /\ Sited(AdministrationRoutes[15])
  BY SitedToWrite DEF Writes, VisitsOfPages, PagesForUsers, PagesForGuests
<1>7. /\ Sited(AdministrationRoutes[1]) /\ Sited(AdministrationRoutes[5]) /\ Sited(AdministrationRoutes[6])
      /\ Sited(AdministrationRoutes[13])
  BY SitedNear, ShortPaths, BeginsWith
     DEF ShortWords, AdminsWords, SendsOn, VisitsOfPages, PagesForUsers, PagesForGuests
<1>8. Sited(AdministrationRoutes[11])
  BY SitedAnywhere
     DEF SendsOn, NearPages, VisitsOfPages, VisitsOfData, PagesForUsers, PagesForGuests
<1>. HIDE DEF AdministrationRoutes
<1>9. \A i \in 1..15 : Gated(AdministrationRoutes[i]) /\ Sited(AdministrationRoutes[i])
  BY <1>2, <1>3, <1>4, <1>5, <1>6, <1>7, <1>8
<1>. QED  BY <1>1, <1>9 DEF ElementsOf, Steady

LEMMA SettingsRoutes_Steady == \A route \in ElementsOf(SettingsRoutes) : Steady(route)
<1>. USE DEF SettingsRoutes
<1>1. DOMAIN SettingsRoutes = 1..7
  OBVIOUS
<1>2. Gated(SettingsRoutes[7])
  BY GatedFreely DEF Auth
<1>3. /\ Gated(SettingsRoutes[1]) /\ Gated(SettingsRoutes[2]) /\ Gated(SettingsRoutes[3])
      /\ Gated(SettingsRoutes[5]) /\ Gated(SettingsRoutes[6])
  BY GatedInside, BeginsWith DEF InnerWords, AdminsWords
<1>4. Gated(SettingsRoutes[4])
  BY GatedCarefully, BeginsWith, AskingPaths DEF InnerWords, AskWords, AdminsWords
<1>5. Sited(SettingsRoutes[3]) /\ Sited(SettingsRoutes[5])
  BY SitedToWrite DEF Writes, VisitsOfPages, PagesForUsers, PagesForGuests
<1>6. Sited(SettingsRoutes[2]) /\ Sited(SettingsRoutes[4]) /\ Sited(SettingsRoutes[6])
  BY SitedNear, ShortPaths, BeginsWith
     DEF ShortWords, AdminsWords, SendsOn, VisitsOfPages, PagesForUsers, PagesForGuests
<1>7. Sited(SettingsRoutes[7])
  BY SitedAnywhere
     DEF SendsOn, NearPages, VisitsOfPages, VisitsOfData, PagesForUsers, PagesForGuests
<1>8. Sited(SettingsRoutes[1])
  BY ShortPaths, BeginsWith
     DEF Sited, Served, ShortWords, NearPages, VisitsOfPages, PagesForUsers, PagesForGuests, Auth, Guest
<1>. HIDE DEF SettingsRoutes
<1>9. \A i \in 1..7 : Gated(SettingsRoutes[i]) /\ Sited(SettingsRoutes[i])
  BY <1>2, <1>3, <1>4, <1>5, <1>6, <1>7, <1>8
<1>. QED  BY <1>1, <1>9 DEF ElementsOf, Steady

LEMMA FortifyRoutes_Steady == \A route \in ElementsOf(FortifyRoutes) : Steady(route)
<1>. USE DEF FortifyRoutes
<1>1. DOMAIN FortifyRoutes = 1..24
  OBVIOUS
<1>2. /\ Gated(FortifyRoutes[3]) /\ Gated(FortifyRoutes[10]) /\ Gated(FortifyRoutes[11])
      /\ Gated(FortifyRoutes[12]) /\ Gated(FortifyRoutes[13])
  BY GatedFreely DEF Auth
<1>3. Gated(FortifyRoutes[14]) /\ Gated(FortifyRoutes[15])
  BY GatedFreely DEF Auth
<1>4. /\ Gated(FortifyRoutes[1]) /\ Gated(FortifyRoutes[2]) /\ Gated(FortifyRoutes[4])
      /\ Gated(FortifyRoutes[5]) /\ Gated(FortifyRoutes[6])
  BY GatedForGuests, BeginsWith DEF Doors, GuestsWords
<1>5. /\ Gated(FortifyRoutes[7]) /\ Gated(FortifyRoutes[8]) /\ Gated(FortifyRoutes[9])
      /\ Gated(FortifyRoutes[16]) /\ Gated(FortifyRoutes[17])
  BY GatedForGuests, BeginsWith DEF Doors, GuestsWords
<1>6. /\ Gated(FortifyRoutes[18]) /\ Gated(FortifyRoutes[19]) /\ Gated(FortifyRoutes[20])
      /\ Gated(FortifyRoutes[21]) /\ Gated(FortifyRoutes[22])
  BY GatedForOneself, AskingPaths DEF UserTails
<1>7. Gated(FortifyRoutes[23]) /\ Gated(FortifyRoutes[24])
  BY GatedForOneself, AskingPaths DEF UserTails
<1>8. /\ Sited(FortifyRoutes[2]) /\ Sited(FortifyRoutes[3]) /\ Sited(FortifyRoutes[6])
      /\ Sited(FortifyRoutes[7]) /\ Sited(FortifyRoutes[9])
  BY SitedToWrite DEF Writes, VisitsOfPages, PagesForUsers, PagesForGuests
<1>9. /\ Sited(FortifyRoutes[12]) /\ Sited(FortifyRoutes[15]) /\ Sited(FortifyRoutes[17])
      /\ Sited(FortifyRoutes[18]) /\ Sited(FortifyRoutes[19])
  BY SitedToWrite DEF Writes, VisitsOfPages, PagesForUsers, PagesForGuests
<1>10. Sited(FortifyRoutes[20]) /\ Sited(FortifyRoutes[24])
  BY SitedToWrite DEF Writes, VisitsOfPages, PagesForUsers, PagesForGuests
<1>11. Sited(FortifyRoutes[13])
  BY SitedNear, ShortPaths, BeginsWith
     DEF ShortWords, AdminsWords, SendsOn, VisitsOfPages, PagesForUsers, PagesForGuests
<1>12. /\ Sited(FortifyRoutes[1]) /\ Sited(FortifyRoutes[4]) /\ Sited(FortifyRoutes[5])
      /\ Sited(FortifyRoutes[8]) /\ Sited(FortifyRoutes[11])
  BY SitedAnywhere
     DEF SendsOn, NearPages, VisitsOfPages, VisitsOfData, PagesForUsers, PagesForGuests
<1>13. /\ Sited(FortifyRoutes[14]) /\ Sited(FortifyRoutes[21]) /\ Sited(FortifyRoutes[22])
      /\ Sited(FortifyRoutes[23])
  BY SitedAnywhere
     DEF SendsOn, NearPages, VisitsOfPages, VisitsOfData, PagesForUsers, PagesForGuests
<1>14. Sited(FortifyRoutes[10])
  BY ShortPaths, BeginsWith
     DEF Sited, Served, ShortWords, NearPages, VisitsOfPages, PagesForUsers, PagesForGuests, Auth, Guest
<1>15. Sited(FortifyRoutes[16])
  BY ShortPaths, BeginsWith
     DEF Sited, Served, ShortWords, NearPages, VisitsOfPages, PagesForUsers, PagesForGuests, Auth, Guest
<1>. HIDE DEF FortifyRoutes
<1>16. \A i \in 1..24 : Gated(FortifyRoutes[i]) /\ Sited(FortifyRoutes[i])
  BY <1>2, <1>3, <1>4, <1>5, <1>6, <1>7, <1>8, <1>9, <1>10, <1>11, <1>12, <1>13, <1>14, <1>15
<1>. QED  BY <1>1, <1>16 DEF ElementsOf, Steady

LEMMA PasskeyRoutes_Steady == \A route \in ElementsOf(PasskeyRoutes) : Steady(route)
<1>. USE DEF PasskeyRoutes
<1>1. DOMAIN PasskeyRoutes = 1..9
  OBVIOUS
<1>2. /\ Gated(PasskeyRoutes[3]) /\ Gated(PasskeyRoutes[4]) /\ Gated(PasskeyRoutes[8])
      /\ Gated(PasskeyRoutes[9])
  BY GatedFreely DEF Auth
<1>3. Gated(PasskeyRoutes[1]) /\ Gated(PasskeyRoutes[2])
  BY GatedForGuests, BeginsWith DEF Doors, GuestsWords
<1>4. Gated(PasskeyRoutes[5]) /\ Gated(PasskeyRoutes[6]) /\ Gated(PasskeyRoutes[7])
  BY GatedForOneself, AskingPaths DEF UserTails
<1>5. /\ Sited(PasskeyRoutes[2]) /\ Sited(PasskeyRoutes[4]) /\ Sited(PasskeyRoutes[6])
      /\ Sited(PasskeyRoutes[7]) /\ Sited(PasskeyRoutes[9])
  BY SitedToWrite DEF Writes, VisitsOfPages, PagesForUsers, PagesForGuests
<1>6. /\ Sited(PasskeyRoutes[1]) /\ Sited(PasskeyRoutes[3]) /\ Sited(PasskeyRoutes[5])
      /\ Sited(PasskeyRoutes[8])
  BY SitedAnywhere
     DEF SendsOn, NearPages, VisitsOfPages, VisitsOfData, PagesForUsers, PagesForGuests
<1>. HIDE DEF PasskeyRoutes
<1>7. \A i \in 1..9 : Gated(PasskeyRoutes[i]) /\ Sited(PasskeyRoutes[i])
  BY <1>2, <1>3, <1>4, <1>5, <1>6
<1>. QED  BY <1>1, <1>7 DEF ElementsOf, Steady

LEMMA RoutesAreSteady == \A route \in ElementsOf(Routes) : Steady(route)
BY TablesOfRoutes, PublicRoutes_Steady, SetupRoutes_Steady, DeviceRoutes_Steady, ConfigurationRoutes_Steady,
   CatalogRoutes_Steady, IntegrationRoutes_Steady, AdministrationRoutes_Steady, SettingsRoutes_Steady,
   FortifyRoutes_Steady, PasskeyRoutes_Steady

-------------------------------------------------------------------------------
(* What is known of a request that finds a route, by its own path.             *)
LEMMA AddressIsPath ==
    ASSUME NEW path \in Addresses
    PROVE  IsPath(path)
<1>1. ASSUME NEW o \in AllOffers  PROVE IsPath(o.path)
  BY AllOffersAreRequests DEF OnlyOffers, IsOffer, Segments
<1>2. ASSUME path \in Bookmarks  PROVE IsPath(path)
  <2>1. path \in Seq(STRING)
    BY <1>2, SessionAssumption
  <2>. QED  BY <2>1 DEF IsPath
<1>3. /\ IsPath(<<>>) /\ IsPath(<<"tls-activation">>) /\ IsPath(<<"two-factor-challenge">>)
      /\ IsPath(<<"user", "confirm-password">>)
  BY Tuples
<1>. QED  BY <1>1, <1>2, <1>3 DEF Addresses

LEMMA SitesAreLiteral ==
    (Doors \cup InnerWords \cup AskWords \cup ShortWords \cup UserTails \cup {"settings", "user"})
        \cap ServerParameters = {}
BY DEF Doors, GuestsWords, InnerWords, AskWords, ShortWords, AdminsWords, UserTails,
       ServerParameters, Parameters

LEMMA MatchedSite ==
    ASSUME NEW route, NEW path, IsPath(path), MatchesPath(route, path)
    PROVE  /\ Begins(route.path, Doors) => Begins(path, Doors)
           /\ Begins(route.path, InnerWords) => Begins(path, InnerWords)
           /\ Asks(route.path) => Asks(path)
           /\ Short(route.path) => Short(path)
<1>. DEFINE Words == Doors \cup InnerWords \cup AskWords \cup ShortWords \cup UserTails
                     \cup {"settings", "user"}
            pattern == route.path
<1>1. Len(path) \in Nat /\ DOMAIN path = 1..Len(path) /\ Len(pattern) = Len(path)
  BY DEF IsPath, MatchesPath
<1>2. \A i \in DOMAIN path : pattern[i] \in Words => path[i] = pattern[i]
  BY SitesAreLiteral DEF MatchesPath, Fits
<1>3. (Len(path) >= 1 => 1 \in DOMAIN path) /\ (Len(path) \in {2, 3} => 2 \in DOMAIN path)
  BY <1>1
<1>4. /\ Doors \subseteq Words /\ InnerWords \subseteq Words /\ AskWords \subseteq Words
      /\ ShortWords \subseteq Words /\ UserTails \subseteq Words /\ {"settings", "user"} \subseteq Words
  OBVIOUS
<1>5. pattern = <<>> => path = <<>>
  BY <1>1 DEF IsPath
<1>. HIDE DEF Words, pattern
<1>6. \A words : words \subseteq Words /\ Begins(pattern, words) => Begins(path, words)
  BY <1>1, <1>2, <1>3 DEF Begins
<1>7. OfSettings(pattern) => OfSettings(path)
  BY <1>1, <1>2, <1>3, <1>4 DEF OfSettings
<1>8. Len(pattern) \in {2, 3} /\ pattern[1] = "user" /\ pattern[2] \in UserTails
        => Len(path) \in {2, 3} /\ path[1] = "user" /\ path[2] \in UserTails
  BY <1>1, <1>2, <1>3, <1>4
<1>9. Asks(pattern) => Asks(path)
  BY <1>4, <1>6, <1>7, <1>8 DEF Asks
<1>10. Short(pattern) => Short(path)
  BY <1>4, <1>5, <1>6, <1>7 DEF Short
<1>. QED  BY <1>4, <1>6, <1>9, <1>10 DEF pattern

LEMMA TwoSegments ==
    ASSUME NEW route, NEW word, NEW next, route.path = <<word, next>>,
           {word, next} \cap ServerParameters = {},
           NEW path, IsPath(path), MatchesPath(route, path)
    PROVE  path = <<word, next>>
<1>1. Len(path) = 2
  BY DEF MatchesPath
<1>. DEFINE s == [i \in 1..2 |-> path[i]]
<1>2. path = s /\ DOMAIN path = 1..2
  BY <1>1 DEF IsPath
<1>3. s = <<path[1], path[2]>>
  OBVIOUS
<1>4. route.path[1] = word /\ route.path[2] = next
  OBVIOUS
<1>5. path[1] = word /\ path[2] = next
  BY <1>2, <1>4 DEF MatchesPath, Fits
<1>. HIDE DEF s
<1>. QED  BY <1>2, <1>3, <1>5

Arrives(route, path) ==
    /\ "guest" \in route.gates => Begins(path, Doors)
    /\ "auth" \in route.gates => ~Begins(path, GuestsWords)
    /\ "setup" \in route.gates => "auth" \in route.gates /\ Begins(path, InnerWords)
    /\ route.gates \cap {"confirm", "recent"} # {} => "auth" \in route.gates /\ Asks(path)
    /\ route.name \in NearPages => Short(path)
    /\ route.name = "setup.show" => path = <<"setup">> /\ "auth" \in route.gates
    /\ route.name = "tls.activation" => path = <<"tls-activation">>
    /\ route.name = "two-factor.login" => path = <<"two-factor-challenge">> /\ "guest" \in route.gates
    /\ route.name = "verification.notice" => path = <<"email", "verify">> /\ "auth" \in route.gates
    /\ route.name = "settings" => path = <<"settings">>

LEMMA FoundArrives ==
    ASSUME SessionInv, request # None, RouteOf(request).name \notin {"404", "405"}
    PROVE  /\ Arrives(RouteOf(request), request.path)
           /\ request.why # "offer" => RouteOf(request).name \in VisitsOfPages \cup VisitsOfData
<1>. DEFINE route == RouteOf(request)
            path  == request.path
            verb  == EffectiveMethod(request.method, request.query)
<1>1. PICK i \in DOMAIN Routes : route = Routes[i] /\ Serves(Routes[i], verb, path)
  BY RouteOfRequest, ResolveReaches, ResolveMisses, MissedIsMissing DEF SessionInv
<1>2. Steady(route) /\ Known(route)
  BY <1>1, RoutesAreSteady, RoutesAreKnown DEF ElementsOf
<1>3. IsPath(path) /\ MatchesPath(route, path)
  BY <1>1, AddressIsPath DEF Serves, SessionInv, Requested, IsRequest
<1>4. request.why # "offer" => verb = "get"
  BY GetIsGet DEF SessionInv, Requested, IsRequest
<1>5. verb \in ToSet(route.methods)
  BY <1>1 DEF Serves
<1>. HIDE DEF route, path, verb
<1>6. "auth" \in route.gates => ~Begins(path, GuestsWords)
  <2>1. "auth" \in route.gates => ForUsers(path)
    BY <1>2, <1>3, MatchedPath DEF Known, Judged
  <2>2. GuestsWords \cap UsersWords = {}
    BY DEF GuestsWords, UsersWords, OwnersWords, AdminsWords
  <2>. QED  BY <2>1, <2>2 DEF ForUsers, Begins
<1>7. /\ "guest" \in route.gates => Begins(path, Doors)
      /\ "setup" \in route.gates => "auth" \in route.gates /\ Begins(path, InnerWords)
      /\ route.gates \cap {"confirm", "recent"} # {} => "auth" \in route.gates /\ Asks(path)
      /\ route.name \in NearPages => Short(path)
  BY <1>2, <1>3, MatchedSite DEF Steady, Gated, Sited
<1>8. {"setup", "tls-activation", "two-factor-challenge", "email", "verify", "settings"}
        \cap ServerParameters = {}
  BY DEF ServerParameters, Parameters
<1>9. /\ route.name = "setup.show" => path = <<"setup">>
      /\ route.name = "tls.activation" => path = <<"tls-activation">>
      /\ route.name = "two-factor.login" => path = <<"two-factor-challenge">>
      /\ route.name = "settings" => path = <<"settings">>
  BY <1>2, <1>3, <1>8, OneSegment DEF Steady, Sited
<1>10. route.name = "verification.notice" => path = <<"email", "verify">>
  BY <1>2, <1>3, <1>8, TwoSegments DEF Steady, Sited
<1>11. /\ route.name = "setup.show" => "auth" \in route.gates
       /\ route.name = "two-factor.login" => "guest" \in route.gates
       /\ route.name = "verification.notice" => "auth" \in route.gates
  BY <1>2 DEF Steady, Sited, Known, Called
<1>12. request.why # "offer" => route.name \in VisitsOfPages \cup VisitsOfData
  BY <1>2, <1>4, <1>5, WritesDoNotGet DEF Steady, Sited
<1>13. Arrives(route, path)
  BY <1>6, <1>7, <1>9, <1>10, <1>11 DEF Arrives
<1>. QED  BY <1>12, <1>13 DEF route, path

-------------------------------------------------------------------------------
(* The invariant: the redirects a visit has taken and may still take are at    *)
(* most four; the address to return to is near; and so is the address of every *)
(* page but the ones around the login.                                         *)
AuthPages == {"auth/login", "auth/register", "auth/forgot-password", "auth/reset-password",
              "auth/two-factor-challenge", "auth/verify-email"}

Nearing ==
    request # None =>
        /\ request.hops \in Nat
        /\ request.why = "offer" => request.hops = 0
        /\ request.why # "offer" =>
              /\ request.by = "visit"
              /\ request.hops + Left(request.path, session, installed, intended) <= 4

ReturnsNear == session = "in" /\ intended # NoAddress => Short(intended)

PagesNear == Short(page.path) \/ page.component \in AuthPages

VisitsInv == Nearing /\ ReturnsNear /\ PagesNear

(* The pages around the login offer nothing that asks for the password.        *)
LEMMA UnaskedPaths ==
    /\ ~Asks(<<>>)
    /\ \A a : a \notin AskWords => ~Asks(<<a>>)
    /\ \A b : ~Asks(<<"email", b>>)
<1>1. \A a : a \notin AskWords => ~Asks(<<a>>)
  BY DEF Asks, Begins, OfSettings
<1>2. \A b : ~Asks(<<"email", b>>)
  BY DEF Asks, Begins, OfSettings, AskWords, AdminsWords
<1>3. ~Asks(<<>>)
  BY DEF Asks, Begins, OfSettings
<1>. QED  BY <1>1, <1>2, <1>3

LEMMA AuthPagesDoNotAsk ==
    ASSUME NEW component \in AuthPages, NEW role, NEW claimed, NEW o \in Offers(component, role, claimed)
    PROVE  ~Asks(o.path)
<1>1. \A method, path : Visit(method, path).path = path /\ Link(path).path = path
  BY DEF Visit, Link, Request
<1>2. {"login", "register", "forgot-password", "reset-password", "two-factor-challenge", "locale", "logout"}
        \cap AskWords = {}
  BY DEF AskWords, AdminsWords
<1>3. o \in Around(component, role) \cup Login(claimed) \cup Register \cup ForgotPassword
             \cup ResetPassword \cup TwoFactorChallenge \cup VerifyEmail
  BY DEF Offers, AuthPages
<1>4. CASE o \in Around(component, role)
  <2>1. Layout(component) = "auth"
    BY DEF Layout, AuthPages
  <2>2. o = Link(<<>>) \/ o = Visit("put", <<"locale">>)
    BY <1>4, <2>1, LinksSend DEF Around, LanguageSelector
  <2>. QED  BY <1>1, <1>2, <2>2, UnaskedPaths
<1>5. CASE o \in Login(claimed) \cup Register
  <2>1. o \in {Visit("post", <<"login">>), Link(<<"forgot-password">>), Link(<<"register">>),
               Visit("post", <<"register">>)}
    BY <1>5, LinksSend, FormsPost DEF Login, Register, If
  <2>. QED  BY <1>1, <1>2, <2>1, UnaskedPaths
<1>6. CASE o \in ForgotPassword \cup ResetPassword \cup TwoFactorChallenge
  <2>1. o \in {Visit("post", <<"forgot-password">>), Link(<<"login">>),
               Visit("post", <<"reset-password">>), Visit("post", <<"two-factor-challenge">>)}
    BY <1>6, LinksSend, FormsPost DEF ForgotPassword, ResetPassword, TwoFactorChallenge
  <2>. QED  BY <1>1, <1>2, <2>1, UnaskedPaths
<1>7. CASE o \in VerifyEmail
  <2>1. o \in {Visit("post", <<"email", "verification-notification">>), Visit("post", <<"logout">>)}
    BY <1>7, LinksSend, FormsPost DEF VerifyEmail
  <2>. QED  BY <1>1, <1>2, <2>1, UnaskedPaths
<1>. QED  BY <1>3, <1>4, <1>5, <1>6, <1>7

(* A redirect that leads nearer, or one that answers what was pressed.         *)
LEMMA RedirectNears ==
    ASSUME SessionInv, VisitsInv, request # None, ReturnsNear', NEW path,
           request' = Ask("redirect", request.hops + 1, Link(path)),
           request.why # "offer" =>
               1 + Left(path, session', installed', intended')
                  <= Left(request.path, session, installed, intended)
    PROVE  Nearing'
<1>. DEFINE left == Left(path, session', installed', intended')
            was  == Left(request.path, session, installed, intended)
<1>1. /\ request'.why = "redirect" /\ request'.by = "visit" /\ request'.path = path
      /\ request'.hops = request.hops + 1
  BY DEF Ask, Link, Visit, Request
<1>2. left \in 0..4 /\ was \in 0..4
  BY LeftIsFew
<1>3. left <= 3
  BY LeftIsFew DEF ReturnsNear
<1>. HIDE DEF left, was
<1>4. request.hops \in Nat /\ (request.why = "offer" => request.hops = 0)
      /\ (request.why # "offer" => request.hops + was <= 4)
  BY DEF VisitsInv, Nearing, was
<1>5. request.hops + 1 \in Nat /\ request.hops + 1 + left <= 4
  <2>1. CASE request.why = "offer"
    BY <1>2, <1>3, <1>4, <2>1
  <2>2. CASE request.why # "offer"
    <3>1. 1 + left <= was
      BY <2>2 DEF left, was
    <3>. QED  BY <1>2, <1>4, <2>2, <3>1
  <2>. QED  BY <2>1, <2>2
<1>. QED  BY <1>1, <1>5 DEF Nearing, left

LEMMA AnsweredNears ==
    ASSUME request' = None
    PROVE  Nearing'
BY DEF Nearing

LEMMA ReturnsAsBefore ==
    ASSUME VisitsInv,
           \/ intended' = NoAddress
           \/ intended' = intended /\ (session' = "in" => session = "in")
    PROVE  ReturnsNear'
BY DEF VisitsInv, ReturnsNear

-------------------------------------------------------------------------------
(* A gate that turns a visit away sends it nearer: to the login one who is no  *)
(* longer signed in, to the dashboard one who is, to the set-up before it is   *)
(* done and to the confirmation of the password, none of which sends him back. *)
Turns(target) ==
    1 + Left(target, session', installed', intended') <= Left(request.path, session, installed, intended)

LEMMA TurnedToLogin ==
    ASSUME session' # "in", \/ session = "in" \/ ~Begins(request.path, GuestsWords)
    PROVE  Turns(<<"login">>)
<1>1. Left(<<"login">>, session', installed', intended') = 0
  <2>1. Far(<<"login">>, session', installed') = 0
    BY FarOf
  <2>. QED  BY <2>1, LeftIsFew
<1>2. Left(request.path, session, installed, intended) \in 0..4
      /\ Left(request.path, session, installed, intended) >= 1
  BY Distances, LeftIsFew
<1>. QED  BY <1>1, <1>2 DEF Turns

LEMMA TurnedToDashboard ==
    ASSUME UNCHANGED <<session, installed>>, session = "in", Begins(request.path, Doors)
    PROVE  Turns(<<"dashboard">>)
<1>1. Dash(installed) \in 1..2
  BY DEF Dash
<1>2. <<"dashboard">> # <<"email", "verify">> /\ request.path # <<"email", "verify">>
  BY DEF Begins, Doors, GuestsWords
<1>3. Left(<<"dashboard">>, session', installed', intended') = Dash(installed)
  <2>1. Far(<<"dashboard">>, session', installed') = Dash(installed)
    BY FarOf
  <2>. QED  BY <1>2, <2>1, LeftIsFew
<1>4. Left(request.path, session, installed, intended) = Far(request.path, session, installed)
  BY <1>2, LeftIsFew
<1>5. Far(request.path, session, installed) \in 0..3
      /\ Far(request.path, session, installed) >= 1 + Dash(installed)
  BY Distances
<1>. QED  BY <1>1, <1>3, <1>4, <1>5 DEF Turns

LEMMA TurnedToSetup ==
    ASSUME UNCHANGED <<session, installed>>, session = "in", installed # "ready",
           Begins(request.path, InnerWords)
    PROVE  Turns(<<"setup">>)
<1>1. <<"setup">> # <<"email", "verify">> /\ request.path # <<"email", "verify">>
  BY DEF Begins, InnerWords, AdminsWords
<1>2. Left(<<"setup">>, session', installed', intended') = 1
  <2>1. Far(<<"setup">>, session', installed') = 1
    BY FarOf
  <2>. QED  BY <1>1, <2>1, LeftIsFew
<1>3. Left(request.path, session, installed, intended) = Far(request.path, session, installed)
  BY <1>1, LeftIsFew
<1>4. Far(request.path, session, installed) \in 0..3 /\ Far(request.path, session, installed) >= 2
  BY Distances
<1>. QED  BY <1>2, <1>3, <1>4 DEF Turns

LEMMA TurnedToConfirm ==
    ASSUME UNCHANGED <<session, installed>>, Asks(request.path)
    PROVE  Turns(<<"user", "confirm-password">>)
<1>1. <<"user", "confirm-password">> # <<"email", "verify">>
  OBVIOUS
<1>2. request.path # <<"email", "verify">>
  BY UnaskedPaths
<1>3. Left(<<"user", "confirm-password">>, session', installed', intended') = 1
  <2>1. Far(<<"user", "confirm-password">>, session', installed') = 1
    BY FarOf
  <2>. QED  BY <1>1, <2>1, LeftIsFew
<1>4. Left(request.path, session, installed, intended) = Far(request.path, session, installed)
  BY <1>2, LeftIsFew
<1>5. Far(request.path, session, installed) \in 0..3 /\ Far(request.path, session, installed) >= 2
  BY Distances
<1>. QED  BY <1>3, <1>4, <1>5 DEF Turns

(* What the gates before the confirmation of the password remember is near:    *)
(* the address itself, or the page with the button, which is not one of those  *)
(* around the login.                                                           *)
LEMMA RemembersNear ==
    ASSUME SessionInv, Pressed, VisitsInv, request # None, Asks(request.path),
           Remember \/ intended' = request.path
    PROVE  ReturnsNear'
<1>1. Short(request.path)
  BY AskedIsShort
<1>2. CASE intended' = request.path
  BY <1>1, <1>2 DEF ReturnsNear
<1>3. CASE intended' = page.path /\ ~(request.method = "get" /\ request.by = "visit")
  <2>1. request.why = "offer"
    BY <1>3 DEF SessionInv, Requested, IsRequest, VisitsInv, Nearing
  <2>2. PICK o \in Offers(page.component, page.role, page.claimed) : request = Ask("offer", 0, o)
    BY <2>1 DEF Pressed
  <2>3. request.path = o.path
    BY <2>2, AskedFor
  <2>4. page.component \notin AuthPages
    BY <2>2, <2>3, AuthPagesDoNotAsk
  <2>. QED  BY <1>3, <2>4 DEF VisitsInv, PagesNear, ReturnsNear
<1>. QED  BY <1>2, <1>3 DEF Remember

LEMMA TurnedAwayNears ==
    ASSUME SessionInv, Pressed, VisitsInv, request # None, TurnedAway(RouteOf(request))
    PROVE  VisitsInv'
<1>. DEFINE route == RouteOf(request)
            gate  == Gate(route)
            To(target) == request' = Ask("redirect", request.hops + 1, Link(target))
<1>1. UNCHANGED page /\ UNCHANGED installed
  BY DEF TurnedAway, Stay, Redirect, Account
<1>2. gate # "missing" => Arrives(route, request.path)
  <2>1. gate # "missing" => route.name \notin {"404", "405"}
    BY DEF Gate
  <2>. QED  BY <2>1, FoundArrives
<1>3. /\ gate = "inactive" => session = "in"
      /\ gate = "guest" => "guest" \in route.gates /\ session = "in"
      /\ gate = "auth" => "auth" \in route.gates /\ session # "in"
      /\ gate = "setup" => "setup" \in route.gates /\ installed # "ready"
                           /\ ("auth" \in route.gates => session = "in")
      /\ gate \in {"confirm", "recent"} => route.gates \cap {"confirm", "recent"} # {}
  BY DEF Gate, EnsureActiveUser, RedirectIfAuthenticated, Authenticate, EnsureSetupComplete,
         RequirePassword, EnsureRecentPassword
<1>4. PagesNear'
  BY <1>1 DEF VisitsInv, PagesNear
<1>5. \A path : Redirect(path) => To(path)
  BY DEF Redirect
<1>6. /\ \A code : Stay(code) => request' = None
      /\ request' = None => Nearing'
  BY AnsweredNears DEF Stay
<1>7. \A target : To(target) /\ Turns(target) /\ ReturnsNear' => Nearing'
  BY RedirectNears DEF Turns
<1>. HIDE DEF gate, route, To
<1>8. CASE gate \in {"missing", "role"} /\ request' = None /\ UNCHANGED Session
  BY <1>4, <1>6, <1>8, ReturnsAsBefore DEF Session, VisitsInv
<1>9. CASE gate = "inactive" /\ EndSession /\ (request' = None \/ To(<<"login">>))
  <2>1. ReturnsNear' /\ session' = "guest"
    BY <1>9 DEF EndSession, ReturnsNear
  <2>2. Turns(<<"login">>)
    BY <1>3, <1>9, <2>1, TurnedToLogin
  <2>. QED  BY <1>4, <1>6, <1>7, <1>9, <2>1, <2>2 DEF VisitsInv
<1>10. CASE gate = "guest" /\ To(<<"dashboard">>) /\ UNCHANGED Session
  <2>1. ReturnsNear'
    BY <1>10, ReturnsAsBefore DEF Session
  <2>2. Turns(<<"dashboard">>)
    BY <1>1, <1>2, <1>3, <1>10, TurnedToDashboard DEF Arrives, Session
  <2>. QED  BY <1>4, <1>7, <1>10, <2>1, <2>2 DEF VisitsInv
<1>11. CASE gate = "auth" /\ UNCHANGED session /\ (request' = None \/ To(<<"login">>))
  <2>1. ReturnsNear'
    BY <1>3, <1>11 DEF ReturnsNear
  <2>2. Turns(<<"login">>)
    BY <1>2, <1>3, <1>11, TurnedToLogin DEF Arrives
  <2>. QED  BY <1>4, <1>6, <1>7, <1>11, <2>1, <2>2 DEF VisitsInv
<1>12. CASE gate = "setup" /\ To(<<"setup">>) /\ UNCHANGED Session
  <2>1. ReturnsNear'
    BY <1>12, ReturnsAsBefore DEF Session
  <2>2. Turns(<<"setup">>)
    BY <1>1, <1>2, <1>3, <1>12, TurnedToSetup DEF Arrives, Session
  <2>. QED  BY <1>4, <1>7, <1>12, <2>1, <2>2 DEF VisitsInv
<1>13. CASE /\ gate \in {"confirm", "recent"} /\ UNCHANGED session
            /\ \/ request' = None /\ UNCHANGED intended
               \/ To(<<"user", "confirm-password">>) /\ (Remember \/ intended' = request.path)
  <2>1. Asks(request.path)
    BY <1>2, <1>3, <1>13 DEF Arrives
  <2>2. ReturnsNear'
    BY <1>13, <2>1, RemembersNear, ReturnsAsBefore
  <2>3. Turns(<<"user", "confirm-password">>)
    BY <1>1, <1>13, <2>1, TurnedToConfirm
  <2>. QED  BY <1>4, <1>6, <1>7, <1>13, <2>2, <2>3 DEF VisitsInv
<1>14. \/ gate \in {"missing", "role"} /\ request' = None /\ UNCHANGED Session
       \/ gate = "inactive" /\ EndSession /\ (request' = None \/ To(<<"login">>))
       \/ gate = "guest" /\ To(<<"dashboard">>) /\ UNCHANGED Session
       \/ gate = "auth" /\ UNCHANGED session /\ (request' = None \/ To(<<"login">>))
       \/ gate = "setup" /\ To(<<"setup">>) /\ UNCHANGED Session
       \/ /\ gate \in {"confirm", "recent"} /\ UNCHANGED session
          /\ \/ request' = None /\ UNCHANGED intended
             \/ To(<<"user", "confirm-password">>) /\ (Remember \/ intended' = request.path)
  BY <1>5, <1>6 DEF TurnedAway, gate, route
<1>. QED  BY <1>8, <1>9, <1>10, <1>11, <1>12, <1>13, <1>14

-------------------------------------------------------------------------------
(* The handlers.  Of those that answer a visit five send it on; the others     *)
(* answer only what is written.                                                *)
LEMMA HandlersAreOpen ==
    ASSUME NEW route, Answer(route), ~TurnedAway(route)
    PROVE  Gate(route) = "open"
<1>1. CASE \/ ShowPage(route) \/ Give(route) \/ ShowRegister(route) \/ ShowSetup(route)
           \/ ShowTlsActivation(route) \/ ShowRestore(route) \/ ShowChallenge(route) \/ ShowVerifyEmail(route)
  BY <1>1 DEF ShowPage, Give, ShowRegister, ShowSetup, ShowTlsActivation, ShowRestore, ShowChallenge,
              ShowVerifyEmail, Reaches, ReachesOneOf
<1>2. CASE \/ RegisterOwner(route) \/ LogIn(route) \/ PassChallenge(route) \/ LogOut(route)
           \/ ResetForgottenPassword(route) \/ ConfirmsPassword(route) \/ StoreSetup(route)
           \/ UpdateSystem(route) \/ UpdateUser(route)
  BY <1>2 DEF RegisterOwner, LogIn, PassChallenge, LogOut, ResetForgottenPassword, ConfirmsPassword,
              StoreSetup, UpdateSystem, UpdateUser, Reaches
<1>3. CASE \/ TransferOwnership(route) \/ UpdateProfile(route) \/ Reauthenticate(route) \/ RunUpdate(route)
           \/ Does(route) \/ DoesCarefully(route) \/ StoreRestore(route)
  BY <1>3 DEF TransferOwnership, UpdateProfile, Reauthenticate, RunUpdate, Does, DoesCarefully,
              StoreRestore, Reaches, ReachesOneOf
<1>. QED  BY <1>1, <1>2, <1>3 DEF Answer

LEMMA VisitsAreRead ==
    ASSUME NEW route, Answer(route), ~TurnedAway(route), route.name \in VisitsOfPages \cup VisitsOfData
    PROVE  \/ request' = None
           \/ ShowSetup(route) \/ ShowTlsActivation(route) \/ ShowChallenge(route) \/ ShowVerifyEmail(route)
           \/ UpdateProfile(route) /\ route.name = "settings"
<1>1. CASE ShowPage(route) \/ Give(route) \/ ShowRegister(route) \/ ShowRestore(route)
  BY <1>1 DEF ShowPage, Give, ShowRegister, ShowRestore, Show, Stay
<1>2. route.name \notin {"register.store", "login.store", "two-factor.login.store", "logout", "password.update",
                        "password.confirm.store", "setup.store", "system.update", "users.update",
                        "users.transfer-ownership", "profile.update", "updates.reauthenticate", "updates.run",
                        "restore.store"}
  BY DEF VisitsOfPages, VisitsOfData, PagesForUsers, PagesForGuests
<1>3. ~Does(route) /\ ~DoesCarefully(route)
  BY DEF VisitsOfPages, VisitsOfData, PagesForUsers, PagesForGuests, Does, DoesCarefully, ReachesOneOf,
         AlwaysRecent, AtTimesRecent, AtTimesOwner
<1>4. /\ ~RegisterOwner(route) /\ ~LogIn(route) /\ ~PassChallenge(route) /\ ~LogOut(route)
      /\ ~ResetForgottenPassword(route) /\ ~ConfirmsPassword(route) /\ ~StoreSetup(route)
  BY <1>2 DEF RegisterOwner, LogIn, PassChallenge, LogOut, ResetForgottenPassword, ConfirmsPassword,
              StoreSetup, Reaches
<1>5. /\ ~UpdateSystem(route) /\ ~UpdateUser(route) /\ ~TransferOwnership(route)
      /\ ~Reauthenticate(route) /\ ~RunUpdate(route) /\ ~StoreRestore(route)
      /\ UpdateProfile(route) => route.name = "settings"
  BY <1>2 DEF UpdateSystem, UpdateUser, TransferOwnership, Reauthenticate, RunUpdate, StoreRestore,
              UpdateProfile, Reaches, ReachesOneOf
<1>. QED  BY <1>1, <1>3, <1>4, <1>5 DEF Answer

(* Whoever signs in has used the remembered address.                           *)
LEMMA HandlersReturn ==
    ASSUME NEW route, Answer(route), ~TurnedAway(route)
    PROVE  \/ intended' = NoAddress
           \/ intended' = intended /\ (session' = "in" => session = "in")
<1>1. CASE \/ ShowPage(route) \/ Give(route) \/ ShowRegister(route) \/ ShowSetup(route)
           \/ ShowTlsActivation(route) \/ ShowRestore(route) \/ ShowChallenge(route) \/ ShowVerifyEmail(route)
  BY <1>1 DEF ShowPage, Give, ShowRegister, ShowSetup, ShowTlsActivation, ShowRestore, ShowChallenge,
              ShowVerifyEmail, Intended, Session
<1>2. CASE \/ RegisterOwner(route) \/ LogIn(route) \/ PassChallenge(route) \/ LogOut(route)
           \/ ConfirmsPassword(route)
  BY <1>2 DEF RegisterOwner, LogIn, PassChallenge, LoggedIn, LogOut, ConfirmsPassword, EndSession,
              Intended, Session
<1>3. CASE \/ ResetForgottenPassword(route) \/ StoreSetup(route) \/ UpdateSystem(route) \/ UpdateUser(route)
           \/ TransferOwnership(route)
  BY <1>3 DEF ResetForgottenPassword, StoreSetup, UpdateSystem, UpdateUser, TransferOwnership, EndSession,
              Session
<1>4. CASE \/ UpdateProfile(route) \/ Reauthenticate(route) \/ RunUpdate(route)
           \/ Does(route) \/ DoesCarefully(route) \/ StoreRestore(route)
  BY <1>4 DEF UpdateProfile, Reauthenticate, RunUpdate, Does, DoesCarefully, StoreRestore, Session
<1>. QED  BY <1>1, <1>2, <1>3, <1>4 DEF Answer

(* The page that is shown is one around the login, or its address is near.     *)
LEMMA PagesAreNear == \A p \in PageOf : p[2] \in AuthPages \/ p[1] \in NearPages
BY DEF PageOf, AuthPages, NearPages, PagesForUsers

LEMMA HandlersShow ==
    ASSUME NEW route, Answer(route), ~TurnedAway(route)
    PROVE  \/ UNCHANGED page
           \/ \E component : Show(component) /\ (component \in AuthPages \/ route.name \in NearPages)
<1>1. CASE ShowPage(route)
  BY <1>1, PagesAreNear DEF ShowPage, Reaches
<1>2. {"setup.show", "tls.activation", "restore.index"} \subseteq NearPages
      /\ {"auth/register", "auth/two-factor-challenge", "auth/verify-email"} \subseteq AuthPages
  BY DEF NearPages, AuthPages
<1>3. CASE \/ ShowRegister(route) \/ ShowSetup(route) \/ ShowTlsActivation(route) \/ ShowRestore(route)
           \/ ShowChallenge(route) \/ ShowVerifyEmail(route)
  BY <1>2, <1>3 DEF ShowRegister, ShowSetup, ShowTlsActivation, ShowRestore, ShowChallenge, ShowVerifyEmail,
                    Intended, Stay, Redirect, Reaches
<1>4. CASE \/ RegisterOwner(route) \/ LogIn(route) \/ PassChallenge(route) \/ LogOut(route)
           \/ ConfirmsPassword(route)
  BY <1>4 DEF RegisterOwner, LogIn, PassChallenge, LoggedIn, LogOut, ConfirmsPassword, Intended, Back,
              Redirect
<1>5. CASE \/ StoreSetup(route) \/ UpdateSystem(route) \/ UpdateUser(route) \/ TransferOwnership(route)
           \/ Reauthenticate(route)
  BY <1>5 DEF StoreSetup, UpdateSystem, UpdateUser, TransferOwnership, Reauthenticate, Back, Redirect, Stay
<1>6. CASE \/ ResetForgottenPassword(route) \/ UpdateProfile(route) \/ RunUpdate(route) \/ Does(route)
           \/ DoesCarefully(route) \/ StoreRestore(route) \/ Give(route)
  BY <1>6 DEF ResetForgottenPassword, UpdateProfile, RunUpdate, Does, DoesCarefully, StoreRestore, Give,
              Back, Redirect, Stay
<1>. QED  BY <1>1, <1>3, <1>4, <1>5, <1>6 DEF Answer

(* The five that send a visit on send it nearer.                               *)
LEMMA SentOnNearer ==
    ASSUME SessionInv, request # None, RouteOf(request).name \notin {"404", "405"},
           \/ ShowSetup(RouteOf(request)) \/ ShowTlsActivation(RouteOf(request))
           \/ ShowChallenge(RouteOf(request)) \/ ShowVerifyEmail(RouteOf(request))
           \/ UpdateProfile(RouteOf(request)) /\ RouteOf(request).name = "settings"
    PROVE  \/ request' = None
           \/ \E path : request' = Ask("redirect", request.hops + 1, Link(path)) /\ Turns(path)
<1>. DEFINE route == RouteOf(request)
            To(target) == request' = Ask("redirect", request.hops + 1, Link(target))
            was == Left(request.path, session, installed, intended)
<1>1. Arrives(route, request.path)
  BY FoundArrives
<1>2. \A path : Redirect(path) => To(path)
  BY DEF Redirect
<1>3. \A component : Show(component) => request' = None
  BY DEF Show
<1>4. \A path : path # <<"email", "verify">> => Left(path, session', installed', intended')
                                                  = Far(path, session', installed')
  BY LeftIsFew
<1>5. request.path # <<"email", "verify">> => was = Far(request.path, session, installed)
  BY LeftIsFew
<1>6. /\ <<"dashboard">> # <<"email", "verify">> /\ <<>> # <<"email", "verify">>
      /\ <<"login">> # <<"email", "verify">> /\ <<"setup">> # <<"email", "verify">>
      /\ <<"tls-activation">> # <<"email", "verify">> /\ <<"two-factor-challenge">> # <<"email", "verify">>
      /\ <<"settings">> # <<"email", "verify">>
  OBVIOUS
<1>7. Gate(route) = "open" => /\ "auth" \in route.gates => session = "in"
                              /\ "guest" \in route.gates => session # "in"
  BY DEF Gate, Authenticate, RedirectIfAuthenticated
<1>8. CASE ShowSetup(route)
  <2>1. request.path = <<"setup">> /\ session = "in" /\ UNCHANGED <<session, installed>>
    BY <1>1, <1>7, <1>8 DEF Arrives, ShowSetup, Reaches, Account, Session
  <2>2. request' = None \/ (installed = "ready" /\ To(<<"dashboard">>))
    BY <1>2, <1>3, <1>8 DEF ShowSetup
  <2>3. ASSUME installed = "ready"  PROVE Turns(<<"dashboard">>)
    <3>1. Far(<<"dashboard">>, session', installed') = 1 /\ Far(<<"setup">>, session, installed) = 2
      BY <2>1, <2>3, FarOf DEF Dash
    <3>. QED  BY <1>4, <1>5, <1>6, <2>1, <3>1 DEF Turns
  <2>. QED  BY <2>2, <2>3
<1>9. CASE ShowTlsActivation(route)
  <2>1. request.path = <<"tls-activation">>
    BY <1>1, <1>9 DEF Arrives, ShowTlsActivation, Reaches
  <2>2. request' = None \/ To(<<>>)
    BY <1>2, <1>3, <1>9 DEF ShowTlsActivation
  <2>3. Far(<<>>, session', installed') = 1 /\ Far(<<"tls-activation">>, session, installed) = 2
    BY FarOf
  <2>. QED  BY <1>4, <1>5, <1>6, <2>1, <2>2, <2>3 DEF Turns
<1>10. CASE ShowChallenge(route)
  <2>1. request.path = <<"two-factor-challenge">> /\ session # "in" /\ UNCHANGED session
    BY <1>1, <1>7, <1>10 DEF Arrives, ShowChallenge, Reaches, Session
  <2>2. request' = None \/ To(<<"login">>)
    BY <1>2, <1>3, <1>10 DEF ShowChallenge
  <2>3. Far(<<"login">>, session', installed') = 0 /\ Far(<<"two-factor-challenge">>, session, installed) = 1
    BY <2>1, FarOf
  <2>. QED  BY <1>4, <1>5, <1>6, <2>1, <2>2, <2>3 DEF Turns
<1>11. CASE ShowVerifyEmail(route)
  <2>1. request.path = <<"email", "verify">> /\ session = "in" /\ UNCHANGED <<session, installed>>
    BY <1>1, <1>7, <1>11 DEF Arrives, ShowVerifyEmail, Reaches, Account
  <2>2. \/ request' = None
        \/ /\ intended' = NoAddress
           /\ \/ intended = NoAddress /\ To(<<"dashboard">>)
              \/ intended # NoAddress /\ To(intended)
    BY <1>2, <1>3, <1>11 DEF ShowVerifyEmail, Intended
  <2>3. ASSUME intended' = NoAddress, intended = NoAddress  PROVE Turns(<<"dashboard">>)
    <3>1. Dash(installed) \in 1..2
      BY DEF Dash
    <3>2. Far(<<"dashboard">>, session', installed') = Dash(installed)
          /\ Far(<<"email", "verify">>, session, installed) = 1 + Dash(installed)
      BY <2>1, FarOf
    <3>3. was = Far(<<"email", "verify">>, session, installed)
      BY <2>1, <2>3, LeftIsFew
    <3>. QED  BY <1>4, <1>6, <3>1, <3>2, <3>3 DEF Turns
  <2>4. ASSUME intended' = NoAddress, intended # NoAddress  PROVE Turns(intended)
    <3>1. Left(intended, session', installed', intended') = Far(intended, session, installed)
      BY <2>1, <2>4, LeftIsFew
    <3>2. was = 1 + Far(intended, session, installed)
      BY <2>1, <2>4 DEF Left
    <3>. QED  BY <3>1, <3>2, Distances DEF Turns
  <2>. QED  BY <2>2, <2>3, <2>4
<1>12. CASE UpdateProfile(route) /\ route.name = "settings"
  <2>1. request.path = <<"settings">>
    BY <1>1, <1>12 DEF Arrives
  <2>2. To(<<"settings", "profile">>)
    BY <1>2, <1>12 DEF UpdateProfile
  <2>3. <<"settings", "profile">> # <<"email", "verify">>
    OBVIOUS
  <2>4. Far(<<"settings", "profile">>, session', installed') = 2 /\ Far(<<"settings">>, session, installed) = 3
    BY FarOf
  <2>. QED  BY <1>4, <1>5, <1>6, <2>1, <2>2, <2>3, <2>4 DEF Turns
<1>. QED  BY <1>8, <1>9, <1>10, <1>11, <1>12

LEMMA HandlersNear ==
    ASSUME SessionInv, VisitsInv, request # None, Answer(RouteOf(request)), ~TurnedAway(RouteOf(request))
    PROVE  VisitsInv'
<1>. DEFINE route == RouteOf(request)
<1>1. route.name \notin {"404", "405"}
  BY HandlersAreOpen, OpenGate
<1>2. Arrives(route, request.path)
      /\ (request.why # "offer" => route.name \in VisitsOfPages \cup VisitsOfData)
  BY <1>1, FoundArrives
<1>3. ReturnsNear'
  BY HandlersReturn, ReturnsAsBefore
<1>4. PagesNear'
  <2>1. CASE UNCHANGED page
    BY <2>1 DEF VisitsInv, PagesNear
  <2>2. ASSUME NEW component, Show(component), component \in AuthPages \/ route.name \in NearPages
        PROVE  PagesNear'
    <3>1. page'.path = request.path /\ page'.component = component
      BY <2>2 DEF Show
    <3>. QED  BY <1>2, <2>2, <3>1 DEF Arrives, PagesNear
  <2>. QED  BY <2>1, <2>2, HandlersShow
<1>5. Nearing'
  <2>1. CASE request.why = "offer"
    <3>1. request' = None \/ \E path : request' = Ask("redirect", request.hops + 1, Link(path))
      BY HandlersAnswer DEF Leads
    <3>. QED  BY <1>3, <2>1, <3>1, RedirectNears, AnsweredNears
  <2>2. CASE request.why # "offer"
    <3>1. \/ request' = None
          \/ \E path : request' = Ask("redirect", request.hops + 1, Link(path)) /\ Turns(path)
      BY <1>1, <1>2, <2>2, VisitsAreRead, SentOnNearer
    <3>. QED  BY <1>3, <3>1, RedirectNears, AnsweredNears DEF Turns
  <2>. QED  BY <2>1, <2>2
<1>. QED  BY <1>3, <1>4, <1>5 DEF VisitsInv

-------------------------------------------------------------------------------
(* The viewer starts a visit, and what happens behind his back.                *)
LEMMA VisitsStep == SessionInv /\ OffersInv /\ VisitsInv /\ [Next]_vars => VisitsInv'
<1>. SUFFICES ASSUME SessionInv, OffersInv, VisitsInv, [Next]_vars  PROVE VisitsInv'
  OBVIOUS
<1>1. CASE Serve
  <2>1. request # None /\ Answer(RouteOf(request))
    BY <1>1 DEF Serve
  <2>2. CASE TurnedAway(RouteOf(request))
    BY <2>1, <2>2, TurnedAwayNears DEF OffersInv
  <2>3. CASE ~TurnedAway(RouteOf(request))
    BY <2>1, <2>3, HandlersNear
  <2>. QED  BY <2>2, <2>3
<1>2. ASSUME UNCHANGED <<Account, Session, page>>  PROVE ReturnsNear' /\ PagesNear'
  BY <1>2, ReturnsAsBefore DEF VisitsInv, PagesNear, Session
<1>3. CASE Press
  <2>1. PICK offer : request' = Ask("offer", 0, offer)
    BY <1>3 DEF Press
  <2>2. request'.why = "offer" /\ request'.hops = 0
    BY <2>1 DEF Ask
  <2>3. Nearing'
    BY <2>2 DEF Nearing
  <2>. QED  BY <1>2, <1>3, <2>3 DEF VisitsInv, Press
<1>4. CASE Open
  <2>1. PICK path : request' = Ask("open", 0, Link(path))
    BY <1>4 DEF Open
  <2>2. request'.why = "open" /\ request'.hops = 0 /\ request'.by = "visit" /\ request'.path = path
    BY <2>1 DEF Ask, Link, Visit, Request
  <2>3. Left(path, session', installed', intended') \in 0..4
    BY LeftIsFew
  <2>4. Nearing'
    BY <2>2, <2>3 DEF Nearing
  <2>. QED  BY <1>2, <1>4, <2>4 DEF VisitsInv, Open
<1>5. CASE OthersChangeRole \/ Deactivate \/ RevokeSessions \/ SessionExpires \/ ConfirmationAges
  <2>1. UNCHANGED <<installed, page, request>>
    BY <1>5 DEF OthersChangeRole, Deactivate, RevokeSessions, SessionExpires, ConfirmationAges, Happens, Account
  <2>2. UNCHANGED <<session, intended>> \/ (session' = "guest" /\ intended' = NoAddress)
    BY <1>5 DEF OthersChangeRole, Deactivate, RevokeSessions, SessionExpires, ConfirmationAges, EndSession,
                Session
  <2>3. ReturnsNear'
    BY <2>2, ReturnsAsBefore
  <2>4. Left(request.path, session', installed', intended') \in 0..4
        /\ Left(request.path, session, installed, intended) \in 0..4
        /\ Left(request.path, session', installed', intended')
              <= Left(request.path, session, installed, intended)
    BY <2>1, <2>2, LeftIsFew
  <2>5. Nearing'
    BY <2>1, <2>4 DEF VisitsInv, Nearing
  <2>. QED  BY <2>1, <2>3, <2>5 DEF VisitsInv, PagesNear
<1>6. CASE UNCHANGED vars
  BY <1>6 DEF vars, VisitsInv, Nearing, ReturnsNear, PagesNear
<1>. QED  BY <1>1, <1>3, <1>4, <1>5, <1>6 DEF Next

LEMMA VisitsBegin == Init => VisitsInv
<1>. SUFFICES ASSUME Init  PROVE VisitsInv
  OBVIOUS
<1>1. page.path = <<>>
  BY DEF Init
<1>. QED  BY <1>1, ShortPaths DEF Init, VisitsInv, Nearing, ReturnsNear, PagesNear

(* No visit is sent round in circles: whatever the bookmarks, the first roles  *)
(* and the number of changes on the way, it is answered after at most four     *)
(* redirects, those to the login, the set-up, the dashboard, the confirmation  *)
(* of the password and the remembered address together.                        *)
THEOREM EveryVisitEnds ==
    ASSUME MaxHops \in Nat \ 0..3
    PROVE  Spec => []VisitsEnd
<1>1. SessionInv /\ VisitsInv => VisitsEnd
  <2>. SUFFICES ASSUME SessionInv, VisitsInv  PROVE request.hops <= MaxHops
    BY DEF VisitsEnd
  <2>1. CASE request = None
    BY <2>1 DEF None
  <2>2. CASE request # None
    <3>1. Left(request.path, session, installed, intended) \in 0..4
      BY LeftIsFew
    <3>2. request.hops \in Nat /\ request.hops <= 4
      BY <2>2, <3>1 DEF VisitsInv, Nearing
    <3>. QED  BY <3>2
  <2>. QED  BY <2>1, <2>2
<1>. QED  BY <1>1, SessionAlways, OffersBegin, OffersStep, VisitsBegin, VisitsStep, PTL DEF Spec
===============================================================================

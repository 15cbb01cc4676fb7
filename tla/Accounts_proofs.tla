---------------------------- MODULE Accounts_proofs ----------------------------
(* Proofs about Accounts for any number of users and of requests.              *)
EXTENDS Accounts, TLAPS

(* A patch put over a row gives a row, and makes no owner.                     *)
LEMMA PatchedRow ==
    ASSUME NEW row \in Row, NEW patch \in Patches
    PROVE  /\ Patched(row, patch) \in Row
           /\ "role" \notin DOMAIN patch => Patched(row, patch).role = row.role
           /\ Patched(row, patch).role = "owner" => row.role = "owner"
<1>1. DOMAIN row = {"role", "active"} /\ row.role \in Roles /\ row.active \in BOOLEAN
  BY DEF Row
<1> DEFINE new == Patched(row, patch)
<1>2. new = [f \in {"role", "active"} |-> IF f \in DOMAIN patch THEN patch[f] ELSE row[f]]
  BY <1>1 DEF Patched
<1>3. new = [role   |-> IF "role" \in DOMAIN patch THEN patch["role"] ELSE row["role"],
             active |-> IF "active" \in DOMAIN patch THEN patch["active"] ELSE row["active"]]
  BY <1>2
<1>4. /\ "role" \in DOMAIN patch => patch["role"] \in Unowned
      /\ "active" \in DOMAIN patch => patch["active"] \in BOOLEAN
  BY DEF Patches
<1> QED BY <1>1, <1>3, <1>4 DEF Row, Unowned, Roles

(* What update() is about to write is a patch, unless it was refused.          *)
LEMMA ChangesArePatch ==
    ASSUME NEW new \in [role : Roles, active : BOOLEAN],
           NEW changed \in SUBSET {"role", "active"}, changed # {},
           "role" \in changed => new.role # "owner"
    PROVE  [f \in changed |-> new[f]] \in Patches
<1>1. CASE changed = {"role"}
  BY <1>1 DEF Patches, Unowned
<1>2. CASE changed = {"active"}
  BY <1>2 DEF Patches
<1>3. CASE changed = {"role", "active"}
  BY <1>3 DEF Patches, Unowned
<1> QED BY <1>1, <1>2, <1>3
-------------------------------------------------------------------------------
(* The stages of a request: what each carries, and that what is put there is   *)
(* one.                                                                        *)
LEMMA StageCarries ==
    ASSUME NEW q \in Stages
    PROVE  /\ q.at \in {"claims", "looks", "creates"} => q.user \in Users /\ q = [at |-> q.at, user |-> q.user]
           /\ q.at \in {"transfer", "danger", "update", "hands over"} => q.actor \in Users
           /\ q.at \in {"writes", "hands over"} => q.target \in Users
           /\ q.at = "writes" => q.patch \in Patches
           /\ q.at \in {"saves", "completes"} => q.merged \in Settings
  BY DEF Stages

LEMMA StagesBuilt ==
    ASSUME NEW u \in Users, NEW v \in Users
    PROVE  /\ Idle \in Stages /\ Idle.at = "idle"
           /\ \A at \in {"invite", "system", "setup", "policy", "created", "disables"} : [at |-> at] \in Stages
           /\ \A at \in {"claims", "looks", "creates"} : [at |-> at, user |-> u] \in Stages
           /\ \A at \in {"transfer", "danger"} : [at |-> at, actor |-> u] \in Stages
           /\ \A role \in Roles : [at |-> "update", actor |-> u, role |-> role] \in Stages
           /\ \A patch \in Patches : [at |-> "writes", target |-> u, patch |-> patch] \in Stages
           /\ [at |-> "hands over", actor |-> u, target |-> v] \in Stages
           /\ \A at \in {"saves", "completes"}, merged \in Settings : [at |-> at, merged |-> merged] \in Stages
  BY DEF Stages, Idle

(* A change that waits is one of a user who exists; together with the types    *)
(* this is all that the next step relies on.                                   *)
TargetsExist == \A r \in Requests : At(r, "writes") => Exists(requests[r].target)

IInv == TypeOK /\ TargetsExist /\ AtMostOneOwner

LEMMA RequestMoves ==
    ASSUME TypeOK, TargetsExist, NEW r \in Requests, NEW q \in Stages, Becomes(r, q),
           q.at = "writes" => users'[q.target] # NoRow,
           \A u \in Users : users[u] # NoRow => users'[u] # NoRow
    PROVE  requests' \in [Requests -> Stages] /\ TargetsExist'
<1>1. requests' \in [Requests -> Stages]
  BY DEF TypeOK, Becomes
<1>2. ASSUME NEW s \in Requests, requests'[s].at = "writes"
      PROVE  users'[requests'[s].target] # NoRow
  <2>1. CASE s = r
    BY <1>2, <2>1 DEF TypeOK, Becomes
  <2>2. CASE s # r
    <3>1. requests'[s] = requests[s] /\ requests[s] \in Stages
      BY <2>2 DEF TypeOK, Becomes
    <3>2. requests[s].target \in Users /\ users[requests[s].target] # NoRow
      BY <1>2, <3>1, StageCarries DEF TargetsExist, At, Exists
    <3> QED BY <3>1, <3>2
  <2> QED BY <2>1, <2>2
<1> QED BY <1>1, <1>2 DEF TargetsExist, At, Exists

-------------------------------------------------------------------------------
(* What a step does to the rows.                                               *)
Claims(r) ==
    /\ At(r, "creates")
    /\ OwnerIfNot(requests[r].user, requests[r].user)
    /\ ~Exists(requests[r].user)
    /\ users' = [users EXCEPT ![requests[r].user] = [role |-> "owner", active |-> TRUE]]

Invites(r) ==
    \E t \in Users, role \in Unowned :
        ~Exists(t) /\ users' = [users EXCEPT ![t] = [role |-> role, active |-> TRUE]]

Changes(r) ==
    /\ At(r, "writes")
    /\ users' = [users EXCEPT ![requests[r].target] = Patched(@, requests[r].patch)]

HandsOver(r) ==
    /\ At(r, "hands over")
    /\ OwnerIfNot(requests[r].target, requests[r].actor)
    /\ users' = [users EXCEPT ![requests[r].actor].role = "administrator",
                              ![requests[r].target].role = "owner"]

RowsStep == users' = users \/ \E r \in Requests : Claims(r) \/ Invites(r) \/ Changes(r) \/ HandsOver(r)

(* Nothing else happens to them.                                               *)
LEMMA RowsSteps ==
    ASSUME Next
    PROVE  RowsStep
<1>1. CASE LockExpires \/ Rotate
  BY <1>1 DEF LockExpires, Rotate, RowsStep
<1>2. CASE \E r \in Requests : Step(r)
  <2>1. PICK r \in Requests : Step(r)
    BY <1>2
  <2>2. CASE \E a \in Users, at \in Handlers : Admitted(r, a, at)
    BY <2>2 DEF Admitted, RowsStep
  <2>3. CASE Registers(r)
    BY <2>3 DEF Registers, RegisterStarts, RegisterLocks, RegisterLooks, RegisterCreates, RegisterEnds,
                RowsStep, Claims
  <2>4. CASE Manage(r)
    <3>1. CASE \E t \in Users, role \in FormRoles : Invite(r, t, role)
      BY <3>1, FormRolesAssumption DEF Invite, RowsStep, Invites, Unowned, Roles
    <3>2. CASE \E t \in Users, new \in [role : FormRoles, active : BOOLEAN] : UpdateReads(r, t, new)
      BY <3>2 DEF UpdateReads, RowsStep
    <3>3. CASE UpdateWrites(r)
      BY <3>3 DEF UpdateWrites, RowsStep, Changes
    <3>4. CASE TransferWrites(r)
      BY <3>4 DEF TransferWrites, RowsStep, HandsOver
    <3>5. CASE (\E t \in Users : TransferReads(r, t)) \/ TransferDisables(r)
      BY <3>5 DEF TransferReads, TransferDisables, RowsStep
    <3> QED BY <2>4, <3>1, <3>2, <3>3, <3>4, <3>5 DEF Manage
  <2>5. CASE Configures(r)
    BY <2>5 DEF Configures, DangerSets, FormReads, SettingsWrite, RowsStep
  <2>6. CASE Dies(r)
    BY <2>6 DEF Dies, RowsStep
  <2> QED BY <2>1, <2>2, <2>3, <2>4, <2>5, <2>6 DEF Step
<1> QED BY <1>1, <1>2 DEF Next
(* A role written into a row.                                                  *)
LEMMA RoleWritten ==
    ASSUME NEW row \in Row \cup {NoRow}, NEW role \in Roles
    PROVE  /\ [row EXCEPT !.role = role] \in Row
           /\ [row EXCEPT !.role = role].role = role
           /\ [row EXCEPT !.role = role] # NoRow
<1>1. [row EXCEPT !.role = role] = [role |-> role, active |-> row.active] /\ row.active \in BOOLEAN
  <2>1. row \in [role : Roles \cup {"none"}, active : BOOLEAN]
    <3>1. CASE row \in Row
      BY <3>1 DEF Row
    <3>2. CASE row = NoRow
      BY <3>2 DEF NoRow
    <3> QED BY <3>1, <3>2
  <2> QED BY <2>1
<1>2. role # "none"
  BY DEF Roles
<1> QED BY <1>1, <1>2 DEF Row, NoRow

LEMMA NewRow ==
    ASSUME NEW role \in Roles
    PROVE  [role |-> role, active |-> TRUE] \in Row /\ [role |-> role, active |-> TRUE] # NoRow
  BY DEF Row, NoRow

LEMMA RolesHandedOver ==
    ASSUME TypeOK, NEW r \in Requests, HandsOver(r)
    PROVE  /\ requests[r].actor \in Users /\ requests[r].target \in Users
           /\ users' \in [Users -> Row \cup {NoRow}]
           /\ users'[requests[r].target].role = "owner"
           /\ users'[requests[r].target] # NoRow
           /\ requests[r].actor # requests[r].target
                 => users'[requests[r].actor].role = "administrator" /\ users'[requests[r].actor] # NoRow
           /\ \A v \in Users \ {requests[r].target, requests[r].actor} : users'[v] = users[v]
<1> USE DEF TypeOK
<1> DEFINE old == requests[r].actor
           new == requests[r].target
           mid == [users EXCEPT ![old] = [@ EXCEPT !.role = "administrator"]]
           end == [mid EXCEPT ![new] = [@ EXCEPT !.role = "owner"]]
<1>1. old \in Users /\ new \in Users
  BY StageCarries DEF HandsOver, At
<1>2. users' = end
  BY DEF HandsOver
<1>3. /\ [users[old] EXCEPT !.role = "administrator"] \in Row
      /\ [users[old] EXCEPT !.role = "administrator"].role = "administrator"
      /\ [users[old] EXCEPT !.role = "administrator"] # NoRow
  BY <1>1, RoleWritten DEF Roles
<1>4. mid \in [Users -> Row \cup {NoRow}] /\ mid[old] = [users[old] EXCEPT !.role = "administrator"]
  BY <1>1, <1>3
<1>5. \A v \in Users \ {old} : mid[v] = users[v]
  BY <1>1
<1> HIDE DEF mid
<1>6. /\ [mid[new] EXCEPT !.role = "owner"] \in Row
      /\ [mid[new] EXCEPT !.role = "owner"].role = "owner"
      /\ [mid[new] EXCEPT !.role = "owner"] # NoRow
  BY <1>1, <1>4, RoleWritten DEF Roles
<1>7. end \in [Users -> Row \cup {NoRow}] /\ end[new] = [mid[new] EXCEPT !.role = "owner"]
  BY <1>1, <1>4, <1>6
<1>8. \A v \in Users \ {new} : end[v] = mid[v]
  BY <1>1, <1>4
<1> HIDE DEF end
<1> QED BY <1>1, <1>2, <1>3, <1>4, <1>5, <1>6, <1>7, <1>8

(* Rows stay rows; an account is never removed.                                *)
LEMMA RowsTyped ==
    ASSUME TypeOK, TargetsExist, RowsStep
    PROVE  /\ users' \in [Users -> Row \cup {NoRow}]
           /\ \A u \in Users : users[u] # NoRow => users'[u] # NoRow
<1> USE DEF TypeOK
<1>1. NoRow \notin Row
  BY DEF NoRow, Row, Roles
<1>2. CASE users' = users
  BY <1>2
<1>3. CASE \E r \in Requests : Claims(r)
  <2>1. PICK r \in Requests : Claims(r)
    BY <1>3
  <2>2. requests[r].user \in Users
    BY <2>1, StageCarries DEF Claims, At
  <2>3. users' = [users EXCEPT ![requests[r].user] = [role |-> "owner", active |-> TRUE]]
    BY <2>1 DEF Claims
  <2>4. [role |-> "owner", active |-> TRUE] \in Row /\ [role |-> "owner", active |-> TRUE] # NoRow
    BY NewRow DEF Roles
  <2> QED BY <2>2, <2>3, <2>4
<1>4. CASE \E r \in Requests : Invites(r)
  <2>1. PICK t \in Users, role \in Unowned : users' = [users EXCEPT ![t] = [role |-> role, active |-> TRUE]]
    BY <1>4 DEF Invites
  <2>2. [role |-> role, active |-> TRUE] \in Row /\ [role |-> role, active |-> TRUE] # NoRow
    BY NewRow DEF Unowned
  <2> QED BY <2>1, <2>2
<1>5. CASE \E r \in Requests : Changes(r)
  <2>1. PICK r \in Requests : Changes(r)
    BY <1>5
  <2> DEFINE t == requests[r].target
  <2>2. t \in Users /\ requests[r].patch \in Patches /\ users[t] \in Row
    BY <2>1, StageCarries DEF Changes, At, TargetsExist, Exists
  <2>3. Patched(users[t], requests[r].patch) \in Row
    BY <2>2, PatchedRow
  <2> QED BY <1>1, <2>1, <2>2, <2>3 DEF Changes
<1>6. CASE \E r \in Requests : HandsOver(r)
  <2>1. PICK r \in Requests : HandsOver(r)
    BY <1>6
  <2> QED BY <2>1, RolesHandedOver
<1> QED BY <1>2, <1>3, <1>4, <1>5, <1>6 DEF RowsStep

(* Who is the owner after a step.                                              *)
Arrives(u) ==
    /\ ~Exists(u) /\ ~IsOwner(u) /\ users'[u].role = "owner"
    /\ \A v \in Users \ {u} : ~IsOwner(v) /\ users'[v].role # "owner"

HandedOver(r) ==
    /\ At(r, "hands over")
    /\ OwnerIfNot(requests[r].target, requests[r].actor)
    /\ requests[r].target \in Users
    /\ users'[requests[r].target].role = "owner"
    /\ requests[r].actor # requests[r].target => users'[requests[r].actor].role = "administrator"
    /\ \A v \in Users \ {requests[r].target, requests[r].actor} : users'[v] = users[v]

Demoted(r, u) ==
    /\ At(r, "writes")
    /\ requests[r].target = u
    /\ "role" \in DOMAIN requests[r].patch
    /\ IsOwner(u) /\ users'[u].role # "owner"

LEMMA OwnersAfter ==
    ASSUME TypeOK, TargetsExist, RowsStep, NEW u \in Users
    PROVE  \/ (users'[u].role = "owner") <=> IsOwner(u)
           \/ Arrives(u)
           \/ \E r \in Requests : HandedOver(r) \/ Demoted(r, u)
<1> USE DEF TypeOK, IsOwner, Arrives, HandedOver, Demoted
<1>2. CASE users' = users
  BY <1>2
<1>3. CASE \E r \in Requests : Claims(r)
  <2>1. PICK r \in Requests : Claims(r)
    BY <1>3
  <2>2. requests[r].user \in Users
    BY <2>1, StageCarries DEF Claims, At
  <2>3. CASE u = requests[r].user
    BY <2>1, <2>2, <2>3 DEF Claims, OwnerIfNot, Exists, NoRow
  <2>4. CASE u # requests[r].user
    BY <2>1, <2>2, <2>4 DEF Claims, OwnerIfNot
  <2> QED BY <2>3, <2>4
<1>4. CASE \E r \in Requests : Invites(r)
  <2>1. PICK t \in Users, role \in Unowned :
          ~Exists(t) /\ users' = [users EXCEPT ![t] = [role |-> role, active |-> TRUE]]
    BY <1>4 DEF Invites
  <2>2. users[t].role # "owner" /\ users'[t].role # "owner"
    BY <2>1 DEF Exists, NoRow, Unowned
  <2>3. \A v \in Users \ {t} : users'[v] = users[v]
    BY <2>1
  <2> QED BY <2>2, <2>3
<1>5. CASE \E r \in Requests : Changes(r)
  <2>1. PICK r \in Requests : Changes(r)
    BY <1>5
  <2> DEFINE t == requests[r].target
             p == requests[r].patch
  <2>2. t \in Users /\ p \in Patches /\ users[t] \in Row
    BY <2>1, StageCarries DEF Changes, At, TargetsExist, Exists
  <2>3. /\ users'[t] = Patched(users[t], p)
        /\ \A v \in Users \ {t} : users'[v] = users[v]
    BY <2>1, <2>2 DEF Changes
  <2>4. /\ "role" \notin DOMAIN p => users'[t].role = users[t].role
        /\ users'[t].role = "owner" => users[t].role = "owner"
    BY <2>2, <2>3, PatchedRow
  <2>5. At(r, "writes")
    BY <2>1 DEF Changes
  <2>6. CASE u # t
    BY <2>3, <2>6
  <2>7. CASE u = t
    <3>1. CASE users[t].role = "owner" /\ users'[t].role # "owner"
      <4>1. "role" \in DOMAIN p
        BY <2>4, <3>1
      <4> QED BY <2>3, <2>5, <2>7, <3>1, <4>1
    <3>2. CASE ~(users[t].role = "owner" /\ users'[t].role # "owner")
      BY <2>4, <2>7, <3>2
    <3> QED BY <3>1, <3>2
  <2> QED BY <2>6, <2>7
<1>6. CASE \E r \in Requests : HandsOver(r)
  <2>1. PICK r \in Requests : HandsOver(r)
    BY <1>6
  <2>2. At(r, "hands over") /\ OwnerIfNot(requests[r].target, requests[r].actor)
    BY <2>1 DEF HandsOver
  <2> QED BY <2>1, <2>2, RolesHandedOver
<1> QED BY <1>2, <1>3, <1>4, <1>5, <1>6 DEF RowsStep
-------------------------------------------------------------------------------
(* A request goes from one stage to another.                                   *)
LEMMA AdmittedTyped ==
    ASSUME TypeOK, TargetsExist, NEW r \in Requests, NEW a \in Users, NEW at \in Handlers, Admitted(r, a, at)
    PROVE  requests' \in [Requests -> Stages] /\ TargetsExist'
<1>1. users' = users /\ users[a] # NoRow
  BY DEF Admitted, Exists
<1>2. users[a].role \in Roles
  BY <1>1 DEF TypeOK, Row
<1>3. CASE at = "update"
  <2>1. Becomes(r, [at |-> "update", actor |-> a, role |-> users[a].role])
    BY <1>3 DEF Admitted
  <2> QED BY <1>1, <1>2, <2>1, StagesBuilt, RequestMoves
<1>4. CASE at \in {"transfer", "danger"}
  <2>1. Becomes(r, [at |-> at, actor |-> a])
    BY <1>4 DEF Admitted
  <2> QED BY <1>1, <1>4, <2>1, StagesBuilt, RequestMoves
<1>5. CASE at \in {"invite", "system", "setup", "policy"}
  <2>1. Becomes(r, [at |-> at])
    BY <1>5 DEF Admitted
  <2> QED BY <1>1, <1>5, <2>1, StagesBuilt, RequestMoves
<1> QED BY <1>3, <1>4, <1>5 DEF Handlers

LEMMA RequestEnds ==
    ASSUME TypeOK, TargetsExist, NEW r \in Requests, Ends(r),
           \A u \in Users : users[u] # NoRow => users'[u] # NoRow
    PROVE  requests' \in [Requests -> Stages] /\ TargetsExist'
<1>1. Idle \in Stages /\ Idle.at # "writes"
  BY DEF Idle, Stages
<1> QED BY <1>1, RequestMoves DEF Ends

LEMMA RegistersTyped ==
    ASSUME TypeOK, TargetsExist, NEW r \in Requests, Registers(r),
           \A u \in Users : users[u] # NoRow => users'[u] # NoRow
    PROVE  requests' \in [Requests -> Stages] /\ TargetsExist'
<1>1. requests[r] \in Stages
  BY DEF TypeOK
<1>2. CASE \E u \in Users : RegisterStarts(r, u)
  <2>1. PICK u \in Users : Becomes(r, [at |-> "claims", user |-> u])
    BY <1>2 DEF RegisterStarts
  <2> QED BY <2>1, StagesBuilt, RequestMoves
<1>3. CASE RegisterLocks(r)
  <2>1. CASE Ends(r)
    BY <2>1, RequestEnds
  <2>2. CASE ~Ends(r)
    <3>1. Becomes(r, [requests[r] EXCEPT !.at = "looks"]) /\ At(r, "claims")
      BY <1>3, <2>2 DEF RegisterLocks
    <3>2. requests[r].user \in Users /\ requests[r] = [at |-> "claims", user |-> requests[r].user]
      BY <1>1, <3>1, StageCarries DEF At
    <3>3. [requests[r] EXCEPT !.at = "looks"] = [at |-> "looks", user |-> requests[r].user]
      BY <3>2
    <3> QED BY <3>1, <3>2, <3>3, StagesBuilt, RequestMoves
  <2> QED BY <2>1, <2>2
<1>4. CASE RegisterLooks(r)
  <2>1. CASE Ends(r)
    BY <2>1, RequestEnds
  <2>2. CASE ~Ends(r)
    <3>1. Becomes(r, [requests[r] EXCEPT !.at = "creates"]) /\ At(r, "looks")
      BY <1>4, <2>2 DEF RegisterLooks
    <3>2. requests[r].user \in Users /\ requests[r] = [at |-> "looks", user |-> requests[r].user]
      BY <1>1, <3>1, StageCarries DEF At
    <3>3. [requests[r] EXCEPT !.at = "creates"] = [at |-> "creates", user |-> requests[r].user]
      BY <3>2
    <3> QED BY <3>1, <3>2, <3>3, StagesBuilt, RequestMoves
  <2> QED BY <2>1, <2>2
<1>5. CASE RegisterCreates(r)
  <2>1. Ends(r) \/ Becomes(r, [at |-> "created"])
    BY <1>5 DEF RegisterCreates
  <2>2. CASE Ends(r)
    BY <2>2, RequestEnds
  <2>3. CASE Becomes(r, [at |-> "created"])
    <3>1. PICK u \in Users : requests[r].user = u
      BY <1>1, <1>5, StageCarries DEF RegisterCreates, At
    <3> QED BY <2>3, <3>1, StagesBuilt, RequestMoves
  <2> QED BY <2>1, <2>2, <2>3
<1>6. CASE RegisterEnds(r)
  BY <1>6, RequestEnds DEF RegisterEnds
<1> QED BY <1>2, <1>3, <1>4, <1>5, <1>6 DEF Registers

LEMMA ManageTyped ==
    ASSUME TypeOK, TargetsExist, NEW r \in Requests, Manage(r),
           \A u \in Users : users[u] # NoRow => users'[u] # NoRow
    PROVE  requests' \in [Requests -> Stages] /\ TargetsExist'
<1>1. CASE \E t \in Users, role \in FormRoles : Invite(r, t, role)
  BY <1>1, RequestEnds DEF Invite
<1>2. CASE \E t \in Users, new \in [role : FormRoles, active : BOOLEAN] : UpdateReads(r, t, new)
  <2>1. PICK t \in Users, new \in [role : FormRoles, active : BOOLEAN] : UpdateReads(r, t, new)
    BY <1>2
  <2> DEFINE changed == {f \in DOMAIN new : new[f] # users[t][f]}
             patch == [f \in changed |-> new[f]]
  <2>2. new \in [role : Roles, active : BOOLEAN] /\ DOMAIN new = {"role", "active"}
    BY FormRolesAssumption DEF Roles
  <2>3. users[t] # NoRow /\ users' = users
    BY <2>1 DEF UpdateReads, Exists
  <2>4. CASE Ends(r)
    BY <2>4, RequestEnds
  <2>5. CASE ~Ends(r)
    <3>1. /\ ~Refuses(r, t, new) /\ changed # {}
          /\ Becomes(r, [at |-> "writes", target |-> t, patch |-> patch])
      BY <2>1, <2>5 DEF UpdateReads, Ends
    <3>2. "role" \in changed => new.role # "owner"
      BY <3>1 DEF Refuses, IsOwner
    <3>3. changed \in SUBSET {"role", "active"}
      BY <2>2
    <3> HIDE DEF changed
    <3>4. patch \in Patches
      BY <2>2, <3>1, <3>2, <3>3, ChangesArePatch
    <3> HIDE DEF patch
    <3>5. [at |-> "writes", target |-> t, patch |-> patch] \in Stages
      BY <3>4, StagesBuilt
    <3> QED BY <2>3, <3>1, <3>5, RequestMoves
  <2> QED BY <2>4, <2>5
<1>3. CASE UpdateWrites(r)
  BY <1>3, RequestEnds DEF UpdateWrites
<1>4. CASE \E t \in Users : TransferReads(r, t)
  <2>1. PICK t \in Users : TransferReads(r, t)
    BY <1>4
  <2> DEFINE a == requests[r].actor
  <2>2. Ends(r) \/ Becomes(r, [at |-> "hands over", actor |-> a, target |-> t])
    BY <2>1 DEF TransferReads, Ends
  <2>3. a \in Users
    BY <2>1, StageCarries DEF TransferReads, At, TypeOK
  <2> QED BY <2>2, <2>3, StagesBuilt, RequestMoves, RequestEnds
<1>5. CASE TransferWrites(r)
  <2>1. Ends(r) \/ Becomes(r, [at |-> "disables"])
    BY <1>5 DEF TransferWrites
  <2>2. requests[r].actor \in Users
    BY <1>5, StageCarries DEF TransferWrites, At, TypeOK
  <2> QED BY <2>1, <2>2, StagesBuilt, RequestMoves, RequestEnds
<1>6. CASE TransferDisables(r)
  BY <1>6, RequestEnds DEF TransferDisables
<1> QED BY <1>1, <1>2, <1>3, <1>4, <1>5, <1>6 DEF Manage

LEMMA ConfiguresTyped ==
    ASSUME TypeOK, TargetsExist, NEW r \in Requests, Configures(r),
           \A u \in Users : users[u] # NoRow => users'[u] # NoRow
    PROVE  requests' \in [Requests -> Stages] /\ TargetsExist'
<1>1. CASE Ends(r)
  BY <1>1, RequestEnds
<1>2. CASE ~Ends(r)
  <2> DEFINE merged == [settings EXCEPT !.general = "changed"]
             at == IF At(r, "setup") THEN "completes" ELSE "saves"
  <2>1. Becomes(r, [at |-> at, merged |-> merged])
    BY <1>2 DEF Configures, DangerSets, FormReads, SettingsWrite
  <2>2. merged \in Settings /\ at \in {"saves", "completes"}
    BY DEF TypeOK, Settings
  <2> HIDE DEF merged, at
  <2>3. [at |-> at, merged |-> merged] \in Stages /\ [at |-> at, merged |-> merged].at # "writes"
    BY <2>2 DEF Stages
  <2> QED BY <2>1, <2>3, RequestMoves
<1> QED BY <1>1, <1>2
(* The token file, the lock, the set-up and the settings.                      *)
LEMMA RestTyped ==
    ASSUME TypeOK, Next
    PROVE  /\ claim' \in {"initial", "recovery", "invalidated"}
           /\ lock' \in Requests \cup {NoLock}
           /\ ready' \in BOOLEAN
           /\ settings' \in Settings
<1> USE DEF TypeOK
<1>1. CASE LockExpires \/ Rotate
  BY <1>1 DEF LockExpires, Rotate
<1>2. CASE \E r \in Requests : Step(r)
  <2>1. PICK r \in Requests : Step(r)
    BY <1>2
  <2>2. CASE \E a \in Users, at \in Handlers : Admitted(r, a, at)
    BY <2>2 DEF Admitted
  <2>3. CASE Registers(r)
    BY <2>3 DEF Registers, RegisterStarts, RegisterLocks, RegisterLooks, RegisterCreates, RegisterEnds, Releases
  <2>4. CASE Manage(r)
    <3>1. CASE TransferDisables(r)
      BY <3>1 DEF TransferDisables, Settings
    <3>2. CASE ~TransferDisables(r)
      BY <2>4, <3>2 DEF Manage, Invite, UpdateReads, UpdateWrites, TransferReads, TransferWrites
    <3> QED BY <3>1, <3>2
  <2>5. CASE Configures(r)
    <3>1. CASE \E on \in BOOLEAN : DangerSets(r, on)
      BY <3>1 DEF DangerSets, Settings
    <3>2. CASE FormReads(r)
      BY <3>2 DEF FormReads
    <3>3. CASE SettingsWrite(r)
      <4>1. requests[r].merged \in Settings
        BY <3>3, StageCarries DEF SettingsWrite
      <4> QED BY <3>3, <4>1 DEF SettingsWrite
    <3> QED BY <2>5, <3>1, <3>2, <3>3 DEF Configures
  <2>6. CASE Dies(r)
    BY <2>6 DEF Dies
  <2> QED BY <2>1, <2>2, <2>3, <2>4, <2>5, <2>6 DEF Step
<1> QED BY <1>1, <1>2 DEF Next

LEMMA Initially == Init => IInv
<1> SUFFICES ASSUME Init PROVE IInv
  OBVIOUS
<1>1. requests \in [Requests -> Stages] /\ \A r \in Requests : requests[r].at # "writes"
  BY DEF Init, Idle, Stages
<1>2. settings \in Settings
  BY DEF Init, Settings
<1>3. \A u \in Users : ~IsOwner(u)
  BY DEF Init, IsOwner, NoRow
<1> QED BY <1>1, <1>2, <1>3 DEF Init, IInv, TypeOK, TargetsExist, AtMostOneOwner, At

LEMMA TypesKept ==
    ASSUME TypeOK, TargetsExist, Next
    PROVE  TypeOK' /\ TargetsExist'
<1>1. RowsStep
  BY RowsSteps
<1>2. /\ users' \in [Users -> Row \cup {NoRow}]
      /\ \A u \in Users : users[u] # NoRow => users'[u] # NoRow
  BY <1>1, RowsTyped
<1>3. requests' \in [Requests -> Stages] /\ TargetsExist'
  <2>1. CASE LockExpires \/ Rotate
    BY <2>1 DEF LockExpires, Rotate, TypeOK, TargetsExist, At, Exists
  <2>2. CASE \E r \in Requests : Step(r)
    <3>1. PICK r \in Requests : Step(r)
      BY <2>2
    <3>2. CASE Dies(r)
      BY <1>2, <3>2, RequestEnds DEF Dies
    <3> QED BY <1>2, <3>1, <3>2, AdmittedTyped, RegistersTyped, ManageTyped, ConfiguresTyped DEF Step
  <2> QED BY <2>1, <2>2 DEF Next
<1> QED BY <1>2, <1>3, RestTyped DEF TypeOK

(* The index and the transaction keep the owner alone.                         *)
LEMMA OwnerStaysAlone ==
    ASSUME IInv, Next
    PROVE  AtMostOneOwner'
<1> USE DEF IsOwner
<1> SUFFICES ASSUME NEW u \in Users, NEW v \in Users, u # v,
                    users'[u].role = "owner", users'[v].role = "owner"
             PROVE  FALSE
  BY DEF AtMostOneOwner
<1>1. TypeOK /\ TargetsExist /\ RowsStep
  BY RowsSteps DEF IInv
<1>2. ~(IsOwner(u) /\ IsOwner(v))
  BY DEF IInv, AtMostOneOwner
<1>3. CASE \E r \in Requests : HandedOver(r)
  BY <1>3 DEF OwnerIfNot, HandedOver
<1>4. CASE ~\E r \in Requests : HandedOver(r)
  <2>1. ~Arrives(u) /\ ~Arrives(v)
    BY DEF Arrives
  <2>2. \A r \in Requests : ~Demoted(r, u) /\ ~Demoted(r, v)
    BY DEF Demoted
  <2>3. IsOwner(u)
    BY <1>1, <1>4, <2>1, <2>2, OwnersAfter
  <2>4. IsOwner(v)
    BY <1>1, <1>4, <2>1, <2>2, OwnersAfter
  <2> QED BY <1>2, <2>3, <2>4
<1> QED BY <1>3, <1>4

-------------------------------------------------------------------------------
LEMMA Invariant == Spec => []IInv
<1>1. IInv /\ [Next]_vars => IInv'
  <2>1. CASE Next
    BY <2>1, TypesKept, OwnerStaysAlone DEF IInv
  <2>2. CASE UNCHANGED vars
    BY <2>2 DEF vars, IInv, TypeOK, TargetsExist, AtMostOneOwner, IsOwner, Exists, At
  <2> QED BY <2>1, <2>2
<1> QED BY Initially, <1>1, PTL DEF Spec

(* Every reachable state has its types, and no change that waits to be written *)
(* makes an owner: the form refused it when it looked (UserController:81).     *)
THEOREM AccountsTyped == Spec => []TypeOK
<1>1. IInv => TypeOK
  BY DEF IInv
<1> QED BY Invariant, <1>1, PTL

(* Two owners never: the index users_one_owner, and a transfer that writes     *)
(* both rows in one transaction (UserController:119).                          *)
THEOREM OneOwnerAtMost == Spec => []AtMostOneOwner
<1>1. IInv => AtMostOneOwner
  BY DEF IInv
<1> QED BY Invariant, <1>1, PTL

(* Who is the owner loses that to another only by a transfer of his own        *)
(* (UserController::transferOwnership).                                        *)
THEOREM HandedOverByTheOwner == Spec => OwnershipHandedOver
<1> DEFINE HandsOn ==
      \A u, v \in Users :
         IsOwner(u) /\ u # v /\ users'[v].role = "owner"
           => /\ users'[u].role = "administrator"
              /\ \E r \in Requests : At(r, "hands over") /\ requests[r].actor = u
<1>1. ASSUME IInv, Next PROVE HandsOn
  <2> SUFFICES ASSUME NEW u \in Users, NEW v \in Users, IsOwner(u), u # v, users'[v].role = "owner"
               PROVE  /\ users'[u].role = "administrator"
                      /\ \E r \in Requests : At(r, "hands over") /\ requests[r].actor = u
    OBVIOUS
  <2>1. TypeOK /\ TargetsExist /\ RowsStep /\ ~IsOwner(v)
    BY <1>1, RowsSteps DEF IInv, AtMostOneOwner
  <2>2. ~Arrives(v) /\ \A r \in Requests : ~Demoted(r, v)
    BY DEF Arrives, Demoted
  <2>3. PICK r \in Requests : HandedOver(r)
    BY <2>1, <2>2, OwnersAfter
  <2>4. v = requests[r].target \/ v = requests[r].actor
    BY <2>1, <2>3 DEF IsOwner, HandedOver
  <2>5. u = requests[r].target \/ u = requests[r].actor
    BY <2>3 DEF OwnerIfNot, HandedOver
  <2>6. v # requests[r].actor
    BY <2>3, <2>4, <2>5 DEF HandedOver
  <2> QED BY <2>3, <2>4, <2>5, <2>6 DEF HandedOver
<1>2. IInv /\ [Next]_vars => [HandsOn]_vars
  BY <1>1
<1> QED BY Invariant, <1>2, PTL DEF Spec, OwnershipHandedOver

(* There is an owner once there was one, but for the change of a role that was *)
(* looked at before and written after the transfer (UserController:84).        *)
THEOREM LostByOneRace == Spec => OwnerLostByLateChange
<1> DEFINE Lost ==
      (\E u \in Users : IsOwner(u)) =>
         \/ \E u \in Users : users'[u].role = "owner"
         \/ \E r \in Requests : /\ At(r, "writes")
                               /\ IsOwner(requests[r].target)
                               /\ "role" \in DOMAIN requests[r].patch
<1>1. ASSUME IInv, Next PROVE Lost
  <2> SUFFICES ASSUME NEW u \in Users, IsOwner(u), \A v \in Users : users'[v].role # "owner"
               PROVE  \E r \in Requests : /\ At(r, "writes")
                                         /\ IsOwner(requests[r].target)
                                         /\ "role" \in DOMAIN requests[r].patch
    OBVIOUS
  <2>1. TypeOK /\ TargetsExist /\ RowsStep
    BY <1>1, RowsSteps DEF IInv
  <2>2. ~Arrives(u) /\ \A r \in Requests : ~HandedOver(r)
    BY DEF Arrives, HandedOver
  <2>3. PICK r \in Requests : Demoted(r, u)
    BY <2>1, <2>2, OwnersAfter
  <2> QED BY <2>3 DEF Demoted
<1>2. IInv /\ [Next]_vars => [Lost]_vars
  BY <1>1
<1> QED BY Invariant, <1>2, PTL DEF Spec, OwnerLostByLateChange

-------------------------------------------------------------------------------
(* Who has access after a step.                                                *)
LEMMA PatchedActive ==
    ASSUME NEW row \in Row, NEW patch \in Patches
    PROVE  Patched(row, patch).active = IF "active" \in DOMAIN patch THEN patch["active"] ELSE row.active
<1>1. DOMAIN row = {"role", "active"}
  BY DEF Row
<1>2. Patched(row, patch) = [f \in {"role", "active"} |-> IF f \in DOMAIN patch THEN patch[f] ELSE row[f]]
  BY <1>1 DEF Patched
<1> QED BY <1>2

LEMMA AccessHandedOver ==
    ASSUME TypeOK, NEW r \in Requests, HandsOver(r), NEW v \in Users
    PROVE  users'[v].active = users[v].active
<1> USE DEF TypeOK
<1> DEFINE old == requests[r].actor
           new == requests[r].target
           mid == [users EXCEPT ![old] = [@ EXCEPT !.role = "administrator"]]
<1>1. old \in Users /\ new \in Users
  BY StageCarries DEF HandsOver, At
<1>2. users' = [mid EXCEPT ![new] = [@ EXCEPT !.role = "owner"]]
  BY DEF HandsOver
<1>3. \A row \in Row \cup {NoRow}, role \in Roles : [row EXCEPT !.role = role].active = row.active
  BY DEF Row, NoRow
<1>4. mid \in [Users -> Row \cup {NoRow}]
  BY <1>1, RoleWritten DEF Roles
<1>5. mid[v].active = users[v].active
  BY <1>1, <1>3 DEF Roles
<1> HIDE DEF mid
<1> QED BY <1>1, <1>2, <1>3, <1>4, <1>5 DEF Roles

(* Only a change takes access away, and only from its target.                  *)
LEMMA AccessAfter ==
    ASSUME TypeOK, TargetsExist, RowsStep, NEW u \in Users, users[u].active, ~users'[u].active
    PROVE  \E r \in Requests : At(r, "writes") /\ requests[r].target = u
<1> USE DEF TypeOK
<1>1. CASE users' = users
  BY <1>1
<1>2. CASE \E r \in Requests : Claims(r)
  <2>1. PICK r \in Requests : Claims(r)
    BY <1>2
  <2>2. requests[r].user \in Users
    BY <2>1, StageCarries DEF Claims, At
  <2> QED BY <2>1, <2>2 DEF Claims
<1>3. CASE \E r \in Requests : Invites(r)
  BY <1>3 DEF Invites
<1>4. CASE \E r \in Requests : Changes(r)
  <2>1. PICK r \in Requests : Changes(r)
    BY <1>4
  <2> QED BY <2>1 DEF Changes
<1>5. CASE \E r \in Requests : HandsOver(r)
  BY <1>5, AccessHandedOver
<1> QED BY <1>1, <1>2, <1>3, <1>4, <1>5 DEF RowsStep

(* What a request is at after a step, if that is a write.                      *)
LEMMA Readies ==
    ASSUME TypeOK, Next, NEW r \in Requests
    PROVE  \/ requests'[r] = requests[r]
           \/ requests'[r].at \notin {"writes", "hands over"}
           \/ \E t \in Users, new \in [role : FormRoles, active : BOOLEAN] : UpdateReads(r, t, new)
           \/ \E t \in Users : TransferReads(r, t)
<1>1. ASSUME NEW s \in Requests, NEW q, Becomes(s, q)
      PROVE  requests'[r] = IF r = s THEN q ELSE requests[r]
  BY <1>1 DEF TypeOK, Becomes
<1>2. ASSUME NEW s \in Requests, Ends(s)
      PROVE  requests'[r] = requests[r] \/ requests'[r].at = "idle"
  BY <1>1, <1>2 DEF Ends, Idle
<1>3. CASE LockExpires \/ Rotate
  BY <1>3 DEF LockExpires, Rotate
<1>4. CASE \E s \in Requests : Step(s)
  <2>1. PICK s \in Requests : Step(s)
    BY <1>4
  <2>2. CASE \E a \in Users, at \in Handlers : Admitted(s, a, at)
    <3>1. PICK a \in Users, at \in Handlers : Admitted(s, a, at)
      BY <2>2
    <3>2. \E q : Becomes(s, q) /\ q.at = at
      BY <3>1 DEF Admitted
    <3> QED BY <1>1, <3>2 DEF Handlers
  <2>3. CASE Registers(s)
    <3>1. Ends(s) \/ \E q : Becomes(s, q) /\ q.at \in {"claims", "looks", "creates", "created"}
      <4>1. CASE RegisterLocks(s) \/ RegisterLooks(s)
        <5>1. requests[s] = [at |-> requests[s].at, user |-> requests[s].user]
          BY <4>1, StageCarries DEF TypeOK, RegisterLocks, RegisterLooks, At
        <5>2. \A at : [requests[s] EXCEPT !.at = at].at = at
          BY <5>1
        <5> QED BY <4>1, <5>2 DEF RegisterLocks, RegisterLooks
      <4>2. CASE \E u \in Users : RegisterStarts(s, u)
        <5>1. PICK u \in Users : Becomes(s, [at |-> "claims", user |-> u])
          BY <4>2 DEF RegisterStarts
        <5>2. [at |-> "claims", user |-> u].at = "claims"
          OBVIOUS
        <5> QED BY <5>1, <5>2
      <4>3. CASE RegisterCreates(s) \/ RegisterEnds(s)
        <5>1. Ends(s) \/ Becomes(s, [at |-> "created"])
          BY <4>3 DEF RegisterCreates, RegisterEnds
        <5>2. [at |-> "created"].at = "created"
          OBVIOUS
        <5> QED BY <5>1, <5>2
      <4> QED BY <2>3, <4>1, <4>2, <4>3 DEF Registers
    <3> QED BY <1>1, <1>2, <3>1
  <2>4. CASE Manage(s)
    <3>1. CASE s = r
      <4>1. CASE TransferWrites(s)
        <5>1. Ends(s) \/ Becomes(s, [at |-> "disables"])
          BY <4>1 DEF TransferWrites
        <5>2. [at |-> "disables"].at = "disables"
          OBVIOUS
        <5>3. CASE Becomes(s, [at |-> "disables"])
          <6>1. requests'[r] = [at |-> "disables"]
            BY <1>1, <3>1, <5>3
          <6> QED BY <5>2, <6>1
        <5> QED BY <1>2, <5>1, <5>3
      <4>2. CASE ~TransferWrites(s)
        BY <1>2, <2>4, <3>1, <4>2 DEF Manage, Invite, UpdateWrites, TransferDisables
      <4> QED BY <4>1, <4>2
    <3>2. CASE s # r
      <4>1. \E q : Becomes(s, q)
        BY <2>4 DEF Manage, Invite, UpdateReads, UpdateWrites, TransferReads, TransferWrites,
                    TransferDisables, Ends
      <4> QED BY <1>1, <3>2, <4>1
    <3> QED BY <3>1, <3>2
  <2>5. CASE Configures(s)
    <3>1. Ends(s) \/ \E q : Becomes(s, q) /\ q.at \in {"saves", "completes"}
      BY <2>5 DEF Configures, DangerSets, FormReads, SettingsWrite
    <3> QED BY <1>1, <1>2, <3>1
  <2>6. CASE Dies(s)
    BY <1>2, <2>6 DEF Dies
  <2> QED BY <2>1, <2>2, <2>3, <2>4, <2>5, <2>6 DEF Step
<1> QED BY <1>3, <1>4 DEF Next

(* An owner with access stays, but for the two writes of the race.             *)
LEMMA OwnerKeepsAccess ==
    ASSUME IInv, Next, NEW u \in Users, IsOwner(u), users[u].active,
           \A r \in Requests : ~ShutsOut(r) /\ ~HandsToInactive(r)
    PROVE  \E v \in Users : users'[v].role = "owner" /\ users'[v].active
<1> USE DEF IsOwner
<1>1. TypeOK /\ TargetsExist /\ RowsStep
  BY RowsSteps DEF IInv
<1>2. CASE users' = users
  BY <1>2
<1>3. CASE \E r \in Requests : Claims(r)
  <2>1. PICK r \in Requests : Claims(r)
    BY <1>3
  <2>2. u = requests[r].user
    BY <2>1 DEF Claims, OwnerIfNot
  <2> QED BY <1>1, <2>1, <2>2 DEF Claims, TypeOK
<1>4. CASE \E r \in Requests : Invites(r)
  <2>1. PICK t \in Users, role \in Unowned :
          ~Exists(t) /\ users' = [users EXCEPT ![t] = [role |-> role, active |-> TRUE]]
    BY <1>4 DEF Invites
  <2>2. u # t
    BY <2>1 DEF Exists, NoRow
  <2> QED BY <1>1, <2>1, <2>2 DEF TypeOK
<1>5. CASE \E r \in Requests : Changes(r)
  <2>1. PICK r \in Requests : Changes(r)
    BY <1>5
  <2> DEFINE t == requests[r].target
             p == requests[r].patch
  <2>2. t \in Users /\ p \in Patches /\ users[t] \in Row
    BY <1>1, <2>1, StageCarries DEF Changes, At, TargetsExist, Exists, TypeOK
  <2>3. users'[t] = Patched(users[t], p) /\ \A v \in Users \ {t} : users'[v] = users[v]
    BY <1>1, <2>1, <2>2 DEF Changes, TypeOK
  <2>4. CASE u = t
    <3>1. "role" \notin DOMAIN p /\ ("active" \in DOMAIN p => p["active"])
      BY <2>1, <2>4 DEF Changes, ShutsOut
    <3>2. users'[u].role = "owner" /\ users'[u].active
      BY <2>2, <2>3, <2>4, <3>1, PatchedRow, PatchedActive
    <3> QED BY <3>2
  <2>5. CASE u # t
    BY <2>3, <2>5
  <2> QED BY <2>4, <2>5
<1>6. CASE \E r \in Requests : HandsOver(r)
  <2>1. PICK r \in Requests : HandsOver(r)
    BY <1>6
  <2>2. requests[r].target \in Users /\ users'[requests[r].target].role = "owner"
    BY <1>1, <2>1, RolesHandedOver
  <2>3. users'[requests[r].target].active = users[requests[r].target].active
    BY <1>1, <2>1, <2>2, AccessHandedOver
  <2>4. users[requests[r].target].active
    BY <2>1 DEF HandsOver, HandsToInactive
  <2> QED BY <2>2, <2>3, <2>4
<1> QED BY <1>1, <1>2, <1>3, <1>4, <1>5, <1>6 DEF RowsStep

(* A change found in order does not shut out the owner, unless its target is   *)
(* made the owner before it is written.                                        *)
LEMMA ShutsOutByTransfer ==
    ASSUME IInv, Next, NEW r \in Requests, ShutsOut(r)', ~ShutsOut(r)
    PROVE  \E s \in Requests : At(s, "hands over") /\ requests[s].target = requests[r].target
<1>1. TypeOK /\ TargetsExist /\ RowsStep /\ TypeOK'
  BY RowsSteps, TypesKept DEF IInv
<1> DEFINE t == requests'[r].target
           p == requests'[r].patch
<1>2. /\ requests'[r].at = "writes" /\ users'[t].role = "owner"
      /\ "role" \in DOMAIN p \/ ("active" \in DOMAIN p /\ ~p["active"])
  BY DEF ShutsOut, At, IsOwner
<1>3. CASE requests'[r] = requests[r]
  <2>1. t \in Users /\ Exists(t)
    BY <1>1, <1>2, <1>3, StageCarries DEF TypeOK, TargetsExist, At
  <2>2. ~IsOwner(t)
    BY <1>2, <1>3 DEF ShutsOut, At
  <2>3. PICK s \in Requests : HandedOver(s)
    BY <1>1, <1>2, <2>1, <2>2, OwnersAfter DEF Arrives, Demoted
  <2>4. t = requests[s].target
    BY <1>2, <2>1, <2>2, <2>3 DEF HandedOver, IsOwner
  <2> QED BY <1>3, <2>3, <2>4 DEF HandedOver
<1>4. CASE requests'[r] # requests[r]
  <2>1. CASE \E v \in Users : TransferReads(r, v)
    <3>1. PICK v \in Users : TransferReads(r, v)
      BY <2>1
    <3> DEFINE asked == [at |-> "hands over", actor |-> requests[r].actor, target |-> v]
    <3>2. asked.at = "hands over" /\ Idle.at = "idle"
      BY DEF Idle
    <3> HIDE DEF asked
    <3>3. Becomes(r, asked) \/ Becomes(r, Idle)
      BY <3>1 DEF TransferReads, asked
    <3>4. requests'[r] \in {asked, Idle}
      BY <1>1, <3>3 DEF Becomes, TypeOK
    <3> QED BY <1>2, <3>2, <3>4
  <2>2. CASE \E v \in Users, new \in [role : FormRoles, active : BOOLEAN] : UpdateReads(r, v, new)
    <3>1. PICK v \in Users, new \in [role : FormRoles, active : BOOLEAN] : UpdateReads(r, v, new)
      BY <2>2
    <3> DEFINE changed == {f \in DOMAIN new : new[f] # users[v][f]}
    <3>2. /\ ~Refuses(r, v, new) /\ users' = users
          /\ requests'[r] = [at |-> "writes", target |-> v, patch |-> [f \in changed |-> new[f]]]
      BY <1>1, <1>2, <3>1 DEF UpdateReads, Becomes, Idle, TypeOK
    <3>3. t = v /\ DOMAIN p = changed /\ \A f \in changed : p[f] = new[f]
      <4> HIDE DEF changed
      <4>1. t = v /\ p = [f \in changed |-> new[f]]
        BY <3>2
      <4> HIDE DEF p
      <4> QED BY <4>1
    <3>4. new = [role |-> "owner", active |-> TRUE] /\ users[v].role = "owner"
      BY <1>2, <3>2, <3>3 DEF Refuses, IsOwner
    <3>5. new.role = users[v].role /\ new.active = TRUE
      BY <3>4
    <3>6. "role" \notin changed /\ ("active" \in changed => new["active"])
      BY <3>5
    <3> QED BY <1>2, <3>3, <3>6
  <2> QED BY <1>1, <1>2, <1>4, <2>1, <2>2, Readies
<1> QED BY <1>3, <1>4

(* A transfer found in order goes to somebody with access, unless that is      *)
(* taken from him before it is written.                                        *)
LEMMA HandsToInactiveByChange ==
    ASSUME IInv, Next, NEW r \in Requests, HandsToInactive(r)', ~HandsToInactive(r)
    PROVE  \E s \in Requests : At(s, "writes") /\ requests[s].target = requests[r].target
<1>1. TypeOK /\ TargetsExist /\ RowsStep /\ TypeOK'
  BY RowsSteps, TypesKept DEF IInv
<1> DEFINE t == requests'[r].target
<1>2. requests'[r].at = "hands over" /\ ~users'[t].active
  BY DEF HandsToInactive, At
<1>3. CASE requests'[r] = requests[r]
  <2>1. t \in Users /\ users[t].active
    BY <1>1, <1>2, <1>3, StageCarries DEF TypeOK, HandsToInactive, At
  <2> QED BY <1>1, <1>2, <1>3, <2>1, AccessAfter
<1>4. CASE requests'[r] # requests[r]
  <2>1. CASE \E v \in Users : TransferReads(r, v)
    <3>1. PICK v \in Users : TransferReads(r, v)
      BY <2>1
    <3>2. users' = users /\ users[v].active /\ t = v
      BY <1>1, <1>2, <3>1 DEF TransferReads, Becomes, Idle, TypeOK
    <3> QED BY <1>2, <3>2
  <2>2. CASE \E v \in Users, new \in [role : FormRoles, active : BOOLEAN] : UpdateReads(r, v, new)
    <3>1. requests'[r].at \in {"idle", "writes"}
      BY <1>1, <2>2 DEF UpdateReads, Becomes, Idle, TypeOK
    <3> QED BY <1>2, <3>1
  <2> QED BY <1>1, <1>2, <1>4, <2>1, <2>2, Readies
<1> QED BY <1>3, <1>4

(* There is an owner with access once there was one, but for the race between  *)
(* a transfer and a change of its new owner (UserController:84 and :116): for  *)
(* any number of users and of requests.                                        *)
THEOREM ShutOutByOneRace == Spec => OwnerShutOutByRace
<1> DEFINE Keeps ==
      /\ (\E u \in Users : IsOwner(u) /\ users[u].active) =>
            \/ \E u \in Users : users'[u].role = "owner" /\ users'[u].active
            \/ \E r \in Requests : ShutsOut(r) \/ HandsToInactive(r)
      /\ \A r \in Requests : ShutsOut(r)' /\ ~ShutsOut(r) =>
            \E s \in Requests : At(s, "hands over") /\ requests[s].target = requests[r].target
      /\ \A r \in Requests : HandsToInactive(r)' /\ ~HandsToInactive(r) =>
            \E s \in Requests : At(s, "writes") /\ requests[s].target = requests[r].target
<1>1. ASSUME IInv, Next PROVE Keeps
  BY <1>1, OwnerKeepsAccess, ShutsOutByTransfer, HandsToInactiveByChange
<1>2. IInv /\ [Next]_vars => [Keeps]_vars
  BY <1>1
<1> QED BY Invariant, <1>2, PTL DEF Spec, OwnerShutOutByRace
===============================================================================

-------------------------------- MODULE Accounts --------------------------------
(* The users of an installation and what only some of them may change: the     *)
(* first owner and the token he claims the installation with, invitations,     *)
(* roles, the transfer of the ownership, and the settings, among them the      *)
(* dangerous features.                                                         *)
(*                                                                             *)
(* Requests run side by side.  Each reads its user when it is admitted, its    *)
(* target when the route binds it, and writes later, so a step here is one     *)
(* statement of the database or one transaction.                               *)
CONSTANTS
    Users,      \* everybody who may ever have an account
    Requests,   \* requests served at the same time
    FormRoles   \* the roles a form may ask for

ASSUME FormRolesAssumption == FormRoles \subseteq {"owner", "administrator", "operator", "viewer"}

VARIABLES
    users,      \* the rows
    claim,      \* the token file: "initial", "recovery" or "invalidated"
    lock,       \* who holds netkeep:first-owner
    ready,      \* the set-up has been completed
    settings,   \* the settings of the organization
    requests    \* what each request is at

vars == <<users, claim, lock, ready, settings, requests>>

Roles    == {"owner", "administrator", "operator", "viewer"}
Row      == [role : Roles, active : BOOLEAN]
NoRow    == [role |-> "none", active |-> FALSE]
Settings == [general : {"default", "changed"}, dangerous : BOOLEAN]
NoLock   == "nobody"
Idle     == [at |-> "idle"]

Exists(u)  == users[u] # NoRow
IsOwner(u) == users[u].role = "owner"
Nobody     == \A u \in Users : ~Exists(u)

(* The index users_one_owner allows u to be the owner, were f to step down.    *)
OwnerIfNot(u, f) == \A v \in Users \ {u, f} : ~IsOwner(v)

At(r, at)     == requests[r].at = at
Becomes(r, q) == requests' = [requests EXCEPT ![r] = q]
Ends(r)       == Becomes(r, Idle)

-------------------------------------------------------------------------------
(* The first owner.                                                            *)
TokenAccepted == claim = "recovery" \/ (claim = "initial" /\ Nobody)

RegisterStarts(r, u) ==
    /\ At(r, "idle")
    /\ ~Exists(u)
    /\ TokenAccepted
    /\ Becomes(r, [at |-> "claims", user |-> u])
    /\ UNCHANGED <<users, claim, lock, ready, settings>>

RegisterLocks(r) ==
    /\ At(r, "claims")
    /\ \/ lock = NoLock /\ lock' = r /\ Becomes(r, [requests[r] EXCEPT !.at = "looks"])
       \/ lock # NoLock /\ Ends(r) /\ UNCHANGED lock
    /\ UNCHANGED <<users, claim, ready, settings>>

(* Only the holder releases the lock; it may have run out in between.          *)
Releases(r) == lock' = IF lock = r THEN NoLock ELSE lock

RegisterLooks(r) ==
    /\ At(r, "looks")
    /\ IF Nobody THEN Becomes(r, [requests[r] EXCEPT !.at = "creates"]) /\ UNCHANGED lock
       ELSE Ends(r) /\ Releases(r)
    /\ UNCHANGED <<users, claim, ready, settings>>

\* Mutation: there is no index.
RegisterCreates_NoIndex(r) ==
    /\ At(r, "creates")
    /\ users' = [users EXCEPT ![requests[r].user] = [role |-> "owner", active |-> TRUE]]
    /\ Becomes(r, [at |-> "created"])
    /\ UNCHANGED <<claim, lock, ready, settings>>

RegisterCreates(r) ==
    /\ At(r, "creates")
    /\ LET u == requests[r].user
       IN IF OwnerIfNot(u, u) /\ ~Exists(u)
          THEN /\ users' = [users EXCEPT ![u] = [role |-> "owner", active |-> TRUE]]
               /\ Becomes(r, [at |-> "created"])
               /\ UNCHANGED lock
          ELSE Ends(r) /\ Releases(r) /\ UNCHANGED users
    /\ UNCHANGED <<claim, ready, settings>>

RegisterEnds(r) ==
    /\ At(r, "created")
    /\ claim' = "invalidated"
    /\ Releases(r)
    /\ Ends(r)
    /\ UNCHANGED <<users, ready, settings>>

(* The lock is held for fifteen seconds at most.                               *)
LockExpires ==
    /\ lock # NoLock
    /\ lock' = NoLock
    /\ UNCHANGED <<users, claim, ready, settings, requests>>

(* The local command that makes a new token.                                   *)
Rotate ==
    /\ claim' = "recovery"
    /\ UNCHANGED <<users, lock, ready, settings, requests>>

-------------------------------------------------------------------------------
(* A request of a user who is signed in.  Its gates look at his row as it is;  *)
(* what he asks for is chosen where the handler first uses it.                 *)
Manages(role) == role \in {"owner", "administrator"}

Admitted(r, a, at) ==
    /\ At(r, "idle")
    /\ Exists(a) /\ users[a].active
    /\ \/ at \in {"transfer", "danger", "policy"} /\ IsOwner(a) /\ ready
       \/ at = "setup" /\ IsOwner(a)
       \/ at \in {"invite", "update", "system"} /\ Manages(users[a].role) /\ ready
    /\ Becomes(r, CASE at = "update" -> [at |-> at, actor |-> a, role |-> users[a].role]
                    [] at \in {"transfer", "danger"} -> [at |-> at, actor |-> a]
                    [] OTHER -> [at |-> at])
    /\ UNCHANGED <<users, claim, lock, ready, settings>>

Invite(r, t, role) ==
    /\ At(r, "invite")
    /\ role # "owner"
    /\ users' = IF Exists(t) THEN users
                ELSE [users EXCEPT ![t] = [role |-> role, active |-> TRUE]]
    /\ Ends(r)
    /\ UNCHANGED <<claim, lock, ready, settings>>

\* Mutation: the form of a user may make an owner.
Refuses_Promotes(r, t, new) ==
    \/ requests[r].role = "administrator" /\ IsOwner(t)
    \/ IsOwner(t) /\ new # [role |-> "owner", active |-> TRUE]
    \/ requests[r].actor = t /\ ~new.active

\* Mutation: the owner may be shut out by a form.
Refuses_SparesNobody(r, t, new) ==
    \/ requests[r].role = "administrator" /\ IsOwner(t)
    \/ requests[r].actor = t /\ ~new.active
    \/ ~IsOwner(t) /\ new.role = "owner"

(* What update() refuses, by the rows of the actor and of the user t as they   *)
(* were read, when the form says new.                                          *)
Refuses(r, t, new) ==
    \/ requests[r].role = "administrator" /\ IsOwner(t)
    \/ IsOwner(t) /\ new # [role |-> "owner", active |-> TRUE]
    \/ requests[r].actor = t /\ ~new.active
    \/ ~IsOwner(t) /\ new.role = "owner"

Patched(row, patch) == [f \in DOMAIN row |-> IF f \in DOMAIN patch THEN patch[f] ELSE row[f]]

(* Only the fields that differ from the row that was read will be written.     *)
UpdateReads(r, t, new) ==
    /\ At(r, "update")
    /\ Exists(t)
    /\ LET changed == {f \in DOMAIN new : new[f] # users[t][f]}
       IN Becomes(r, IF Refuses(r, t, new) \/ changed = {} THEN Idle
                     ELSE [at |-> "writes", target |-> t, patch |-> [f \in changed |-> new[f]]])
    /\ UNCHANGED <<users, claim, lock, ready, settings>>

UpdateWrites(r) ==
    /\ At(r, "writes")
    /\ users' = [users EXCEPT ![requests[r].target] = Patched(@, requests[r].patch)]
    /\ Ends(r)
    /\ UNCHANGED <<claim, lock, ready, settings>>

-------------------------------------------------------------------------------
(* The transfer of the ownership.                                              *)
TransferReads(r, t) ==
    /\ At(r, "transfer")
    /\ Exists(t)
    /\ LET a == requests[r].actor
       IN Becomes(r, IF t # a /\ users[t].active
                     THEN [at |-> "hands over", actor |-> a, target |-> t] ELSE Idle)
    /\ UNCHANGED <<users, claim, lock, ready, settings>>

\* Mutation: there is no index.
TransferWrites_NoIndex(r) ==
    /\ At(r, "hands over")
    /\ users' = [users EXCEPT ![requests[r].actor].role = "administrator",
                              ![requests[r].target].role = "owner"]
    /\ Becomes(r, [at |-> "disables"])
    /\ UNCHANGED <<claim, lock, ready, settings>>

\* Mutation: two statements, the second of which the index may refuse.
TransferWrites_NoTransaction(r) ==
    /\ At(r, "hands over")
    /\ LET old == requests[r].actor
           new == requests[r].target
       IN \/ users' = [users EXCEPT ![old].role = "administrator"]
          \/ /\ OwnerIfNot(new, old)
             /\ users' = [users EXCEPT ![old].role = "administrator", ![new].role = "owner"]
    /\ Becomes(r, [at |-> "disables"])
    /\ UNCHANGED <<claim, lock, ready, settings>>

\* Mutation: whoever is the owner now steps down.
TransferWrites_AnyOwner(r) ==
    /\ At(r, "hands over")
    /\ users' = [u \in Users |->
                    IF u = requests[r].target THEN [users[u] EXCEPT !.role = "owner"]
                    ELSE IF IsOwner(u) THEN [users[u] EXCEPT !.role = "administrator"] ELSE users[u]]
    /\ Becomes(r, [at |-> "disables"])
    /\ UNCHANGED <<claim, lock, ready, settings>>

(* One transaction: both rows are locked and written, or neither.              *)
TransferWrites(r) ==
    /\ At(r, "hands over")
    /\ LET old == requests[r].actor
           new == requests[r].target
       IN IF OwnerIfNot(new, old)
          THEN /\ users' = [users EXCEPT ![old].role = "administrator", ![new].role = "owner"]
               /\ Becomes(r, [at |-> "disables"])
          ELSE UNCHANGED users /\ Ends(r)
    /\ UNCHANGED <<claim, lock, ready, settings>>

TransferDisables(r) ==
    /\ At(r, "disables")
    /\ settings' = [settings EXCEPT !.dangerous = FALSE]
    /\ Ends(r)
    /\ UNCHANGED <<users, claim, lock, ready>>

-------------------------------------------------------------------------------
(* The settings.  The dangerous features are written under a lock of the row.  *)
DangerSets(r, on) ==
    /\ At(r, "danger")
    /\ settings' = [settings EXCEPT !.dangerous = on]
    /\ Ends(r)
    /\ UNCHANGED <<users, claim, lock, ready>>

(* The other handlers read all the settings, and write all of them back later; *)
(* in between the certificate or the engine may refuse.                        *)
FormReads(r) ==
    /\ requests[r].at \in {"system", "setup", "policy"}
    /\ \/ Becomes(r, [at     |-> IF At(r, "setup") THEN "completes" ELSE "saves",
                      merged |-> [settings EXCEPT !.general = "changed"]])
       \/ Ends(r)
    /\ UNCHANGED <<users, claim, lock, ready, settings>>

(* Settings that equal those that were read are left out of the statement.     *)
SettingsWrite(r) ==
    /\ requests[r].at \in {"saves", "completes"}
    /\ settings' \in {requests[r].merged, settings}
    /\ ready' = (ready \/ At(r, "completes"))
    /\ Ends(r)
    /\ UNCHANGED <<users, claim, lock>>

(* A request dies with its process; its lock stays until it runs out.          *)
Dies(r) ==
    /\ ~At(r, "idle")
    /\ Ends(r)
    /\ UNCHANGED <<users, claim, lock, ready, settings>>

-------------------------------------------------------------------------------
Init ==
    /\ users = [u \in Users |-> NoRow]
    /\ claim = "initial"
    /\ lock = NoLock
    /\ ready = FALSE
    /\ settings = [general |-> "default", dangerous |-> FALSE]
    /\ requests = [r \in Requests |-> Idle]

Handlers == {"invite", "update", "transfer", "danger", "system", "setup", "policy"}

Registers(r) ==
    \/ \E u \in Users : RegisterStarts(r, u)
    \/ RegisterLocks(r) \/ RegisterLooks(r) \/ RegisterCreates(r) \/ RegisterEnds(r)

Manage(r) ==
    \/ \E t \in Users, role \in FormRoles : Invite(r, t, role)
    \/ \E t \in Users, new \in [role : FormRoles, active : BOOLEAN] : UpdateReads(r, t, new)
    \/ UpdateWrites(r)
    \/ \E t \in Users : TransferReads(r, t)
    \/ TransferWrites(r) \/ TransferDisables(r)

Configures(r) ==
    \/ \E on \in BOOLEAN : DangerSets(r, on)
    \/ FormReads(r) \/ SettingsWrite(r)

Step(r) ==
    \/ \E a \in Users, at \in Handlers : Admitted(r, a, at)
    \/ Registers(r) \/ Manage(r) \/ Configures(r) \/ Dies(r)

Next == (\E r \in Requests : Step(r)) \/ LockExpires \/ Rotate

Spec == Init /\ [][Next]_vars

-------------------------------------------------------------------------------
(* What a request may be at, and what it carries then: no change that waits    *)
(* to be written makes an owner.                                               *)
Unowned == Roles \ {"owner"}
Patches == [role : Unowned] \cup [active : BOOLEAN] \cup [role : Unowned, active : BOOLEAN]

Stages ==
    [at : {"idle", "invite", "system", "setup", "policy", "created", "disables"}]
    \cup [at : {"claims", "looks", "creates"}, user : Users]
    \cup [at : {"transfer", "danger"}, actor : Users]
    \cup [at : {"update"}, actor : Users, role : Roles]
    \cup [at : {"writes"}, target : Users, patch : Patches]
    \cup [at : {"hands over"}, actor : Users, target : Users]
    \cup [at : {"saves", "completes"}, merged : Settings]

(* Every variable has its type.                                                *)
TypeOK ==
    /\ users \in [Users -> Row \cup {NoRow}]
    /\ claim \in {"initial", "recovery", "invalidated"}
    /\ lock \in Requests \cup {NoLock}
    /\ ready \in BOOLEAN
    /\ settings \in Settings
    /\ requests \in [Requests -> Stages]

(* There are never two owners: not when two people claim an installation at    *)
(* once and the lock runs out, nor when an owner hands his ownership to two    *)
(* others at once.                                                             *)
AtMostOneOwner == \A u, v \in Users : IsOwner(u) /\ IsOwner(v) => u = v

(* The ownership passes only from the hand of the owner: nobody stops being    *)
(* the owner in favour of another except by a transfer he asked for himself,   *)
(* however late it is carried out.                                             *)
OwnershipHandedOver ==
    [][\A u, v \in Users :
          IsOwner(u) /\ u # v /\ users'[v].role = "owner"
              => /\ users'[u].role = "administrator"
                 /\ \E r \in Requests : At(r, "hands over") /\ requests[r].actor = u]_vars

(* An installation loses its owner in one way only: a change of role that was  *)
(* found in order before he was handed the ownership is written after it.      *)
(* Whatever else fails or comes late, there is an owner once there was one.    *)
OwnerLostByLateChange ==
    [][(\E u \in Users : IsOwner(u)) =>
          \/ \E u \in Users : users'[u].role = "owner"
          \/ \E r \in Requests : /\ At(r, "writes")
                                /\ IsOwner(requests[r].target)
                                /\ "role" \in DOMAIN requests[r].patch]_vars

(* A waiting change that would keep the owner out: it takes his role, or his   *)
(* access.  A transfer whose new owner has no access any more.                 *)
ShutsOut(r) ==
    /\ At(r, "writes")
    /\ IsOwner(requests[r].target)
    /\ LET patch == requests[r].patch
       IN "role" \in DOMAIN patch \/ ("active" \in DOMAIN patch /\ ~patch["active"])

HandsToInactive(r) == At(r, "hands over") /\ ~users[requests[r].target].active

(* An installation has an owner who can sign in, but for one race between a    *)
(* transfer and a change of its new owner, in either order: the change, found  *)
(* in order while he was not the owner, is written after the transfer to him;  *)
(* or the transfer, found in order while he was active, is written after the   *)
(* change.                                                                     *)
OwnerShutOutByRace ==
    [][/\ (\E u \in Users : IsOwner(u) /\ users[u].active) =>
             \/ \E u \in Users : users'[u].role = "owner" /\ users'[u].active
             \/ \E r \in Requests : ShutsOut(r) \/ HandsToInactive(r)
       /\ \A r \in Requests : ShutsOut(r)' /\ ~ShutsOut(r) =>
             \E s \in Requests : At(s, "hands over") /\ requests[s].target = requests[r].target
       /\ \A r \in Requests : HandsToInactive(r)' /\ ~HandsToInactive(r) =>
             \E s \in Requests : At(s, "writes") /\ requests[s].target = requests[r].target]_vars
===============================================================================

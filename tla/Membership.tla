----------------------------- MODULE Membership -----------------------------
(***************************************************************************)
(* The members of one organization (OrganizationService) and the HTTP      *)
(* requests that change them.  Each request is a transaction at READ       *)
(* COMMITTED: it reads in several steps, each time what is committed by    *)
(* then, and its one write takes effect with the commit.  A request that   *)
(* is rejected ends with no write.                                         *)
(*                                                                         *)
(* A request works on the membership row its session has loaded, with the  *)
(* role it had then (seen).  The row may be deleted meanwhile (row): an   *)
(* UPDATE of it then raises, a DELETE finds nothing and succeeds.          *)
(***************************************************************************)
EXTENDS Integers, FiniteSets

CONSTANTS
    Users,
    Founder,    \* who created the organization
    Requests    \* requests that may be in progress at the same time

Kind == {"add", "update", "remove", "delete"}

ASSUME MembershipAssumption ==
    /\ IsFiniteSet(Users)
    /\ Founder \in Users

Role == {"member", "admin", "owner"}
AdminRoles == {"admin", "owner"}

VARIABLES
    role,      \* organization_members: the role of each user, "none" if no row
    exists,    \* the organization's row is there
    req,       \* the requests in progress
    raced      \* history: a change has overtaken another one (Overtakes)

memberVars == <<role, exists, req, raced>>

Stage == {"idle", "begun", "authorized", "checked", "counted"}

Request == [stage : Stage, kind : Kind,
            caller : Users, target : Users, new : Role,
            seen : Role \cup {"none"}, row : {"live", "gone"}]

MembershipTypeOK ==
    /\ role \in [Users -> Role \cup {"none"}]
    /\ exists \in BOOLEAN
    /\ req \in [Requests -> Request]
    /\ raced \in BOOLEAN

Idle == [stage |-> "idle", kind |-> "add", caller |-> Founder, target |-> Founder,
         new |-> "member", seen |-> "none", row |-> "live"]

\* create_organization: its creator is the first owner.
MembershipInit ==
    /\ role = [u \in Users |-> IF u = Founder THEN "owner" ELSE "none"]
    /\ exists = TRUE
    /\ req = [q \in Requests |-> Idle]
    /\ raced = FALSE

Owners == {u \in Users : role[u] = "owner"}
OnSelf(q) == req[q].target = req[q].caller

\* The request goes on, without a write.
Continue(q, r) ==
    /\ req' = [req EXCEPT ![q] = r]
    /\ UNCHANGED <<role, exists>>

\* An exception: 4xx, or 500 with a rollback by get_db.
Reject(q) == Continue(q, Idle)

\* A handler is called.  Only add and update name a role, only delete no target.
Begin(q, kind, caller, target, new) ==
    /\ req[q].stage = "idle"
    /\ kind \in {"remove", "delete"} => new = "member"
    /\ kind = "delete" => target = caller
    /\ Continue(q, [stage |-> "begun", kind |-> kind, caller |-> caller, target |-> target,
                    new |-> new, seen |-> "none", row |-> "live"])

-----------------------------------------------------------------------------
\* The roles each operation passes to require_membership; only an owner may add
\* an admin or an owner, and everybody may leave.
Allowed(q, r) ==
    CASE req[q].kind = "add" -> r \in AdminRoles /\ (req[q].new \in AdminRoles => r = "owner")
      [] req[q].kind = "remove" /\ OnSelf(q) -> r # "none"
      [] OTHER -> r = "owner"

\* require_membership
Authorize(q) ==
    /\ req[q].stage = "begun"
    /\ LET r == role[req[q].caller] IN
         IF Allowed(q, r)
         THEN Continue(q, [req[q] EXCEPT !.stage = "authorized",
                                         !.seen = IF OnSelf(q) THEN r ELSE "none"])
         ELSE Reject(q)

\* get_membership of the target.  A row the session has loaded already keeps the
\* attributes it was loaded with.
LoadTarget(q) ==
    /\ role[req[q].target] # "none"
    /\ Continue(q, [req[q] EXCEPT !.stage = "checked", !.row = "live",
           !.seen = IF req[q].seen # "none" /\ req[q].row = "live" THEN req[q].seen
                    ELSE role[req[q].target]])

\* add wants no membership of the target, update and remove want one; who leaves
\* and who deletes the organization need none of it.
ReadTarget(q) ==
    /\ req[q].stage = "authorized"
    /\ \/ /\ \/ req[q].kind = "add" /\ role[req[q].target] = "none"
             \/ req[q].kind = "remove" /\ OnSelf(q)
             \/ req[q].kind = "delete" /\ exists
          /\ Continue(q, [req[q] EXCEPT !.stage = "checked"])
       \/ /\ req[q].kind = "update" \/ (req[q].kind = "remove" /\ ~OnSelf(q))
          /\ LoadTarget(q)

ReadTargetRejects(q) ==
    /\ req[q].stage = "authorized"
    /\ CASE req[q].kind = "add" -> role[req[q].target] # "none"
         [] req[q].kind = "delete" -> ~exists
         [] OTHER -> role[req[q].target] = "none" /\ ~(req[q].kind = "remove" /\ OnSelf(q))
    /\ Reject(q)

\* The write would take an owner away.
TakesOwner(q) ==
    /\ req[q].seen = "owner"
    /\ \/ req[q].kind = "remove"
       \/ req[q].kind = "update" /\ req[q].new # "owner"

\* Mutant: only a removal looks at the number of owners.
CountOnRemoval(q) ==
    /\ req[q].stage = "checked"
    /\ IF req[q].kind = "remove" /\ TakesOwner(q) /\ Cardinality(Owners) <= 1
       THEN Reject(q)
       ELSE Continue(q, [req[q] EXCEPT !.stage = "counted"])

\* count_owners, where the write needs it
CountOwners(q) ==
    /\ req[q].stage = "checked"
    /\ IF TakesOwner(q) /\ Cardinality(Owners) <= 1
       THEN Reject(q)
       ELSE Continue(q, [req[q] EXCEPT !.stage = "counted"])

-----------------------------------------------------------------------------
\* Mutant: who works on a deleted row does not find out.
RowsKept(q, S) == req' = [req EXCEPT ![q] = Idle]

\* The rows of the users in S are deleted; requests that work on one find out
\* when they write.
RowsGone(q, S) ==
    req' = [p \in Requests |->
        IF p = q THEN Idle
        ELSE IF req[p].target \in S /\ req[p].seen # "none" THEN [req[p] EXCEPT !.row = "gone"]
        ELSE req[p]]

\* Mutant: an insert without the foreign key.
WriteAddUnchecked(q) ==
    /\ req[q].kind = "add"
    /\ role[req[q].target] = "none"
    /\ role' = [role EXCEPT ![req[q].target] = req[q].new]
    /\ req' = [req EXCEPT ![q] = Idle]
    /\ UNCHANGED exists

WriteAdd(q) ==
    /\ req[q].kind = "add"
    /\ exists
    /\ role[req[q].target] = "none"
    /\ role' = [role EXCEPT ![req[q].target] = req[q].new]
    /\ req' = [req EXCEPT ![q] = Idle]
    /\ UNCHANGED exists

\* Only a changed attribute is written.
WriteUpdate(q) ==
    /\ req[q].kind = "update"
    /\ req[q].row = "live" \/ req[q].seen = req[q].new
    /\ role' = IF req[q].seen = req[q].new THEN role
               ELSE [role EXCEPT ![req[q].target] = req[q].new]
    /\ req' = [req EXCEPT ![q] = Idle]
    /\ UNCHANGED exists

WriteRemove(q) ==
    /\ req[q].kind = "remove"
    /\ role' = IF req[q].row = "gone" THEN role ELSE [role EXCEPT ![req[q].target] = "none"]
    /\ IF req[q].row = "gone" THEN req' = [req EXCEPT ![q] = Idle]
       ELSE RowsGone(q, {req[q].target})
    /\ UNCHANGED exists

\* The memberships go with the organization.
WriteDelete(q) ==
    /\ req[q].kind = "delete"
    /\ exists' = FALSE
    /\ role' = [u \in Users |-> "none"]
    /\ RowsGone(q, Users)

\* The flush and the commit of get_db.
Write(q) ==
    /\ req[q].stage = "counted"
    /\ WriteAdd(q) \/ WriteUpdate(q) \/ WriteRemove(q) \/ WriteDelete(q)

\* The unique constraint, the foreign key or the lost row stops the flush; so does a
\* run of one of the organization's collections, which it cannot be deleted with.
WriteRejects(q) ==
    /\ req[q].stage = "counted"
    /\ \/ req[q].kind = "add" /\ ~(exists /\ role[req[q].target] = "none")
       \/ req[q].kind = "update" /\ req[q].row = "gone" /\ req[q].seen # req[q].new
       \/ req[q].kind = "delete"
    /\ Reject(q)

Changing(q) == req[q].kind \in {"update", "remove"}

\* What the code does not rule out: q, an update_member_role or remove_member, writes
\* a membership that another one has read already, or takes an owner away after
\* another one that takes an owner has counted.
Overtakes(q) ==
    /\ Changing(q)
    /\ \E p \in Requests \ {q} :
         /\ Changing(p)
         /\ \/ req[p].seen # "none" /\ req[p].target = req[q].target
            \/ req[p].stage = "counted" /\ TakesOwner(p) /\ TakesOwner(q)

Step(q) ==
    \/ /\ \/ \E kind \in Kind, caller, target \in Users, new \in Role :
               Begin(q, kind, caller, target, new)
          \/ Authorize(q)
          \/ ReadTarget(q)
          \/ ReadTargetRejects(q)
          \/ CountOwners(q)
          \/ WriteRejects(q)
       /\ UNCHANGED raced
    \/ Write(q) /\ raced' = (raced \/ Overtakes(q))

MembershipNext == \E q \in Requests : Step(q)

MembershipSpec == MembershipInit /\ [][MembershipNext]_memberVars

-----------------------------------------------------------------------------
\* "An organization must have at least one owner" (CannotRemoveLastOwnerError).
AlwaysOwned == exists => Owners # {}

\* The check in update_member_role and remove_member keeps that promise however
\* requests overlap, but for two races of two changes.  One writes the membership the
\* other has read already, and the other goes by the role it had; or both take an
\* owner away, and both have counted the owner that the other takes.
OwnedUnlessRaced == ~raced => AlwaysOwned

\* Nobody is a member of an organization that is gone, whatever is added, changed or
\* removed while it is deleted, and with whatever rows were read before.
NoOrphanRows == ~exists => \A u \in Users : role[u] = "none"

-----------------------------------------------------------------------------
(* The inductive invariant behind them *)

\* A change has read its target's row by the time it counts or writes; a row that was
\* read is there until the reader is told that it is gone.
RowsKnown ==
    \A q \in Requests :
        /\ /\ Changing(q)
           /\ \/ req[q].stage \in {"checked", "counted"}
              \/ req[q].stage = "authorized" /\ OnSelf(q)
           => req[q].seen # "none"
        /\ req[q].seen # "none" /\ req[q].row = "live" => role[req[q].target] # "none"

\* What a change has seen of its target still holds.
SeenIsCurrent ==
    \A q \in Requests : exists /\ Changing(q) /\ req[q].seen # "none" =>
        role[req[q].target] = req[q].seen

\* A request that was let through leaves an owner behind.
LeavesOwner ==
    \A q \in Requests : exists /\ req[q].stage = "counted" /\ TakesOwner(q) =>
        Owners \ {req[q].target} # {}

MembershipInv ==
    /\ MembershipTypeOK
    /\ NoOrphanRows
    /\ RowsKnown
    /\ ~raced => AlwaysOwned /\ SeenIsCurrent /\ LeavesOwner
=============================================================================

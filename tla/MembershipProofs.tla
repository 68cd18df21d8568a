-------------------------- MODULE MembershipProofs --------------------------
(***************************************************************************)
(* For any number of users and requests, however they overlap: nobody is a *)
(* member of an organization that is gone, and an organization has an      *)
(* owner unless one change has raced another (Overtakes).                  *)
(***************************************************************************)
EXTENDS Membership, FiniteSetTheorems, TLAPS

USE DEF Role, AdminRoles, Kind, Stage, Request

\* The initial state: the founder is an owner and no request is in progress.
LEMMA InitInv == MembershipInit => MembershipInv
<1>. SUFFICES ASSUME MembershipInit PROVE MembershipInv
  OBVIOUS
<1>1. Idle \in Request /\ Idle.stage = "idle" /\ Idle.seen = "none"
  BY MembershipAssumption DEF Idle
<1>2. \A q \in Requests : req[q] = Idle
  BY DEF MembershipInit
<1>3. MembershipTypeOK /\ NoOrphanRows
  BY <1>1 DEF MembershipInit, MembershipTypeOK, NoOrphanRows
<1>4. RowsKnown /\ SeenIsCurrent /\ LeavesOwner
  BY <1>1, <1>2 DEF RowsKnown, SeenIsCurrent, LeavesOwner
<1>5. AlwaysOwned
  BY MembershipAssumption DEF MembershipInit, AlwaysOwned, Owners
<1>. QED
  BY <1>3, <1>4, <1>5 DEF MembershipInv

\* A request that goes on without writing keeps the invariant, provided that its
\* new record does.
LEMMA ContinueInv ==
    ASSUME MembershipInv, NEW q \in Requests, NEW r \in Request, Continue(q, r),
           UNCHANGED raced,
           /\ r.kind \in {"update", "remove"}
           /\ \/ r.stage \in {"checked", "counted"}
              \/ r.stage = "authorized" /\ r.target = r.caller
           => r.seen # "none",
           r.seen # "none" /\ r.row = "live" => role[r.target] # "none",
           ~raced =>
             /\ exists /\ r.kind \in {"update", "remove"} /\ r.seen # "none"
                  => role[r.target] = r.seen
             /\ exists /\ r.stage = "counted" /\ r.seen = "owner"
                  /\ (r.kind = "remove" \/ (r.kind = "update" /\ r.new # "owner"))
                  => Owners \ {r.target} # {}
    PROVE  MembershipInv'
<1>1. /\ role' = role /\ exists' = exists /\ raced' = raced /\ Owners' = Owners
      /\ req' = [req EXCEPT ![q] = r]
      /\ req \in [Requests -> Request]
  BY DEF Continue, Owners, MembershipInv, MembershipTypeOK
<1>2. \A p \in Requests : req'[p] = IF p = q THEN r ELSE req[p]
  BY <1>1
<1>3. MembershipTypeOK'
  BY <1>1 DEF MembershipInv, MembershipTypeOK
<1>4. NoOrphanRows'
  BY <1>1 DEF MembershipInv, NoOrphanRows
<1>5. RowsKnown'
  BY <1>1, <1>2 DEF MembershipInv, RowsKnown, Changing, OnSelf
<1>6. ASSUME ~raced PROVE AlwaysOwned' /\ SeenIsCurrent' /\ LeavesOwner'
  <2>1. AlwaysOwned'
    BY <1>1, <1>6 DEF MembershipInv, AlwaysOwned
  <2>2. SeenIsCurrent'
    BY <1>1, <1>2, <1>6 DEF MembershipInv, SeenIsCurrent, Changing
  <2>3. LeavesOwner'
    BY <1>1, <1>2, <1>6 DEF MembershipInv, LeavesOwner, TakesOwner
  <2>. QED
    BY <2>1, <2>2, <2>3
<1>. QED
  BY <1>1, <1>3, <1>4, <1>5, <1>6 DEF MembershipInv

\* A rejected request leaves everything as it was.
LEMMA RejectInv ==
    ASSUME MembershipInv, NEW q \in Requests, Reject(q), UNCHANGED raced
    PROVE  MembershipInv'
<1>1. Idle \in Request
  BY MembershipAssumption DEF Idle
<1>2. Idle.stage = "idle" /\ Idle.kind = "add" /\ Idle.seen = "none"
  BY DEF Idle
<1>. QED
  BY <1>1, <1>2, ContinueInv DEF Reject

\* Reading steps keep the invariant.
LEMMA ReadsInv ==
    ASSUME MembershipInv, NEW q \in Requests, UNCHANGED raced,
           \/ \E kind \in Kind, caller, target \in Users, new \in Role :
                Begin(q, kind, caller, target, new)
           \/ Authorize(q) \/ ReadTarget(q) \/ ReadTargetRejects(q)
           \/ CountOwners(q) \/ WriteRejects(q)
    PROVE  MembershipInv'
<1>0. req[q] \in Request /\ role \in [Users -> Role \cup {"none"}] /\ IsFiniteSet(Owners)
  BY MembershipAssumption, FS_Subset DEF MembershipInv, MembershipTypeOK, Owners
<1>1. ASSUME NEW kind \in Kind, NEW caller \in Users, NEW target \in Users, NEW new \in Role,
             Begin(q, kind, caller, target, new)
      PROVE  MembershipInv'
  <2>. DEFINE r == [stage |-> "begun", kind |-> kind, caller |-> caller, target |-> target,
                    new |-> new, seen |-> "none", row |-> "live"]
  <2>1. r \in Request
    BY <1>1
  <2>2. Continue(q, r)
    BY <1>1 DEF Begin
  <2>. QED
    BY <2>1, <2>2, ContinueInv
<1>2. CASE Authorize(q)
  <2>. DEFINE r == [req[q] EXCEPT !.stage = "authorized",
                       !.seen = IF OnSelf(q) THEN role[req[q].caller] ELSE "none"]
  <2>1. CASE Continue(q, r) /\ Allowed(q, role[req[q].caller])
    <3>1. r \in Request
      BY <1>0
    <3>2. /\ r.stage = "authorized" /\ r.kind = req[q].kind /\ r.target = req[q].target
          /\ r.caller = req[q].caller
          /\ r.seen # "none" => r.seen = role[r.target] /\ role[r.target] # "none"
          /\ r.kind \in {"update", "remove"} /\ r.target = r.caller => r.seen # "none"
      BY <1>0, <2>1 DEF OnSelf, Allowed
    <3>. HIDE DEF r
    <3>. QED
      BY <2>1, <3>1, <3>2, ContinueInv
  <2>. QED
    BY <1>2, <2>1, RejectInv DEF Authorize
<1>3. CASE ReadTarget(q)
  <2>1. CASE /\ Continue(q, [req[q] EXCEPT !.stage = "checked"])
             /\ \/ req[q].kind \in {"add", "delete"}
                \/ req[q].kind = "remove" /\ OnSelf(q)
    <3>. DEFINE r == [req[q] EXCEPT !.stage = "checked"]
    <3>1. r \in Request /\ r.stage = "checked" /\ r.kind = req[q].kind
          /\ r.target = req[q].target /\ r.seen = req[q].seen /\ r.row = req[q].row
      BY <1>0
    <3>2. r.kind = "remove" => r.seen # "none"
      BY <2>1, <1>3, <3>1 DEF MembershipInv, RowsKnown, ReadTarget, Changing
    <3>3. r.seen # "none" /\ r.row = "live" => role[r.target] # "none"
      BY <3>1 DEF MembershipInv, RowsKnown
    <3>4. ~raced /\ exists /\ r.kind \in {"update", "remove"} /\ r.seen # "none"
            => role[r.target] = r.seen
      BY <3>1 DEF MembershipInv, SeenIsCurrent, Changing
    <3>. HIDE DEF r
    <3>5. Continue(q, r)
      BY <2>1 DEF r
    <3>. QED
      BY <2>1, <3>1, <3>2, <3>3, <3>4, <3>5, ContinueInv
  <2>2. CASE LoadTarget(q)
    <3>. DEFINE r == [req[q] EXCEPT !.stage = "checked", !.row = "live",
           !.seen = IF req[q].seen # "none" /\ req[q].row = "live" THEN req[q].seen
                    ELSE role[req[q].target]]
    <3>1. /\ r \in Request /\ r.stage = "checked" /\ r.kind = req[q].kind
          /\ r.target = req[q].target
          /\ r.seen = req[q].seen \/ r.seen = role[r.target]
          /\ r.seen # "none" /\ role[r.target] # "none"
      BY <1>0, <2>2 DEF LoadTarget
    <3>2. ~raced /\ exists /\ r.kind \in {"update", "remove"} => role[r.target] = r.seen
      BY <3>1 DEF MembershipInv, SeenIsCurrent, Changing
    <3>3. Continue(q, r)
      BY <2>2 DEF LoadTarget
    <3>. HIDE DEF r
    <3>. QED
      BY <3>1, <3>2, <3>3, ContinueInv
  <2>. QED
    BY <1>3, <2>1, <2>2 DEF ReadTarget
<1>4. CASE ReadTargetRejects(q) \/ WriteRejects(q)
  BY <1>4, RejectInv DEF ReadTargetRejects, WriteRejects
<1>5. CASE CountOwners(q)
  <2>. DEFINE r == [req[q] EXCEPT !.stage = "counted"]
  <2>1. CASE /\ Continue(q, r)
             /\ ~(TakesOwner(q) /\ Cardinality(Owners) <= 1)
    <3>1. /\ r \in Request /\ r.stage = "counted" /\ r.kind = req[q].kind /\ r.new = req[q].new
          /\ r.target = req[q].target /\ r.seen = req[q].seen /\ r.row = req[q].row
      BY <1>0
    <3>2. TakesOwner(q) => Owners \ {r.target} # {}
      <4>1. SUFFICES ASSUME TakesOwner(q), Owners \subseteq {r.target} PROVE FALSE
        OBVIOUS
      <4>2. IsFiniteSet({r.target}) /\ Cardinality({r.target}) = 1
        BY FS_Singleton
      <4>3. Cardinality(Owners) <= 1
        BY <4>1, <4>2, FS_Subset
      <4>. QED
        BY <2>1, <4>1, <4>3
    <3>3. /\ r.kind \in {"update", "remove"} => r.seen # "none"
          /\ r.seen # "none" /\ r.row = "live" => role[r.target] # "none"
      BY <1>5, <3>1 DEF CountOwners, MembershipInv, RowsKnown, Changing
    <3>4. ~raced /\ exists /\ r.kind \in {"update", "remove"} /\ r.seen # "none"
            => role[r.target] = r.seen
      BY <3>1 DEF MembershipInv, SeenIsCurrent, Changing
    <3>5. r.seen = "owner" /\ (r.kind = "remove" \/ (r.kind = "update" /\ r.new # "owner"))
            => TakesOwner(q)
      BY <3>1 DEF TakesOwner
    <3>. HIDE DEF r
    <3>. QED
      BY <2>1, <3>1, <3>2, <3>3, <3>4, <3>5, ContinueInv
  <2>. QED
    BY <1>5, <2>1, RejectInv DEF CountOwners
<1>. QED
  BY <1>1, <1>2, <1>3, <1>4, <1>5

\* Losing its row changes nothing else in a request.
LEMMA RowLost ==
    ASSUME NEW r \in Request, NEW s, s = [r EXCEPT !.row = "gone"]
    PROVE  /\ s \in Request /\ s.stage = r.stage /\ s.kind = r.kind /\ s.row = "gone"
           /\ s.caller = r.caller /\ s.target = r.target /\ s.seen = r.seen
OBVIOUS

\* q is over, and of the others at most those that have read one of the rows of the
\* users in S are told that it is gone.
OthersGoOn(q, S) ==
    /\ req'[q] = Idle
    /\ \A p \in Requests \ {q} :
         IF req[p].target \in S /\ req[p].seen # "none"
         THEN req'[p] = [req[p] EXCEPT !.row = "gone"] ELSE req'[p] = req[p]

\* Whoever is still in progress has seen what it had seen, and works on a live row
\* only if it did.
LEMMA OthersKeepTheirs ==
    ASSUME MembershipInv, NEW q \in Requests, NEW S, OthersGoOn(q, S), NEW p \in Requests,
           req'[p].seen # "none" \/ req'[p].kind \in {"update", "remove"}
    PROVE  /\ p # q
           /\ req'[p].stage = req[p].stage /\ req'[p].kind = req[p].kind
           /\ req'[p].caller = req[p].caller /\ req'[p].target = req[p].target
           /\ req'[p].new = req[p].new /\ req'[p].seen = req[p].seen
           /\ req'[p].seen # "none" /\ req'[p].row = "live" =>
                req[p].row = "live" /\ req[p].target \notin S
<1>1. p # q
  BY DEF OthersGoOn, Idle
<1>2. req[p] \in Request
  BY DEF MembershipInv, MembershipTypeOK
<1>3. CASE req[p].target \in S /\ req[p].seen # "none"
  <2>1. req'[p] = [req[p] EXCEPT !.row = "gone"]
    BY <1>1, <1>3 DEF OthersGoOn
  <2>. HIDE DEF Request
  <2>. QED
    BY <1>1, <1>2, <2>1, RowLost
<1>4. CASE ~(req[p].target \in S /\ req[p].seen # "none")
  BY <1>1, <1>4 DEF OthersGoOn
<1>. QED
  BY <1>3, <1>4

\* The two ways a write ends its request.
LEMMA EndsRequest ==
    ASSUME MembershipInv, NEW q \in Requests, NEW S,
           RowsGone(q, S) \/ (S = {} /\ req' = [req EXCEPT ![q] = Idle])
    PROVE  OthersGoOn(q, S) /\ req' \in [Requests -> Request]
<1>1. req \in [Requests -> Request] /\ Idle \in Request
  BY MembershipAssumption DEF MembershipInv, MembershipTypeOK, Idle
<1>2. CASE RowsGone(q, S)
  BY <1>1, <1>2, RowLost DEF RowsGone, OthersGoOn
<1>3. CASE S = {} /\ req' = [req EXCEPT ![q] = Idle]
  BY <1>1, <1>3 DEF OthersGoOn
<1>. QED
  BY <1>2, <1>3

\* A write that takes away only rows whose readers are told of it keeps the rows known.
LEMMA RowsStayKnown ==
    ASSUME MembershipInv, NEW q \in Requests, NEW S, OthersGoOn(q, S),
           \A u \in Users \ S : role[u] # "none" => role'[u] # "none"
    PROVE  RowsKnown'
<1>. SUFFICES ASSUME NEW p \in Requests
              PROVE  /\ /\ req'[p].kind \in {"update", "remove"}
                        /\ \/ req'[p].stage \in {"checked", "counted"}
                           \/ req'[p].stage = "authorized" /\ req'[p].target = req'[p].caller
                        => req'[p].seen # "none"
                     /\ req'[p].seen # "none" /\ req'[p].row = "live" =>
                          role'[req'[p].target] # "none"
  BY DEF RowsKnown, Changing, OnSelf
<1>1. req[p].target \in Users
  BY DEF MembershipInv, MembershipTypeOK
<1>2. /\ /\ req[p].kind \in {"update", "remove"}
         /\ \/ req[p].stage \in {"checked", "counted"}
            \/ req[p].stage = "authorized" /\ req[p].target = req[p].caller
         => req[p].seen # "none"
      /\ req[p].seen # "none" /\ req[p].row = "live" => role[req[p].target] # "none"
  BY DEF MembershipInv, RowsKnown, Changing, OnSelf
<1>. QED
  BY <1>1, <1>2, OthersKeepTheirs

\* Adding a member takes nothing away from anyone.
LEMMA AddInv ==
    ASSUME MembershipInv, NEW q \in Requests, Write(q), WriteAdd(q),
           raced' = (raced \/ Overtakes(q))
    PROVE  MembershipInv'
<1>0. /\ role \in [Users -> Role \cup {"none"}] /\ exists \in BOOLEAN /\ raced \in BOOLEAN
      /\ req[q] \in Request
  BY DEF MembershipInv, MembershipTypeOK
<1>1. /\ exists /\ exists' = exists /\ raced' = raced
      /\ role' = [role EXCEPT ![req[q].target] = req[q].new]
      /\ role[req[q].target] = "none"
      /\ req' = [req EXCEPT ![q] = Idle]
  BY <1>0 DEF WriteAdd, Overtakes, Changing
<1>2. OthersGoOn(q, {}) /\ req' \in [Requests -> Request]
  BY <1>1, EndsRequest
<1>3. \A u \in Users : role[u] # "none" => role'[u] = role[u]
  BY <1>0, <1>1
<1>4. MembershipTypeOK' /\ NoOrphanRows'
  BY <1>0, <1>1, <1>2 DEF MembershipTypeOK, NoOrphanRows
<1>5. RowsKnown'
  BY <1>2, <1>3, RowsStayKnown
<1>6. Owners \subseteq Owners'
  BY <1>3 DEF Owners
<1>7. ASSUME ~raced PROVE AlwaysOwned' /\ SeenIsCurrent' /\ LeavesOwner'
  <2>1. AlwaysOwned'
    BY <1>1, <1>6, <1>7 DEF MembershipInv, AlwaysOwned
  <2>2. SeenIsCurrent'
    <3>. SUFFICES ASSUME NEW p \in Requests, req'[p].kind \in {"update", "remove"},
                         req'[p].seen # "none"
                  PROVE  role'[req'[p].target] = req'[p].seen
      BY DEF SeenIsCurrent, Changing
    <3>1. /\ req'[p].kind = req[p].kind /\ req'[p].target = req[p].target
          /\ req'[p].seen = req[p].seen
      BY <1>2, OthersKeepTheirs
    <3>2. role[req[p].target] = req[p].seen /\ req[p].target \in Users
      BY <1>1, <1>7, <3>1 DEF MembershipInv, MembershipTypeOK, SeenIsCurrent, Changing
    <3>. QED
      BY <1>3, <3>1, <3>2
  <2>3. LeavesOwner'
    <3>. SUFFICES ASSUME NEW p \in Requests, req'[p].stage = "counted", TakesOwner(p)'
                  PROVE  Owners' \ {req'[p].target} # {}
      BY DEF LeavesOwner
    <3>1. /\ req'[p].stage = req[p].stage /\ req'[p].target = req[p].target
          /\ TakesOwner(p)
      BY <1>2, OthersKeepTheirs DEF TakesOwner
    <3>. QED
      BY <1>1, <1>6, <1>7, <3>1 DEF MembershipInv, LeavesOwner
  <2>. QED
    BY <2>1, <2>2, <2>3
<1>. QED
  BY <1>1, <1>4, <1>5, <1>7 DEF MembershipInv

\* A change writes its target's row if it is there still, and tells who has read it.
\* Unless it overtakes another change, an owner remains and the others are up to date.
LEMMA ChangeInv ==
    ASSUME MembershipInv, NEW q \in Requests, Write(q), WriteUpdate(q) \/ WriteRemove(q),
           raced' = (raced \/ Overtakes(q))
    PROVE  MembershipInv'
<1> DEFINE t == req[q].target
<1>0. /\ role \in [Users -> Role \cup {"none"}] /\ exists \in BOOLEAN /\ raced \in BOOLEAN
      /\ req[q] \in Request /\ t \in Users /\ req \in [Requests -> Request]
  BY DEF MembershipInv, MembershipTypeOK
<1>1. /\ Changing(q) /\ exists' = exists /\ req[q].seen # "none"
      /\ req[q].row = "live" => role[t] # "none"
  BY DEF Write, WriteUpdate, WriteRemove, MembershipInv, RowsKnown, Changing
<1>2. PICK S \in SUBSET {t} :
        /\ OthersGoOn(q, S) /\ req' \in [Requests -> Request]
        /\ \A u \in Users \ S : role[u] # "none" => role'[u] # "none"
  <2>1. CASE WriteUpdate(q)
    <3>1. req' = [req EXCEPT ![q] = Idle]
      BY <2>1 DEF WriteUpdate
    <3>2. \A u \in Users : role[u] # "none" => role'[u] # "none"
      BY <1>0, <2>1 DEF WriteUpdate
    <3>. QED
      BY <3>1, <3>2, EndsRequest
  <2>2. CASE WriteRemove(q) /\ req[q].row = "gone"
    <3>1. role' = role /\ req' = [req EXCEPT ![q] = Idle]
      BY <2>2 DEF WriteRemove
    <3>. QED
      BY <3>1, EndsRequest
  <2>3. CASE WriteRemove(q) /\ req[q].row # "gone"
    <3>1. RowsGone(q, {t}) /\ role' = [role EXCEPT ![t] = "none"]
      BY <2>3 DEF WriteRemove
    <3>2. \A u \in Users \ {t} : role'[u] = role[u]
      BY <1>0, <3>1
    <3>3. OthersGoOn(q, {t}) /\ req' \in [Requests -> Request]
      BY <3>1, EndsRequest
    <3>. HIDE DEF t
    <3>. QED
      BY <3>2, <3>3
  <2>. QED
    BY <2>1, <2>2, <2>3
<1>3. RowsKnown'
  BY <1>2, RowsStayKnown
<1>4. /\ role' \in [Users -> Role \cup {"none"}]
      /\ \A u \in Users \ {t} : role'[u] = role[u]
      /\ role'[t] # role[t] => role[t] # "none"
  BY <1>0, <1>1 DEF WriteUpdate, WriteRemove
<1>5. raced' \in BOOLEAN /\ (~raced' => ~raced /\ ~Overtakes(q))
  BY <1>0
<1>6. MembershipTypeOK'
  BY <1>0, <1>1, <1>2, <1>4, <1>5 DEF MembershipTypeOK
<1>7. NoOrphanRows'
  BY <1>1, <1>4 DEF NoOrphanRows, MembershipInv
<1>8. ASSUME ~raced' PROVE AlwaysOwned' /\ SeenIsCurrent' /\ LeavesOwner'
  <2>1. ~raced /\ \A p \in Requests \ {q} : Changing(p) =>
          /\ req[p].seen = "none" \/ req[p].target # t
          /\ req[p].stage = "counted" => ~(TakesOwner(p) /\ TakesOwner(q))
    BY <1>1, <1>5, <1>8 DEF Overtakes
  <2>2. exists => role[t] = req[q].seen
    BY <1>1, <2>1 DEF MembershipInv, SeenIsCurrent
  <2>3. exists /\ ~TakesOwner(q) => Owners \subseteq Owners'
    <3>1. exists /\ ~TakesOwner(q) /\ role[t] = "owner" => role'[t] = "owner"
      BY <1>0, <1>1, <2>2 DEF TakesOwner, Changing, WriteUpdate, WriteRemove
    <3>. QED
      BY <1>4, <3>1 DEF Owners
  <2>4. AlwaysOwned'
    <3>1. exists /\ TakesOwner(q) => Owners \ {t} # {}
      BY <2>1 DEF Write, MembershipInv, LeavesOwner
    <3>2. Owners \ {t} \subseteq Owners'
      BY <1>4 DEF Owners
    <3>. HIDE DEF t
    <3>. QED
      BY <1>1, <2>1, <2>3, <3>1, <3>2 DEF AlwaysOwned, MembershipInv
  <2>5. SeenIsCurrent'
    <3>. SUFFICES ASSUME exists, NEW p \in Requests, req'[p].kind \in {"update", "remove"},
                         req'[p].seen # "none"
                  PROVE  role'[req'[p].target] = req'[p].seen
      BY <1>1 DEF SeenIsCurrent, Changing
    <3>1. /\ p # q /\ req'[p].kind = req[p].kind /\ req'[p].target = req[p].target
          /\ req'[p].seen = req[p].seen
      BY <1>2, OthersKeepTheirs
    <3>2. /\ role[req[p].target] = req[p].seen /\ req[p].target \in Users
          /\ req[p].target # t
      BY <1>0, <2>1, <3>1 DEF MembershipInv, SeenIsCurrent, Changing
    <3>. QED
      BY <1>4, <3>1, <3>2
  <2>6. LeavesOwner'
    <3>. SUFFICES ASSUME exists, NEW p \in Requests, req'[p].stage = "counted", TakesOwner(p)'
                  PROVE  Owners' \ {req'[p].target} # {}
      BY <1>1 DEF LeavesOwner
    <3>1. /\ p # q /\ req'[p].stage = req[p].stage /\ req'[p].target = req[p].target
          /\ TakesOwner(p) /\ Changing(p)
      BY <1>2, OthersKeepTheirs DEF TakesOwner, Changing
    <3>2. ~TakesOwner(q)
      BY <2>1, <3>1
    <3>. QED
      BY <2>1, <2>3, <3>1, <3>2 DEF MembershipInv, LeavesOwner
  <2>. QED
    BY <2>4, <2>5, <2>6
<1>. QED
  BY <1>3, <1>6, <1>7, <1>8 DEF MembershipInv

\* The organization takes its rows along.
LEMMA DeleteInv ==
    ASSUME MembershipInv, NEW q \in Requests, WriteDelete(q),
           raced' = (raced \/ Overtakes(q))
    PROVE  MembershipInv'
<1>1. /\ exists' = FALSE /\ role' = [u \in Users |-> "none"] /\ RowsGone(q, Users)
      /\ raced \in BOOLEAN
  BY DEF WriteDelete, MembershipInv, MembershipTypeOK
<1>2. OthersGoOn(q, Users) /\ req' \in [Requests -> Request]
  BY <1>1, EndsRequest
<1>3. MembershipTypeOK' /\ NoOrphanRows'
  BY <1>1, <1>2 DEF MembershipTypeOK, NoOrphanRows
<1>4. RowsKnown'
  BY <1>2, RowsStayKnown
<1>5. AlwaysOwned' /\ SeenIsCurrent' /\ LeavesOwner'
  BY <1>1 DEF AlwaysOwned, SeenIsCurrent, LeavesOwner
<1>. QED
  BY <1>3, <1>4, <1>5 DEF MembershipInv

\* The invariant holds in every reachable state, for any users and requests, in
\* whatever order require_membership, get_membership, count_owners and the commits of
\* overlapping requests come.
THEOREM MembershipInvariance == MembershipSpec => []MembershipInv
<1>1. MembershipInv /\ [MembershipNext]_memberVars => MembershipInv'
  <2>. SUFFICES ASSUME MembershipInv, [MembershipNext]_memberVars PROVE MembershipInv'
    OBVIOUS
  <2>1. CASE UNCHANGED memberVars
    BY <2>1 DEF memberVars, MembershipInv, MembershipTypeOK, AlwaysOwned, NoOrphanRows,
        RowsKnown, SeenIsCurrent, LeavesOwner, Owners, Changing, TakesOwner, OnSelf
  <2>2. ASSUME NEW q \in Requests, Step(q) PROVE MembershipInv'
    <3>1. CASE Write(q) /\ raced' = (raced \/ Overtakes(q))
      BY <3>1, AddInv, ChangeInv, DeleteInv DEF Write
    <3>2. CASE ~(Write(q) /\ raced' = (raced \/ Overtakes(q)))
      BY <2>2, <3>2, ReadsInv DEF Step
    <3>. QED
      BY <3>1, <3>2
  <2>. QED
    BY <2>1, <2>2 DEF MembershipNext
<1>. QED
  BY <1>1, InitInv, PTL DEF MembershipSpec

\* An organization that exists has an owner, unless a change has written a membership
\* that another had read, or two have counted the owners that they both take away: the
\* check in update_member_role and remove_member has no other gap.
THEOREM OwnerRemains == MembershipSpec => []OwnedUnlessRaced
<1>1. MembershipInv => OwnedUnlessRaced
  BY DEF MembershipInv, OwnedUnlessRaced
<1>. QED
  BY <1>1, MembershipInvariance, PTL

\* Nobody is a member of an organization that is gone, however the requests overlap:
\* a row that is added meanwhile is refused or deleted with it, and a change that has
\* read a row finds it gone.
THEOREM NoOrphans == MembershipSpec => []NoOrphanRows
<1>1. MembershipInv => NoOrphanRows
  BY DEF MembershipInv
<1>. QED
  BY <1>1, MembershipInvariance, PTL
=============================================================================

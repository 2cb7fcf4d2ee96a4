--------------------------- MODULE WorkspaceMembers --------------------------
(***************************************************************************)
(* The members of one team workspace, its owner, and the personal          *)
(* integrations of its members, as concurrent requests change them.        *)
(*                                                                         *)
(* A request reads what it needs for its authorisation without a lock      *)
(* (Begin...), then runs one transaction of the database: it locks rows    *)
(* one after the other, waits for those that are held, judges again what   *)
(* it finds, and writes.  A transaction's writes are made at its commit;   *)
(* the locks it holds until then keep others from the rows it has written. *)
(*                                                                         *)
(* Left out: personal workspaces (every operation refuses them), the       *)
(* audit, the sending and the revocation of invitations, the deletion of   *)
(* a single integration, and the resources of triggers.                    *)
(***************************************************************************)
EXTENDS Integers

CONSTANTS
  Users,
  Founder,   \* the user who created the workspace
  Sessions,  \* connections to the database; each serves one request at a time
  NoUser,
  Workspace, \* the row of the workspace
  MaxCalls,  \* requests made (a bound)
  MaxRows    \* membership rows a user gets in turn (a bound)

ASSUME MembersAssumption ==
  /\ Founder \in Users /\ NoUser \notin Users
  /\ Workspace \notin Users
  /\ MaxCalls \in Nat /\ MaxRows \in Nat

VARIABLES
  ownerId,  \* workspace.ownerId; NoUser once the workspace is deleted
  role,     \* each user's workspace_member.role, "none" if there is no row
  rowId,    \* which of the user's membership rows that is, or was
  invited,  \* each user's invitation: none, pending or used
  integ,    \* the scope of the integration each user created
  call,     \* what each session's request asks for
  pc,       \* the statement it executes next
  held,     \* the row locks its transaction holds
  calls     \* the requests begun

data == <<ownerId, role, rowId, invited, integ>>
vars == <<data, call, pc, held, calls>>

Given == {"admin", "editor"}        \* the roles a request may give
Roles == Given \cup {"owner", "none"}
Admins == {"owner", "admin"}

\* Rows: the workspace, each user's membership and each user's invitation.
Membership(u) == <<"member", u>>
Invitation(u) == <<"invitation", u>>
Rows == {<<"workspace", Workspace>>} \cup ({"member", "invitation"} \X Users)
WsRow == <<"workspace", Workspace>>
Locks == Rows \X {"share", "update"}

Ops == {"setRole", "transfer", "remove", "leave", "delete", "add", "accept",
        "connect", "publish", "convert"}
\* by: the requester (their role as it was read); on: the user whose row or
\* integration it is about, and which of their rows; new: the role to give.
Call == [op : Ops, by : Users, was : Roles, on : Users, row : Nat, new : Given]
Label == {"idle", "role_lock", "role_save", "xfer_ws", "xfer_me", "xfer_to",
          "xfer_save", "rm_delete", "rm_purge", "lv_lock", "lv_owners",
          "lv_purge", "del_ws", "del_me", "del_rows", "add_insert",
          "ac_consume", "ac_member", "ac_insert", "in_ws", "in_member",
          "in_save"}

TypeOK ==
  /\ ownerId \in Users \cup {NoUser}
  /\ role \in [Users -> Roles] /\ rowId \in [Users -> Nat]
  /\ invited \in [Users -> {"none", "pending", "used"}]
  /\ integ \in [Users -> {"none", "personal", "organization"}]
  /\ call \in [Sessions -> Call] /\ pc \in [Sessions -> Label]
  /\ held \in [Sessions -> SUBSET Locks]
  /\ calls \in Nat

NoCall == [op |-> "leave", by |-> Founder, was |-> "none", on |-> Founder,
           row |-> 0, new |-> "editor"]

\* A workspace with its founder for owner and some members; everybody else is
\* invited.
Init ==
  /\ ownerId = Founder
  /\ role \in [Users -> Roles] /\ \A u \in Users : role[u] = "owner" <=> u = Founder
  /\ rowId = [u \in Users |-> IF role[u] = "none" THEN 0 ELSE 1]
  /\ invited = [u \in Users |-> IF role[u] = "none" THEN "pending" ELSE "none"]
  /\ integ = [u \in Users |-> "none"]
  /\ call = [s \in Sessions |-> NoCall] /\ pc = [s \in Sessions |-> "idle"]
  /\ held = [s \in Sessions |-> {}]
  /\ calls = 0
-------------------------------------------------------------------------------
(* Locks and transactions.                                                 *)

Conflict(l, k) == l[1] = k[1] /\ "update" \in {l[2], k[2]}

\* The sessions that hold a lock s cannot have its lock beside.
Blockers(s, lock) ==
  {t \in Sessions \ {s} : \E l \in held[t] : Conflict(l, lock)}

Granted(s, row, mode) == Blockers(s, <<row, mode>>) = {}

Goto(s, label) == pc' = [pc EXCEPT ![s] = label]

\* A statement locks a row and the transaction goes on.
Take(s, row, mode, label) ==
  /\ held' = [held EXCEPT ![s] = @ \cup {<<row, mode>>}]
  /\ Goto(s, label)

\* The request is over: its transaction, if any, was committed or rolled back.
End(s) ==
  /\ Goto(s, "idle")
  /\ held' = [held EXCEPT ![s] = {}]
  /\ call' = [call EXCEPT ![s] = NoCall]

Refuse(s) == End(s) /\ UNCHANGED <<data, calls>>

\* A request passes its authorisation.
Begin(s, c, label) ==
  /\ pc[s] = "idle" /\ calls < MaxCalls
  /\ calls' = calls + 1
  /\ call' = [call EXCEPT ![s] = c]
  /\ Goto(s, label)
  /\ UNCHANGED <<data, held>>

Asks(op, by, on, new) ==
  [op |-> op, by |-> by, was |-> role[by], on |-> on, row |-> rowId[on],
   new |-> new]

\* The membership row the request names is still there.
SameRow(c) == role[c.on] # "none" /\ rowId[c.on] = c.row

\* The rule of the admin role: only an owner gives it or takes it away.
MayChangeAdminRole(c, touched) == "admin" \in touched => c.was = "owner"
-------------------------------------------------------------------------------
(* updateMemberRole                                                        *)

\* Bug: the role of owner is not refused.
BeginSetAnyRole(s) == \E by, on \in Users, new \in Roles \ {"none"} :
  /\ role[by] \in Admins /\ role[on] # "none"
  /\ Begin(s, Asks("setRole", by, on, new), "role_lock")

BeginSetRole(s) == \E by, on \in Users, new \in Given :
  /\ role[by] \in Admins /\ role[on] # "none"
  /\ Begin(s, Asks("setRole", by, on, new), "role_lock")

\* Bug: the row is read without a lock.
RoleRead(s) ==
  /\ pc[s] = "role_lock"
  /\ LET c == call[s] IN
     \/ /\ SameRow(c) /\ role[c.on] # "owner"
        /\ MayChangeAdminRole(c, {role[c.on], c.new})
        /\ Goto(s, "role_save")
        /\ UNCHANGED <<data, held, call, calls>>
     \/ /\ \/ ~SameRow(c) \/ role[c.on] = "owner"
           \/ ~MayChangeAdminRole(c, {role[c.on], c.new})
        /\ Refuse(s)

\* The row is read under a lock and judged.
RoleLock(s) ==
  /\ pc[s] = "role_lock"
  /\ Granted(s, Membership(call[s].on), "update")
  /\ LET c == call[s] IN
     \/ /\ SameRow(c) /\ role[c.on] # "owner"
        /\ MayChangeAdminRole(c, {role[c.on], c.new})
        /\ Take(s, Membership(c.on), "update", "role_save")
        /\ UNCHANGED <<data, call, calls>>
     \/ /\ \/ ~SameRow(c) \/ role[c.on] = "owner"
           \/ ~MayChangeAdminRole(c, {role[c.on], c.new})
        /\ Refuse(s)

RoleSave(s) ==
  /\ pc[s] = "role_save"
  /\ role' = [role EXCEPT ![call[s].on] = call[s].new]
  /\ End(s)
  /\ UNCHANGED <<ownerId, rowId, invited, integ, calls>>
-------------------------------------------------------------------------------
(* transferOwnership: the workspace, the requester, the new owner.         *)

BeginTransfer(s) == \E by, on \in Users :
  /\ role[by] = "owner" /\ role[on] # "none"
  /\ Begin(s, Asks("transfer", by, on, "editor"), "xfer_ws")

TransferLockWorkspace(s) ==
  /\ pc[s] = "xfer_ws"
  /\ Granted(s, WsRow, "update")
  /\ \/ /\ ownerId # NoUser
        /\ Take(s, WsRow, "update", "xfer_me")
        /\ UNCHANGED <<data, call, calls>>
     \/ ownerId = NoUser /\ Refuse(s)

TransferLockRequester(s) ==
  /\ pc[s] = "xfer_me"
  /\ Granted(s, Membership(call[s].by), "update")
  /\ LET c == call[s] IN
     \/ /\ role[c.by] = "owner" /\ c.on # c.by
        /\ Take(s, Membership(c.by), "update", "xfer_to")
        /\ UNCHANGED <<data, call, calls>>
     \/ (role[c.by] # "owner" \/ c.on = c.by) /\ Refuse(s)

TransferLockTarget(s) ==
  /\ pc[s] = "xfer_to"
  /\ Granted(s, Membership(call[s].on), "update")
  /\ LET c == call[s] IN
     \/ /\ SameRow(c) /\ role[c.on] # "owner"
        /\ Take(s, Membership(c.on), "update", "xfer_save")
        /\ UNCHANGED <<data, call, calls>>
     \/ (~SameRow(c) \/ role[c.on] = "owner") /\ Refuse(s)

TransferSave(s) ==
  /\ pc[s] = "xfer_save"
  /\ role' = [role EXCEPT ![call[s].on] = "owner", ![call[s].by] = "admin"]
  /\ ownerId' = call[s].on
  /\ End(s)
  /\ UNCHANGED <<rowId, invited, integ, calls>>

Transfer(s) ==
  \/ TransferLockWorkspace(s) \/ TransferLockRequester(s)
  \/ TransferLockTarget(s) \/ TransferSave(s)
-------------------------------------------------------------------------------
(* removeMember and leaveWorkspace: the membership goes, and with it the   *)
(* member's personal integrations.                                         *)

BeginRemove(s) == \E by, on \in Users :
  /\ role[by] \in Admins /\ role[on] \notin {"none", "owner"} /\ on # by
  /\ Begin(s, Asks("remove", by, on, "editor"), "rm_delete")

\* Bug: the DELETE has no predicate on the role.
RemoveAnyRole(s) ==
  /\ pc[s] = "rm_delete"
  /\ Granted(s, Membership(call[s].on), "update")
  /\ SameRow(call[s])
  /\ Take(s, Membership(call[s].on), "update", "rm_purge")
  /\ UNCHANGED <<data, call, calls>>

\* DELETE ... WHERE role <> 'owner' waits for a held row and judges it anew.
RemoveDelete(s) ==
  /\ pc[s] = "rm_delete"
  /\ Granted(s, Membership(call[s].on), "update")
  /\ LET c == call[s] IN
     \/ /\ SameRow(c) /\ role[c.on] # "owner"
        /\ Take(s, Membership(c.on), "update", "rm_purge")
        /\ UNCHANGED <<data, call, calls>>
     \/ (~SameRow(c) \/ role[c.on] = "owner") /\ Refuse(s)

\* The purge is in the transaction of the membership's deletion.
Depart(s, u) ==
  /\ role' = [role EXCEPT ![u] = "none"]
  /\ integ' = [integ EXCEPT ![u] = IF @ = "personal" THEN "none" ELSE @]
  /\ End(s)
  /\ UNCHANGED <<ownerId, rowId, invited, calls>>

RemovePurge(s) == pc[s] = "rm_purge" /\ Depart(s, call[s].on)

\* removeMember of oneself is leaveWorkspace.
BeginLeave(s) == \E by \in Users :
  /\ role[by] # "none"
  /\ Begin(s, Asks("leave", by, by, "editor"), "lv_lock")

LeaveLock(s) ==
  /\ pc[s] = "lv_lock"
  /\ Granted(s, Membership(call[s].by), "update")
  /\ LET u == call[s].by IN
     \/ /\ role[u] # "none"
        /\ Take(s, Membership(u), "update",
                IF role[u] = "owner" THEN "lv_owners" ELSE "lv_purge")
        /\ UNCHANGED <<data, call, calls>>
     \/ role[u] = "none" /\ Refuse(s)

\* An owner locks the owners: the only one may not leave.
LeaveCountOwners(s) ==
  /\ pc[s] = "lv_owners"
  /\ LET owners == {u \in Users : role[u] = "owner"} IN
     /\ \A u \in owners : Granted(s, Membership(u), "update")
     /\ \/ /\ owners \subseteq {call[s].by} /\ Refuse(s)
        \/ /\ ~(owners \subseteq {call[s].by})
           /\ held' = [held EXCEPT ![s] =
                         @ \cup {<<Membership(u), "update">> : u \in owners}]
           /\ Goto(s, "lv_purge")
           /\ UNCHANGED <<data, call, calls>>

LeavePurge(s) == pc[s] = "lv_purge" /\ Depart(s, call[s].by)
-------------------------------------------------------------------------------
(* deleteWorkspace                                                         *)

BeginDelete(s) == \E by \in Users :
  /\ role[by] = "owner"
  /\ Begin(s, Asks("delete", by, by, "editor"), "del_ws")

DeleteLockWorkspace(s) ==
  /\ pc[s] = "del_ws"
  /\ Granted(s, WsRow, "update")
  /\ \/ /\ ownerId # NoUser
        /\ Take(s, WsRow, "update", "del_me")
        /\ UNCHANGED <<data, call, calls>>
     \/ ownerId = NoUser /\ Refuse(s)

DeleteLockRequester(s) ==
  /\ pc[s] = "del_me"
  /\ Granted(s, Membership(call[s].by), "update")
  /\ \/ /\ role[call[s].by] = "owner"
        /\ Take(s, Membership(call[s].by), "update", "del_rows")
        /\ UNCHANGED <<data, call, calls>>
     \/ role[call[s].by] # "owner" /\ Refuse(s)

Invitations == {u \in Users : invited[u] # "none"}
Members == {u \in Users : role[u] # "none"}

Owns(s, row) == <<row, "update">> \in held[s]

\* What the DELETE under way still has to lock: the invitations come first.
Undeleted(s) ==
  LET left == {Invitation(u) : u \in Invitations}
              \ {r \in Rows : Owns(s, r)}
  IN IF left # {} THEN left
     ELSE {Membership(u) : u \in Members} \ {r \in Rows : Owns(s, r)}

DeleteRow(s) == pc[s] = "del_rows" /\ \E r \in Undeleted(s) :
  /\ Granted(s, r, "update")
  /\ Take(s, r, "update", "del_rows")
  /\ UNCHANGED <<data, call, calls>>

\* The workspace goes and takes its integrations along.
DeleteCommit(s) ==
  /\ pc[s] = "del_rows" /\ Undeleted(s) = {}
  /\ ownerId' = NoUser
  /\ role' = [u \in Users |-> "none"]
  /\ invited' = [u \in Users |-> "none"]
  /\ integ' = [u \in Users |-> "none"]
  /\ End(s)
  /\ UNCHANGED <<rowId, calls>>
-------------------------------------------------------------------------------
(* New members: addMemberByEmail, and an invitation that is accepted.      *)

\* A row of workspace_member: its foreign key locks the workspace's row, and
\* a user has no more than one.
Insert(s, u, newRole) ==
  /\ role[u] = "none" /\ ownerId # NoUser /\ rowId[u] < MaxRows
  /\ role' = [role EXCEPT ![u] = newRole]
  /\ rowId' = [rowId EXCEPT ![u] = @ + 1]
  /\ End(s)

BeginAdd(s) == \E by, on \in Users, new \in Given :
  /\ role[by] \in Admins /\ role[on] = "none"
  /\ MayChangeAdminRole(Asks("add", by, on, new), {new})
  /\ Begin(s, Asks("add", by, on, new), "add_insert")

AddInsert(s) ==
  /\ pc[s] = "add_insert"
  /\ Granted(s, WsRow, "share")
  /\ \/ Insert(s, call[s].on, call[s].new) /\ UNCHANGED <<ownerId, invited, integ, calls>>
     \/ (role[call[s].on] # "none" \/ ownerId = NoUser) /\ Refuse(s)

BeginAccept(s) == \E on \in Users, new \in Given :
  /\ invited[on] = "pending"
  /\ Begin(s, Asks("accept", on, on, new), "ac_consume")

\* UPDATE ... WHERE accepted_at IS NULL
AcceptConsume(s) ==
  /\ pc[s] = "ac_consume"
  /\ Granted(s, Invitation(call[s].on), "update")
  /\ \/ /\ invited[call[s].on] = "pending"
        /\ Take(s, Invitation(call[s].on), "update", "ac_member")
        /\ UNCHANGED <<data, call, calls>>
     \/ invited[call[s].on] # "pending" /\ Refuse(s)

\* An invited user who is a member already keeps their role.
AcceptFindMember(s) ==
  /\ pc[s] = "ac_member"
  /\ \/ /\ role[call[s].on] = "none"
        /\ Goto(s, "ac_insert")
        /\ UNCHANGED <<data, call, held, calls>>
     \/ /\ role[call[s].on] # "none"
        /\ invited' = [invited EXCEPT ![call[s].on] = "used"]
        /\ End(s)
        /\ UNCHANGED <<ownerId, role, rowId, integ, calls>>

\* Bug: an insertion that fails for another row of the user is tried again.
AcceptInsertRetries(s) ==
  /\ pc[s] = "ac_insert"
  /\ Granted(s, WsRow, "share")
  /\ \/ /\ Insert(s, call[s].on, call[s].new)
        /\ invited' = [invited EXCEPT ![call[s].on] = "used"]
        /\ UNCHANGED <<ownerId, integ, calls>>
     \/ ownerId = NoUser /\ Refuse(s)

AcceptInsert(s) ==
  /\ pc[s] = "ac_insert"
  /\ Granted(s, WsRow, "share")
  /\ \/ /\ Insert(s, call[s].on, call[s].new)
        /\ invited' = [invited EXCEPT ![call[s].on] = "used"]
        /\ UNCHANGED <<ownerId, integ, calls>>
     \/ (role[call[s].on] # "none" \/ ownerId = NoUser) /\ Refuse(s)
-------------------------------------------------------------------------------
(* Writes of integrations, behind lockForIntegrationWrite: a member makes  *)
(* a personal or an organization integration (connect, publish); an admin  *)
(* turns an organization integration into its creator's personal one.      *)

BeginWrite(s) == \E by, on \in Users :
  \/ /\ role[by] # "none" /\ integ[by] = "none"
     /\ \E op \in {"connect", "publish"} :
           Begin(s, Asks(op, by, by, "editor"), "in_ws")
  \/ /\ role[by] \in Admins /\ integ[on] = "organization"
     /\ Begin(s, Asks("convert", by, on, "editor"), "in_ws")

\* Bug: the workspace is read without a lock.
WriteReadWorkspace(s) ==
  /\ pc[s] = "in_ws"
  /\ \/ /\ ownerId # NoUser
        /\ Goto(s, IF call[s].op = "publish" THEN "in_save" ELSE "in_member")
        /\ UNCHANGED <<data, held, call, calls>>
     \/ ownerId = NoUser /\ Refuse(s)

WriteLockWorkspace(s) ==
  /\ pc[s] = "in_ws"
  /\ Granted(s, WsRow, "share")
  /\ \/ /\ ownerId # NoUser
        /\ Take(s, WsRow, "share",
                IF call[s].op = "publish" THEN "in_save" ELSE "in_member")
        /\ UNCHANGED <<data, call, calls>>
     \/ ownerId = NoUser /\ Refuse(s)

\* Bug: the membership is read without a lock.
WriteReadMember(s) ==
  /\ pc[s] = "in_member"
  /\ role[call[s].on] # "none"
  /\ Goto(s, "in_save")
  /\ UNCHANGED <<data, call, held, calls>>

WriteLockMember(s) ==
  /\ pc[s] = "in_member"
  /\ Granted(s, Membership(call[s].on), "share")
  /\ \/ /\ role[call[s].on] # "none"
        /\ Take(s, Membership(call[s].on), "share", "in_save")
        /\ UNCHANGED <<data, call, calls>>
     \/ role[call[s].on] = "none" /\ Refuse(s)

\* What the request found when it began must still be there.  The foreign key
\* of a new row locks the workspace's row.
WriteSave(s) ==
  /\ pc[s] = "in_save"
  /\ LET c == call[s]
         from == IF c.op = "convert" THEN "organization" ELSE "none"
         to == IF c.op = "publish" THEN "organization" ELSE "personal"
     IN /\ c.op # "convert" => Granted(s, WsRow, "share")
        /\ \/ /\ integ[c.on] = from /\ ownerId # NoUser
              /\ integ' = [integ EXCEPT ![c.on] = to]
              /\ End(s)
              /\ UNCHANGED <<ownerId, role, rowId, invited, calls>>
           \/ (integ[c.on] # from \/ ownerId = NoUser) /\ Refuse(s)

\* updateScope to organization: one conditional UPDATE, and the only
\* personal integrations an admin sees are their own.
ShareIntegration(u) ==
  /\ role[u] \in Admins /\ integ[u] = "personal"
  /\ integ' = [integ EXCEPT ![u] = "organization"]
  /\ UNCHANGED <<ownerId, role, rowId, invited, call, pc, held, calls>>
-------------------------------------------------------------------------------
(* Failures.  A transaction that does not commit leaves no trace.          *)

\* The locks a session waits for.
Wanted(s) ==
  LET c == call[s] IN
  CASE pc[s] \in {"xfer_ws", "del_ws"} -> {<<WsRow, "update">>}
    [] pc[s] \in {"in_ws", "add_insert", "ac_insert"} -> {<<WsRow, "share">>}
    [] pc[s] \in {"xfer_me", "del_me", "lv_lock"} -> {<<Membership(c.by), "update">>}
    [] pc[s] \in {"role_lock", "xfer_to", "rm_delete"} -> {<<Membership(c.on), "update">>}
    [] pc[s] = "in_save" -> IF c.op = "convert" THEN {} ELSE {<<WsRow, "share">>}
    [] pc[s] = "in_member" -> {<<Membership(c.on), "share">>}
    [] pc[s] = "ac_consume" -> {<<Invitation(c.on), "update">>}
    [] pc[s] = "lv_owners" -> {<<Membership(u), "update">> : u \in
                                 {v \in Users : role[v] = "owner"}}
    [] pc[s] = "del_rows" -> Undeleted(s) \X {"update"}
    [] OTHER -> {}

\* It can only wait.  A DELETE of many rows goes on while it finds a free one.
Waits(s) ==
  /\ Wanted(s) # {}
  /\ \/ pc[s] = "del_rows" /\ \A l \in Wanted(s) : Blockers(s, l) # {}
     \/ pc[s] # "del_rows" /\ \E l \in Wanted(s) : Blockers(s, l) # {}

\* A set of sessions each of which waits for another of the set.
Deadlocked(S) ==
  /\ S # {}
  /\ \A s \in S : Waits(s) /\ \E l \in Wanted(s) : Blockers(s, l) \cap S # {}

\* Departures and deletions set a limit to their waiting.
LockTimeout(s) ==
  /\ call[s].op \in {"remove", "leave", "delete"} /\ Waits(s)
  /\ Refuse(s)

\* The database ends one transaction of a deadlock.
DeadlockVictim(s) ==
  /\ \E S \in SUBSET Sessions : s \in S /\ Deadlocked(S)
  /\ Refuse(s)

\* The server dies, or its connection does.
Disconnect(s) == pc[s] # "idle" /\ Refuse(s)
-------------------------------------------------------------------------------
BeginAny(s) ==
  \/ BeginSetRole(s) \/ BeginTransfer(s) \/ BeginRemove(s) \/ BeginLeave(s)
  \/ BeginDelete(s) \/ BeginAdd(s) \/ BeginAccept(s) \/ BeginWrite(s)

Statement(s) ==
  \/ RoleLock(s) \/ RoleSave(s)
  \/ Transfer(s)
  \/ RemoveDelete(s) \/ RemovePurge(s)
  \/ LeaveLock(s) \/ LeaveCountOwners(s) \/ LeavePurge(s)
  \/ DeleteLockWorkspace(s) \/ DeleteLockRequester(s) \/ DeleteRow(s)
  \/ DeleteCommit(s)
  \/ AddInsert(s)
  \/ AcceptConsume(s) \/ AcceptFindMember(s) \/ AcceptInsert(s)
  \/ WriteLockWorkspace(s) \/ WriteLockMember(s) \/ WriteSave(s)

Next ==
  \/ \E s \in Sessions :
       BeginAny(s) \/ Statement(s) \/ LockTimeout(s) \/ DeadlockVictim(s)
       \/ Disconnect(s)
  \/ \E u \in Users : ShareIntegration(u)

Spec == Init /\ [][Next]_vars

\* A request does not stay where it is for ever: what it can execute it
\* executes, and the database ends its deadlocks.
Fairness == \A s \in Sessions :
  WF_vars(Statement(s) \/ LockTimeout(s) \/ DeadlockVictim(s))

FairSpec == Spec /\ Fairness
-------------------------------------------------------------------------------
(* Properties.                                                             *)

\* The workspace has exactly one owner while it exists, the one its row
\* names, and afterwards no members: a transfer, a removal, a departure and a
\* change of role that overlap never leave it without an owner or with two.
OneOwner ==
  /\ \A u \in Users : role[u] = "owner" <=> u = ownerId
  /\ ownerId = NoUser => \A u \in Users : role[u] = "none"

\* A personal integration has a member for its creator: none survives the
\* departure of its creator, not even one that was being connected meanwhile.
PersonalHasMember ==
  \A u \in Users : integ[u] = "personal" => role[u] # "none"

\* Requests that wait for each other in a circle include an acceptance of an
\* invitation: all others lock the workspace, then members, in one order.
OrderedLocks ==
  \A S \in SUBSET Sessions :
     Deadlocked(S) => \E s \in S : call[s].op = "accept"

\* A member's admin role is taken away only by a request of someone who was
\* an owner, or with the membership: no stale save of another admin undoes
\* the promotion an owner has just made.
AdminTakenByOwner ==
  [][\A u \in Users :
       role[u] = "admin" /\ role'[u] = "editor" =>
         \E s \in Sessions : pc[s] # "idle" /\ pc'[s] = "idle" /\ call[s].was = "owner"]_vars

\* Every request ends: its locks are released in time and it is not left
\* waiting for another's.
CallsEnd == \A s \in Sessions : pc[s] # "idle" ~> pc[s] = "idle"
==============================================================================

------------------------ MODULE WorkspaceMembers_proof -----------------------
(***************************************************************************)
(* Proofs about WorkspaceMembers, for any users, sessions and bounds.      *)
(*                                                                         *)
(* The invariants hold because what a request found out under a lock is    *)
(* still true at its commit (Judged), and that is so because nobody else   *)
(* changes a row somebody has locked (Exclusive).  At the end: nobody but  *)
(* an acceptance waits in a circle, for the locks have an order (Ordered). *)
(***************************************************************************)
EXTENDS WorkspaceMembers, TLAPS

\* Two transactions never hold conflicting locks.
Exclusive ==
  \A s, t \in Sessions : s # t =>
    \A l \in held[s], k \in held[t] : ~Conflict(l, k)

Locked(s, u) == Owns(s, Membership(u))
IsOther(u) == role[u] \in Given  \* a member who is not an owner

\* What the request of s has found out, and the lock that keeps it true.
Judged(s) ==
  LET c == call[s] IN
  /\ pc[s] \in {"xfer_me", "xfer_to", "xfer_save", "del_me", "del_rows"}
       => Owns(s, WsRow) /\ ownerId # NoUser
  /\ pc[s] \in {"xfer_to", "xfer_save"}
       => Locked(s, c.by) /\ role[c.by] = "owner" /\ c.on # c.by
  /\ pc[s] = "lv_owners" => Locked(s, c.by) /\ role[c.by] = "owner"
  /\ pc[s] = "lv_purge" => Locked(s, c.by) /\ IsOther(c.by)
  /\ pc[s] \in {"role_save", "xfer_save", "rm_purge"}
       => Locked(s, c.on) /\ IsOther(c.on)
  /\ (pc[s] = "in_save" /\ c.op # "publish")
       => <<Membership(c.on), "share">> \in held[s] /\ role[c.on] # "none"
  /\ pc[s] = "role_save" /\ role[c.on] = "admin" => c.was = "owner"

IInv ==
  /\ TypeOK /\ OneOwner /\ PersonalHasMember /\ Exclusive
  /\ \A s \in Sessions : Judged(s)

\* Nobody but s has moved, and only rows s had locked have changed; a user
\* without a row may have got one, and the workspace may have a new owner.
OnlyOwnRows(s) ==
  /\ \A t \in Sessions \ {s} :
       pc'[t] = pc[t] /\ call'[t] = call[t] /\ held'[t] = held[t]
  /\ \A u \in Users : role'[u] # role[u] => Locked(s, u) \/ role[u] = "none"
  /\ ownerId' = NoUser /\ ownerId # NoUser => Owns(s, WsRow)
-------------------------------------------------------------------------------
\* The rows are distinct and they are rows.
LEMMA RowFacts ==
  /\ WsRow \in Rows
  /\ \A u \in Users : Membership(u) \in Rows /\ Invitation(u) \in Rows
  /\ \A u, v \in Users : Membership(u) = Membership(v) => u = v
BY DEF WsRow, Rows, Membership, Invitation

\* No two transactions own the same row, and none shares a row another owns.
LEMMA OneOwnerOfRow ==
  ASSUME Exclusive, NEW s \in Sessions, NEW t \in Sessions, s # t,
         NEW row, Owns(s, row)
  PROVE  ~Owns(t, row) /\ <<row, "share">> \notin held[t]
BY DEF Exclusive, Owns, Conflict

\* What the others have found out stays true when s moves.
LEMMA OthersJudged ==
  ASSUME IInv, NEW s \in Sessions, OnlyOwnRows(s),
         NEW t \in Sessions, t # s
  PROVE  Judged(t)'
<1> USE DEF IInv
<1>1. Judged(t) /\ pc'[t] = pc[t] /\ call'[t] = call[t] /\ held'[t] = held[t]
  BY DEF OnlyOwnRows
<1>2. call[t].by \in Users /\ call[t].on \in Users
  BY DEF TypeOK, Call
<1>3. ASSUME NEW u \in Users, role[u] # "none",
             Locked(t, u) \/ <<Membership(u), "share">> \in held[t]
      PROVE  role'[u] = role[u]
  BY <1>3, OneOwnerOfRow DEF OnlyOwnRows, Locked
<1>4. Owns(t, WsRow) /\ ownerId # NoUser => ownerId' # NoUser
  BY OneOwnerOfRow DEF OnlyOwnRows
<1>5. \A row : Owns(t, row)' <=> Owns(t, row)
  BY <1>1 DEF Owns
<1>6. \A u : Locked(t, u)' <=> Locked(t, u)
  BY <1>5 DEF Locked, Membership
<1>7. \A u \in Users : IsOther(u) => role[u] # "none"
  BY DEF IsOther, Given
<1>a. (pc[t] \in {"xfer_me", "xfer_to", "xfer_save", "del_me", "del_rows"}
        => Owns(t, WsRow) /\ ownerId # NoUser)'
  BY <1>1, <1>4, <1>5 DEF Judged, WsRow
<1>b. (pc[t] \in {"xfer_to", "xfer_save"}
        => Locked(t, call[t].by) /\ role[call[t].by] = "owner" /\ call[t].on # call[t].by)'
  BY <1>1, <1>2, <1>3, <1>6 DEF Judged
<1>c. (pc[t] = "lv_owners" => Locked(t, call[t].by) /\ role[call[t].by] = "owner")'
  BY <1>1, <1>2, <1>3, <1>6 DEF Judged
<1>d. (pc[t] = "lv_purge" => Locked(t, call[t].by) /\ IsOther(call[t].by))'
  BY <1>1, <1>2, <1>3, <1>6, <1>7 DEF Judged, IsOther
<1>e. (pc[t] \in {"role_save", "xfer_save", "rm_purge"}
        => Locked(t, call[t].on) /\ IsOther(call[t].on))'
  BY <1>1, <1>2, <1>3, <1>6, <1>7 DEF Judged, IsOther
<1>f. ((pc[t] = "in_save" /\ call[t].op # "publish")
        => <<Membership(call[t].on), "share">> \in held[t] /\ role[call[t].on] # "none")'
  BY <1>1, <1>2, <1>3 DEF Judged, Membership
<1>g. (pc[t] = "role_save" /\ role[call[t].on] = "admin" => call[t].was = "owner")'
  BY <1>1, <1>2, <1>3, <1>7 DEF Judged
<1> QED BY <1>a, <1>b, <1>c, <1>d, <1>e, <1>f, <1>g DEF Judged
-------------------------------------------------------------------------------
(* The three ways a session moves.                                         *)

\* A statement that locks a row that is free keeps the locks exclusive.
LEMMA TakeKeeps ==
  ASSUME IInv, NEW s \in Sessions, NEW row \in Rows,
         NEW mode \in {"share", "update"}, NEW label \in Label,
         Granted(s, row, mode), Take(s, row, mode, label),
         UNCHANGED <<data, call, calls>>
  PROVE  /\ TypeOK' /\ OneOwner' /\ PersonalHasMember' /\ Exclusive'
         /\ OnlyOwnRows(s)
         /\ pc'[s] = label /\ call' = call
         /\ held'[s] = held[s] \cup {<<row, mode>>}
<1> USE DEF IInv
<1>1. held \in [Sessions -> SUBSET Locks] /\ pc \in [Sessions -> Label]
      /\ <<row, mode>> \in Locks
  BY DEF TypeOK, Locks
<1>2. /\ held' = [held EXCEPT ![s] = @ \cup {<<row, mode>>}]
      /\ pc' = [pc EXCEPT ![s] = label]
  BY DEF Take, Goto
<1>3. /\ held'[s] = held[s] \cup {<<row, mode>>} /\ pc'[s] = label
      /\ \A t \in Sessions \ {s} : held'[t] = held[t] /\ pc'[t] = pc[t]
      /\ held' \in [Sessions -> SUBSET Locks] /\ pc' \in [Sessions -> Label]
  BY <1>1, <1>2
<1>4. TypeOK' /\ OneOwner' /\ PersonalHasMember'
  BY <1>3 DEF TypeOK, OneOwner, PersonalHasMember, data
<1>5. OnlyOwnRows(s)
  BY <1>3 DEF OnlyOwnRows, data
<1>6. \A t \in Sessions \ {s} : \A l \in held[t] :
        ~Conflict(l, <<row, mode>>) /\ ~Conflict(<<row, mode>>, l)
  BY DEF Granted, Blockers, Conflict
<1>7. Exclusive'
  <2>1. SUFFICES ASSUME NEW a \in Sessions, NEW b \in Sessions, a # b,
                        NEW l \in held'[a], NEW k \in held'[b]
                 PROVE  ~Conflict(l, k)
    BY DEF Exclusive, Conflict
  <2>2. CASE a = s
    BY <1>3, <1>6, <2>1, <2>2 DEF Exclusive
  <2>3. CASE b = s
    BY <1>3, <1>6, <2>1, <2>3 DEF Exclusive
  <2>4. CASE a # s /\ b # s
    BY <1>3, <2>1, <2>4 DEF Exclusive
  <2> QED BY <2>2, <2>3, <2>4
<1> QED BY <1>3, <1>4, <1>5, <1>7 DEF data

\* A session that ends knows nothing and holds nothing.
LEMMA EndKeeps ==
  ASSUME IInv, NEW s \in Sessions, End(s)
  PROVE  /\ call' \in [Sessions -> Call] /\ pc' \in [Sessions -> Label]
         /\ held' \in [Sessions -> SUBSET Locks]
         /\ Exclusive' /\ Judged(s)'
         /\ \A t \in Sessions \ {s} :
              pc'[t] = pc[t] /\ call'[t] = call[t] /\ held'[t] = held[t]
<1> USE DEF IInv
<1>1. NoCall \in Call
  BY MembersAssumption DEF NoCall, Call, Ops, Roles, Given
<1>2. /\ pc \in [Sessions -> Label] /\ call \in [Sessions -> Call]
      /\ held \in [Sessions -> SUBSET Locks]
  BY DEF TypeOK
<1>3. /\ pc' = [pc EXCEPT ![s] = "idle"] /\ call' = [call EXCEPT ![s] = NoCall]
      /\ held' = [held EXCEPT ![s] = {}]
  BY DEF End, Goto
<1>4. /\ pc' \in [Sessions -> Label] /\ call' \in [Sessions -> Call]
      /\ held' \in [Sessions -> SUBSET Locks]
      /\ pc'[s] = "idle" /\ held'[s] = {}
      /\ \A t \in Sessions \ {s} :
           pc'[t] = pc[t] /\ call'[t] = call[t] /\ held'[t] = held[t]
  BY <1>1, <1>2, <1>3 DEF Label
<1>5. Exclusive'
  BY <1>4 DEF Exclusive, Conflict
<1>6. Judged(s)'
  BY <1>4 DEF Judged
<1> QED BY <1>4, <1>5, <1>6

\* A request that is refused changes nothing.
LEMMA RefuseKeeps ==
  ASSUME IInv, NEW s \in Sessions, Refuse(s)
  PROVE  IInv'
<1>1. End(s) /\ UNCHANGED <<data, calls>>
  BY DEF Refuse
<1>2. TypeOK' /\ OneOwner' /\ PersonalHasMember'
  BY <1>1, EndKeeps DEF IInv, TypeOK, OneOwner, PersonalHasMember, data
<1>3. OnlyOwnRows(s)
  BY <1>1, EndKeeps DEF OnlyOwnRows, data
<1> QED BY <1>1, <1>2, <1>3, EndKeeps, OthersJudged DEF IInv

\* A request that commits with new rows that satisfy the invariants.
LEMMA CommitKeeps ==
  ASSUME IInv, NEW s \in Sessions, End(s), UNCHANGED calls,
         /\ ownerId' \in Users \cup {NoUser}
         /\ role' \in [Users -> Roles] /\ rowId' \in [Users -> Nat]
         /\ invited' \in [Users -> {"none", "pending", "used"}]
         /\ integ' \in [Users -> {"none", "personal", "organization"}],
         OneOwner', PersonalHasMember',
         \A u \in Users : role'[u] # role[u] => Locked(s, u) \/ role[u] = "none",
         ownerId' = NoUser /\ ownerId # NoUser => Owns(s, WsRow)
  PROVE  IInv'
<1>1. TypeOK'
  BY EndKeeps DEF IInv, TypeOK
<1>2. OnlyOwnRows(s)
  BY EndKeeps DEF OnlyOwnRows
<1> QED BY <1>1, <1>2, EndKeeps, OthersJudged DEF IInv

\* A request begins: it has found out nothing yet that must stay true.
LEMMA BeginKeeps ==
  ASSUME IInv, NEW s \in Sessions, NEW c \in Call,
         NEW label \in {"role_lock", "xfer_ws", "rm_delete", "lv_lock", "del_ws",
                        "add_insert", "ac_consume", "in_ws"},
         Begin(s, c, label)
  PROVE  IInv'
<1> USE DEF IInv
<1>1. /\ pc \in [Sessions -> Label] /\ call \in [Sessions -> Call]
      /\ pc' = [pc EXCEPT ![s] = label] /\ call' = [call EXCEPT ![s] = c]
      /\ UNCHANGED <<data, held>> /\ calls \in Nat /\ calls' = calls + 1
      /\ label \in Label
  BY DEF Begin, Goto, TypeOK, Label
<1>2. TypeOK' /\ OneOwner' /\ PersonalHasMember' /\ Exclusive'
  <2>1. pc' \in [Sessions -> Label] /\ call' \in [Sessions -> Call] /\ calls' \in Nat
    BY <1>1
  <2> QED BY <1>1, <2>1 DEF TypeOK, OneOwner, PersonalHasMember, Exclusive, Conflict, data
<1>3. OnlyOwnRows(s)
  BY <1>1 DEF OnlyOwnRows, data
<1>4. Judged(s)'
  <2>1. pc'[s] = label
    BY <1>1
  <2> QED BY <2>1 DEF Judged
<1> QED BY <1>2, <1>3, <1>4, OthersJudged

\* A statement locks a row and leads to what s has found out.
LEMMA TakeLeads ==
  ASSUME IInv, NEW s \in Sessions, NEW row \in Rows,
         NEW mode \in {"share", "update"}, NEW label \in Label,
         Granted(s, row, mode), Take(s, row, mode, label),
         UNCHANGED <<data, call, calls>>, Judged(s)'
  PROVE  IInv'
BY TakeKeeps, OthersJudged DEF IInv
-------------------------------------------------------------------------------
(* What s has found out, in the state after it took a lock.                *)

LEMMA TakeOwns ==
  ASSUME IInv, NEW s \in Sessions, NEW row \in Rows, NEW label \in Label,
         NEW mode \in {"share", "update"},
         Granted(s, row, mode), Take(s, row, mode, label),
         UNCHANGED <<data, call, calls>>
  PROVE  /\ pc'[s] = label /\ call'[s] = call[s]
         /\ role' = role /\ ownerId' = ownerId
         /\ mode = "update" => Owns(s, row)'
         /\ <<row, mode>> \in held'[s]
         /\ \A r : Owns(s, r) => Owns(s, r)'
BY TakeKeeps DEF Owns, data

\* Type facts of a request.
LEMMA CallFacts ==
  ASSUME IInv, NEW s \in Sessions
  PROVE  /\ call[s] \in Call
         /\ call[s].by \in Users /\ call[s].on \in Users /\ call[s].new \in Given
         /\ Membership(call[s].by) \in Rows /\ Membership(call[s].on) \in Rows
         /\ Invitation(call[s].on) \in Rows /\ WsRow \in Rows
         /\ role[call[s].by] \in Roles /\ role[call[s].on] \in Roles
         /\ \A op \in Ops, by, on \in Users, new \in Given : Asks(op, by, on, new) \in Call
<1>1. call[s] \in Call
  BY DEF IInv, TypeOK
<1>2. call[s].by \in Users /\ call[s].on \in Users /\ call[s].new \in Given
  BY <1>1 DEF Call
<1>3. \A op \in Ops, by, on \in Users, new \in Given : Asks(op, by, on, new) \in Call
  BY DEF Asks, Call, IInv, TypeOK
<1> QED BY <1>1, <1>2, <1>3, RowFacts DEF IInv, TypeOK
-------------------------------------------------------------------------------
(* One lemma per kind of request.                                          *)

LEMMA Begins ==
  ASSUME IInv, NEW s \in Sessions, BeginAny(s)
  PROVE  IInv'
<1>1. \A by \in Users : \A on \in Users, new \in Given, op \in Ops :
        Asks(op, by, on, new) \in Call
  BY CallFacts
<1>2. CASE BeginSetRole(s)
  BY <1>1, <1>2, BeginKeeps DEF BeginSetRole, Ops
<1>3. CASE BeginTransfer(s)
  BY <1>1, <1>3, BeginKeeps DEF BeginTransfer, Ops, Given
<1>4. CASE BeginRemove(s)
  BY <1>1, <1>4, BeginKeeps DEF BeginRemove, Ops, Given
<1>5. CASE BeginLeave(s)
  BY <1>1, <1>5, BeginKeeps DEF BeginLeave, Ops, Given
<1>6. CASE BeginDelete(s)
  BY <1>1, <1>6, BeginKeeps DEF BeginDelete, Ops, Given
<1>7. CASE BeginAdd(s)
  BY <1>1, <1>7, BeginKeeps DEF BeginAdd, Ops
<1>8. CASE BeginAccept(s)
  BY <1>1, <1>8, BeginKeeps DEF BeginAccept, Ops
<1>9. CASE BeginWrite(s)
  <2>1. PICK by \in Users, on \in Users, op \in {"connect", "publish", "convert"} :
          \/ Begin(s, Asks(op, by, by, "editor"), "in_ws")
          \/ Begin(s, Asks(op, by, on, "editor"), "in_ws")
    BY <1>9 DEF BeginWrite
  <2> QED BY <1>1, <2>1, BeginKeeps DEF Ops, Given
<1> QED BY <1>2, <1>3, <1>4, <1>5, <1>6, <1>7, <1>8, <1>9 DEF BeginAny

\* updateMemberRole
LEMMA SetsRole ==
  ASSUME IInv, NEW s \in Sessions, RoleLock(s) \/ RoleSave(s)
  PROVE  IInv'
<1> DEFINE c == call[s]
<1>1. CASE RoleLock(s)
  <2>1. CASE Refuse(s)
    BY <2>1, RefuseKeeps
  <2>2. CASE /\ role[c.on] # "none" /\ role[c.on] # "owner"
             /\ Granted(s, Membership(c.on), "update")
             /\ MayChangeAdminRole(c, {role[c.on], c.new})
             /\ Take(s, Membership(c.on), "update", "role_save")
             /\ UNCHANGED <<data, call, calls>>
    <3>0. role[c.on] = "admin" => c.was = "owner"
      BY <2>2 DEF MayChangeAdminRole
    <3>1. "role_save" \in Label /\ IsOther(c.on)
      BY <2>2, CallFacts DEF Label, IsOther, Roles
    <3>2. /\ pc'[s] = "role_save" /\ call'[s] = call[s] /\ role' = role
          /\ Owns(s, Membership(c.on))'
      BY <2>2, <3>1, TakeOwns, CallFacts
    <3>3. Judged(s)'
      BY <3>0, <3>1, <3>2 DEF Judged, Locked, IsOther, Membership
    <3> QED BY <2>2, <3>1, <3>3, TakeLeads, CallFacts
  <2> QED BY <1>1, <2>1, <2>2 DEF RoleLock, SameRow
<1>2. CASE RoleSave(s)
  <2>1. Locked(s, c.on) /\ role[c.on] \in Given /\ c.on \in Users /\ c.new \in Given
    BY <1>2, CallFacts DEF RoleSave, IInv, Judged, IsOther
  <2>2. /\ role' = [role EXCEPT ![c.on] = c.new] /\ End(s)
        /\ UNCHANGED <<ownerId, rowId, invited, integ, calls>>
    BY <1>2 DEF RoleSave
  <2>3. role' \in [Users -> Roles]
        /\ \A u \in Users : role'[u] = IF u = c.on THEN c.new ELSE role[u]
    BY <2>1, <2>2 DEF IInv, TypeOK, Roles
  <2>4. OneOwner' /\ PersonalHasMember'
    BY <2>1, <2>2, <2>3 DEF IInv, OneOwner, PersonalHasMember, Given
  <2> QED BY <2>1, <2>2, <2>3, <2>4, CommitKeeps DEF IInv, TypeOK
<1> QED BY <1>1, <1>2

\* transferOwnership
LEMMA Transfers ==
  ASSUME IInv, NEW s \in Sessions, Transfer(s)
  PROVE  IInv'
<1> DEFINE c == call[s]
<1>0. CASE Refuse(s)
  BY <1>0, RefuseKeeps
<1>1. CASE TransferLockWorkspace(s) /\ ~Refuse(s)
  <2>1. /\ ownerId # NoUser /\ Granted(s, WsRow, "update") /\ pc[s] = "xfer_ws"
        /\ Take(s, WsRow, "update", "xfer_me") /\ UNCHANGED <<data, call, calls>>
        /\ "xfer_me" \in Label
    BY <1>1 DEF TransferLockWorkspace, Label
  <2>2. /\ pc'[s] = "xfer_me" /\ ownerId' = ownerId /\ Owns(s, WsRow)'
    BY <2>1, TakeOwns, CallFacts
  <2>3. Judged(s)'
    BY <2>1, <2>2 DEF Judged, WsRow
  <2> QED BY <2>1, <2>3, TakeLeads, CallFacts
<1>2. CASE TransferLockRequester(s) /\ ~Refuse(s)
  <2>1. /\ role[c.by] = "owner" /\ c.on # c.by /\ pc[s] = "xfer_me"
        /\ Granted(s, Membership(c.by), "update")
        /\ Take(s, Membership(c.by), "update", "xfer_to")
        /\ UNCHANGED <<data, call, calls>> /\ "xfer_to" \in Label
    BY <1>2 DEF TransferLockRequester, Label
  <2>2. /\ pc'[s] = "xfer_to" /\ call'[s] = call[s] /\ role' = role /\ ownerId' = ownerId
        /\ Owns(s, Membership(c.by))' /\ (Owns(s, WsRow) => Owns(s, WsRow)')
    BY <2>1, TakeOwns, CallFacts
  <2>3. Owns(s, WsRow) /\ ownerId # NoUser
    BY <2>1 DEF IInv, Judged
  <2>4. Judged(s)'
    BY <2>1, <2>2, <2>3 DEF Judged, Locked, WsRow, Membership
  <2> QED BY <2>1, <2>4, TakeLeads, CallFacts
<1>3. CASE TransferLockTarget(s) /\ ~Refuse(s)
  <2>1. /\ role[c.on] # "none" /\ role[c.on] # "owner" /\ pc[s] = "xfer_to"
        /\ Granted(s, Membership(c.on), "update")
        /\ Take(s, Membership(c.on), "update", "xfer_save")
        /\ UNCHANGED <<data, call, calls>> /\ "xfer_save" \in Label
    BY <1>3 DEF TransferLockTarget, SameRow, Label
  <2>2. /\ pc'[s] = "xfer_save" /\ call'[s] = call[s] /\ role' = role /\ ownerId' = ownerId
        /\ Owns(s, Membership(c.on))' /\ (Owns(s, WsRow) => Owns(s, WsRow)')
        /\ (Owns(s, Membership(c.by)) => Owns(s, Membership(c.by))')
    BY <2>1, TakeOwns, CallFacts
  <2>3. /\ Owns(s, WsRow) /\ ownerId # NoUser /\ Owns(s, Membership(c.by))
        /\ role[c.by] = "owner" /\ c.on # c.by
    BY <2>1 DEF IInv, Judged, Locked
  <2>4. IsOther(c.on)
    BY <2>1, CallFacts DEF IsOther, Roles
  <2>5. Judged(s)'
    BY <2>2, <2>3, <2>4 DEF Judged, Locked, WsRow, Membership, IsOther
  <2> QED BY <2>1, <2>5, TakeLeads, CallFacts
<1>4. CASE TransferSave(s)
  <2>1. /\ Locked(s, c.by) /\ role[c.by] = "owner" /\ c.on # c.by
        /\ Locked(s, c.on) /\ role[c.on] \in Given
        /\ c.on \in Users /\ c.by \in Users
    BY <1>4, CallFacts DEF TransferSave, IInv, Judged, IsOther
  <2>2. /\ role' = [role EXCEPT ![c.on] = "owner", ![c.by] = "admin"]
        /\ ownerId' = c.on /\ End(s) /\ UNCHANGED <<rowId, invited, integ, calls>>
    BY <1>4 DEF TransferSave
  <2>3. /\ role' \in [Users -> Roles]
        /\ \A u \in Users : role'[u] = IF u = c.on THEN "owner"
                                       ELSE IF u = c.by THEN "admin" ELSE role[u]
    BY <2>1, <2>2 DEF IInv, TypeOK, Roles, Given
  <2>4. c.by = ownerId
    BY <2>1 DEF IInv, OneOwner
  <2>5. OneOwner' /\ PersonalHasMember'
    BY <2>1, <2>2, <2>3, <2>4, MembersAssumption DEF IInv, OneOwner, PersonalHasMember
  <2>6. ownerId' # NoUser
    BY <2>1, <2>2, MembersAssumption
  <2> QED BY <2>1, <2>2, <2>3, <2>5, <2>6, CommitKeeps DEF IInv, TypeOK
<1> QED BY <1>0, <1>1, <1>2, <1>3, <1>4 DEF Transfer

\* The commit of a departure, by removal or by leaving.
LEMMA Departs ==
  ASSUME IInv, NEW s \in Sessions, NEW u \in Users, Depart(s, u),
         Locked(s, u), IsOther(u)
  PROVE  IInv'
<1>1. /\ role' = [role EXCEPT ![u] = "none"] /\ End(s)
      /\ integ' = [integ EXCEPT ![u] = IF @ = "personal" THEN "none" ELSE @]
      /\ UNCHANGED <<ownerId, rowId, invited, calls>>
  BY DEF Depart
<1>2. /\ role' \in [Users -> Roles]
      /\ integ' \in [Users -> {"none", "personal", "organization"}]
      /\ integ'[u] # "personal"
      /\ \A v \in Users : /\ role'[v] = IF v = u THEN "none" ELSE role[v]
                          /\ v # u => integ'[v] = integ[v]
  BY <1>1 DEF IInv, TypeOK, Roles
<1>3. OneOwner' /\ PersonalHasMember'
  BY <1>1, <1>2 DEF IInv, OneOwner, PersonalHasMember, IsOther, Given
<1> QED BY <1>1, <1>2, <1>3, CommitKeeps DEF IInv, TypeOK

\* removeMember
LEMMA Removes ==
  ASSUME IInv, NEW s \in Sessions, RemoveDelete(s) \/ RemovePurge(s)
  PROVE  IInv'
<1> DEFINE c == call[s]
<1>0. CASE Refuse(s)
  BY <1>0, RefuseKeeps
<1>1. CASE RemoveDelete(s) /\ ~Refuse(s)
  <2>1. /\ role[c.on] # "none" /\ role[c.on] # "owner"
        /\ Granted(s, Membership(c.on), "update")
        /\ Take(s, Membership(c.on), "update", "rm_purge")
        /\ UNCHANGED <<data, call, calls>> /\ "rm_purge" \in Label
    BY <1>1 DEF RemoveDelete, SameRow, Label
  <2>2. /\ pc'[s] = "rm_purge" /\ call'[s] = call[s] /\ role' = role
        /\ Owns(s, Membership(c.on))'
    BY <2>1, TakeOwns, CallFacts
  <2>3. IsOther(c.on)
    BY <2>1, CallFacts DEF IsOther, Roles
  <2>4. Judged(s)'
    BY <2>2, <2>3 DEF Judged, Locked, IsOther, Membership
  <2> QED BY <2>1, <2>4, TakeLeads, CallFacts
<1>2. CASE RemovePurge(s)
  <2>1. Depart(s, c.on) /\ Locked(s, c.on) /\ IsOther(c.on) /\ c.on \in Users
    BY <1>2, CallFacts DEF RemovePurge, IInv, Judged
  <2> QED BY <2>1, Departs
<1> QED BY <1>0, <1>1, <1>2

\* leaveWorkspace
LEMMA Leaves ==
  ASSUME IInv, NEW s \in Sessions,
         LeaveLock(s) \/ LeaveCountOwners(s) \/ LeavePurge(s)
  PROVE  IInv'
<1> DEFINE c == call[s]
<1>0. CASE Refuse(s)
  BY <1>0, RefuseKeeps
<1>1. CASE LeaveLock(s) /\ ~Refuse(s)
  <2> DEFINE label == IF role[c.by] = "owner" THEN "lv_owners" ELSE "lv_purge"
  <2>1. /\ role[c.by] # "none"
        /\ Granted(s, Membership(c.by), "update")
        /\ Take(s, Membership(c.by), "update", label)
        /\ UNCHANGED <<data, call, calls>> /\ label \in Label
    BY <1>1 DEF LeaveLock, Label
  <2>2. /\ pc'[s] = label /\ call'[s] = call[s] /\ role' = role
        /\ Owns(s, Membership(c.by))'
    BY <2>1, TakeOwns, CallFacts
  <2>3. role[c.by] # "owner" => IsOther(c.by)
    BY <2>1, CallFacts DEF IsOther, Roles
  <2>4. Judged(s)'
    BY <2>2, <2>3 DEF Judged, Locked, IsOther, Membership
  <2> QED BY <2>1, <2>4, TakeLeads, CallFacts
<1>2. CASE LeaveCountOwners(s) /\ ~Refuse(s)
  \* An owner who leaves is the only owner, so this is the refusal.
  <2>1. pc[s] = "lv_owners" /\ ~({u \in Users : role[u] = "owner"} \subseteq {c.by})
    BY <1>2 DEF LeaveCountOwners
  <2>2. role[c.by] = "owner" /\ c.by \in Users
    BY <2>1, CallFacts DEF IInv, Judged
  <2> QED BY <2>1, <2>2 DEF IInv, OneOwner
<1>3. CASE LeavePurge(s)
  <2>1. Depart(s, c.by) /\ Locked(s, c.by) /\ IsOther(c.by) /\ c.by \in Users
    BY <1>3, CallFacts DEF LeavePurge, IInv, Judged
  <2> QED BY <2>1, Departs
<1> QED BY <1>0, <1>1, <1>2, <1>3

\* deleteWorkspace
LEMMA Deletes ==
  ASSUME IInv, NEW s \in Sessions,
         DeleteLockWorkspace(s) \/ DeleteLockRequester(s) \/ DeleteRow(s)
         \/ DeleteCommit(s)
  PROVE  IInv'
<1> DEFINE c == call[s]
<1>0. CASE Refuse(s)
  BY <1>0, RefuseKeeps
<1>1. CASE DeleteLockWorkspace(s) /\ ~Refuse(s)
  <2>1. /\ ownerId # NoUser /\ Granted(s, WsRow, "update")
        /\ Take(s, WsRow, "update", "del_me") /\ UNCHANGED <<data, call, calls>>
        /\ "del_me" \in Label
    BY <1>1 DEF DeleteLockWorkspace, Label
  <2>2. /\ pc'[s] = "del_me" /\ ownerId' = ownerId /\ Owns(s, WsRow)'
    BY <2>1, TakeOwns, CallFacts
  <2>3. Judged(s)'
    BY <2>1, <2>2 DEF Judged, WsRow
  <2> QED BY <2>1, <2>3, TakeLeads, CallFacts
<1>2. CASE DeleteLockRequester(s) /\ ~Refuse(s)
  <2>1. /\ pc[s] = "del_me" /\ Granted(s, Membership(c.by), "update")
        /\ Take(s, Membership(c.by), "update", "del_rows")
        /\ UNCHANGED <<data, call, calls>> /\ "del_rows" \in Label
    BY <1>2 DEF DeleteLockRequester, Label
  <2>2. /\ pc'[s] = "del_rows" /\ ownerId' = ownerId
        /\ (Owns(s, WsRow) => Owns(s, WsRow)')
    BY <2>1, TakeOwns, CallFacts
  <2>3. Owns(s, WsRow) /\ ownerId # NoUser
    BY <2>1 DEF IInv, Judged
  <2>4. Judged(s)'
    BY <2>2, <2>3 DEF Judged, WsRow
  <2> QED BY <2>1, <2>4, TakeLeads, CallFacts
<1>3. CASE DeleteRow(s)
  <2>1. PICK r \in Undeleted(s) :
          /\ Granted(s, r, "update") /\ Take(s, r, "update", "del_rows")
          /\ UNCHANGED <<data, call, calls>>
    BY <1>3 DEF DeleteRow
  <2>2. r \in Rows /\ "del_rows" \in Label
    BY RowFacts DEF Undeleted, Invitations, Members, Label
  <2>3. /\ pc'[s] = "del_rows" /\ ownerId' = ownerId
        /\ (Owns(s, WsRow) => Owns(s, WsRow)')
    BY <2>1, <2>2, TakeOwns
  <2>4. Owns(s, WsRow) /\ ownerId # NoUser
    BY <1>3 DEF DeleteRow, IInv, Judged
  <2>5. Judged(s)'
    BY <2>3, <2>4 DEF Judged, WsRow
  <2> QED BY <2>1, <2>2, <2>5, TakeLeads
<1>4. CASE DeleteCommit(s)
  <2>1. /\ ownerId' = NoUser /\ role' = [u \in Users |-> "none"]
        /\ invited' = [u \in Users |-> "none"] /\ integ' = [u \in Users |-> "none"]
        /\ End(s) /\ UNCHANGED <<rowId, calls>>
        /\ pc[s] = "del_rows" /\ Undeleted(s) = {}
    BY <1>4 DEF DeleteCommit
  <2>2. Owns(s, WsRow)
    BY <2>1 DEF IInv, Judged
  <2>3. ASSUME NEW u \in Users, role[u] # "none" PROVE Locked(s, u)
    BY <2>1, <2>3 DEF Undeleted, Members, Locked
  <2>4. OneOwner' /\ PersonalHasMember'
    BY <2>1, MembersAssumption DEF OneOwner, PersonalHasMember
  <2> QED BY <2>1, <2>2, <2>3, <2>4, CommitKeeps DEF IInv, TypeOK, Roles
<1> QED BY <1>0, <1>1, <1>2, <1>3, <1>4

\* addMemberByEmail, and an accepted invitation
LEMMA Inserts ==
  ASSUME IInv, NEW s \in Sessions, NEW u \in Users, NEW r \in Given,
         Insert(s, u, r), UNCHANGED <<ownerId, integ, calls>>,
         invited' \in [Users -> {"none", "pending", "used"}]
  PROVE  IInv'
<1>1. /\ role[u] = "none" /\ ownerId # NoUser /\ End(s)
      /\ role' = [role EXCEPT ![u] = r] /\ rowId' = [rowId EXCEPT ![u] = @ + 1]
  BY DEF Insert
<1>2. /\ role' \in [Users -> Roles] /\ rowId' \in [Users -> Nat]
      /\ \A v \in Users : role'[v] = IF v = u THEN r ELSE role[v]
  BY <1>1 DEF IInv, TypeOK, Roles
<1>3. OneOwner' /\ PersonalHasMember'
  BY <1>1, <1>2 DEF IInv, OneOwner, PersonalHasMember, Given
<1> QED BY <1>1, <1>2, <1>3, CommitKeeps DEF IInv, TypeOK

LEMMA Adds ==
  ASSUME IInv, NEW s \in Sessions, AddInsert(s)
  PROVE  IInv'
<1>1. CASE Refuse(s)
  BY <1>1, RefuseKeeps
<1>2. CASE Insert(s, call[s].on, call[s].new) /\ UNCHANGED <<ownerId, invited, integ, calls>>
  BY <1>2, Inserts, CallFacts DEF IInv, TypeOK
<1> QED BY <1>1, <1>2 DEF AddInsert

LEMMA Accepts ==
  ASSUME IInv, NEW s \in Sessions,
         AcceptConsume(s) \/ AcceptFindMember(s) \/ AcceptInsert(s)
  PROVE  IInv'
<1> DEFINE c == call[s]
<1>0. CASE Refuse(s)
  BY <1>0, RefuseKeeps
<1>1. CASE AcceptConsume(s) /\ ~Refuse(s)
  <2>1. /\ Granted(s, Invitation(c.on), "update")
        /\ Take(s, Invitation(c.on), "update", "ac_member")
        /\ UNCHANGED <<data, call, calls>> /\ "ac_member" \in Label
    BY <1>1 DEF AcceptConsume, Label
  <2>2. pc'[s] = "ac_member"
    BY <2>1, TakeOwns, CallFacts
  <2>3. Judged(s)'
    BY <2>2 DEF Judged
  <2> QED BY <2>1, <2>3, TakeLeads, CallFacts
<1>2. ASSUME invited' = [invited EXCEPT ![c.on] = "used"]
      PROVE  invited' \in [Users -> {"none", "pending", "used"}]
  BY <1>2 DEF IInv, TypeOK
<1>3. CASE AcceptFindMember(s)
  <2>1. CASE role[c.on] = "none"
    <3>1. pc' = [pc EXCEPT ![s] = "ac_insert"] /\ UNCHANGED <<data, call, held, calls>>
      BY <1>3, <2>1 DEF AcceptFindMember, Goto
    <3>2. pc' \in [Sessions -> Label] /\ pc'[s] = "ac_insert"
          /\ \A t \in Sessions \ {s} : pc'[t] = pc[t]
      BY <3>1 DEF IInv, TypeOK, Label
    <3>3. TypeOK' /\ OneOwner' /\ PersonalHasMember' /\ Exclusive'
      BY <3>1, <3>2 DEF IInv, TypeOK, OneOwner, PersonalHasMember, Exclusive, Conflict, data
    <3>4. OnlyOwnRows(s)
      BY <3>1, <3>2 DEF OnlyOwnRows, data
    <3>5. Judged(s)'
      BY <3>2 DEF Judged
    <3> QED BY <3>3, <3>4, <3>5, OthersJudged DEF IInv
  <2>2. CASE role[c.on] # "none"
    <3>1. /\ invited' = [invited EXCEPT ![c.on] = "used"] /\ End(s)
          /\ UNCHANGED <<ownerId, role, rowId, integ, calls>>
      BY <1>3, <2>2 DEF AcceptFindMember
    <3>2. OneOwner' /\ PersonalHasMember'
      BY <3>1 DEF IInv, OneOwner, PersonalHasMember
    <3> QED BY <1>2, <3>1, <3>2, CommitKeeps DEF IInv, TypeOK
  <2> QED BY <2>1, <2>2
<1>4. CASE AcceptInsert(s) /\ ~Refuse(s)
  <2>1. /\ Insert(s, c.on, c.new) /\ invited' = [invited EXCEPT ![c.on] = "used"]
        /\ UNCHANGED <<ownerId, integ, calls>>
    BY <1>4 DEF AcceptInsert
  <2> QED BY <1>2, <2>1, Inserts, CallFacts
<1> QED BY <1>0, <1>1, <1>3, <1>4

\* Writes of integrations
LEMMA Writes ==
  ASSUME IInv, NEW s \in Sessions,
         WriteLockWorkspace(s) \/ WriteLockMember(s) \/ WriteSave(s)
  PROVE  IInv'
<1> DEFINE c == call[s]
<1>0. CASE Refuse(s)
  BY <1>0, RefuseKeeps
<1>1. CASE WriteLockWorkspace(s) /\ ~Refuse(s)
  <2> DEFINE label == IF c.op = "publish" THEN "in_save" ELSE "in_member"
  <2>1. /\ Granted(s, WsRow, "share") /\ Take(s, WsRow, "share", label)
        /\ UNCHANGED <<data, call, calls>> /\ label \in Label
    BY <1>1 DEF WriteLockWorkspace, Label
  <2>2. pc'[s] = label /\ call'[s] = call[s]
    BY <2>1, TakeOwns, CallFacts
  <2>3. Judged(s)'
    BY <2>2 DEF Judged
  <2> QED BY <2>1, <2>3, TakeLeads, CallFacts
<1>2. CASE WriteLockMember(s) /\ ~Refuse(s)
  <2>1. /\ Granted(s, Membership(c.on), "share") /\ role[c.on] # "none"
        /\ Take(s, Membership(c.on), "share", "in_save")
        /\ UNCHANGED <<data, call, calls>> /\ "in_save" \in Label
    BY <1>2 DEF WriteLockMember, Label
  <2>2. /\ pc'[s] = "in_save" /\ call'[s] = call[s] /\ role' = role
        /\ <<Membership(c.on), "share">> \in held'[s]
    BY <2>1, TakeOwns, CallFacts
  <2>3. Judged(s)'
    BY <2>1, <2>2 DEF Judged, Membership
  <2> QED BY <2>1, <2>3, TakeLeads, CallFacts
<1>3. CASE WriteSave(s) /\ ~Refuse(s)
  <2> DEFINE to == IF c.op = "publish" THEN "organization" ELSE "personal"
  <2>1. /\ integ' = [integ EXCEPT ![c.on] = to] /\ End(s) /\ pc[s] = "in_save"
        /\ UNCHANGED <<ownerId, role, rowId, invited, calls>>
    BY <1>3 DEF WriteSave
  <2>2. /\ integ' \in [Users -> {"none", "personal", "organization"}]
        /\ \A u \in Users : integ'[u] = IF u = c.on THEN to ELSE integ[u]
    BY <2>1, CallFacts DEF IInv, TypeOK
  <2>3. c.op # "publish" => role[c.on] # "none"
    BY <2>1 DEF IInv, Judged
  <2>4. OneOwner' /\ PersonalHasMember'
    BY <2>1, <2>2, <2>3 DEF IInv, OneOwner, PersonalHasMember
  <2> QED BY <2>1, <2>2, <2>4, CommitKeeps DEF IInv, TypeOK
<1> QED BY <1>0, <1>1, <1>2, <1>3

LEMMA Shares ==
  ASSUME IInv, NEW u \in Users, ShareIntegration(u)
  PROVE  IInv'
<1>1. integ' = [integ EXCEPT ![u] = "organization"]
      /\ UNCHANGED <<ownerId, role, rowId, invited, call, pc, held, calls>>
  BY DEF ShareIntegration
<1>2. /\ integ' \in [Users -> {"none", "personal", "organization"}]
      /\ \A v \in Users : integ'[v] = "personal" => integ[v] = "personal"
  BY <1>1 DEF IInv, TypeOK
<1>3. TypeOK' /\ OneOwner' /\ PersonalHasMember' /\ Exclusive'
  BY <1>1, <1>2 DEF IInv, TypeOK, OneOwner, PersonalHasMember, Exclusive, Conflict
<1>4. ASSUME NEW s \in Sessions PROVE Judged(s)'
  BY <1>1 DEF IInv, Judged, Locked, Owns, IsOther, WsRow, Membership
<1> QED BY <1>3, <1>4 DEF IInv
-------------------------------------------------------------------------------
LEMMA InitHolds == Init => IInv
<1> SUFFICES ASSUME Init PROVE IInv
  OBVIOUS
<1>1. NoCall \in Call
  BY MembersAssumption DEF NoCall, Call, Ops, Roles, Given
<1>2. TypeOK
  BY <1>1, MembersAssumption DEF Init, TypeOK, Label
<1>3. OneOwner /\ PersonalHasMember /\ Exclusive
  BY MembersAssumption DEF Init, OneOwner, PersonalHasMember, Exclusive
<1>4. \A s \in Sessions : Judged(s)
  BY DEF Init, Judged
<1> QED BY <1>2, <1>3, <1>4 DEF IInv

LEMMA StepKeeps == IInv /\ [Next]_vars => IInv'
<1> SUFFICES ASSUME IInv, [Next]_vars PROVE IInv'
  OBVIOUS
<1>1. CASE UNCHANGED vars
  BY <1>1 DEF IInv, TypeOK, OneOwner, PersonalHasMember, Exclusive, Conflict,
     Judged, Locked, Owns, IsOther, WsRow, Membership, vars, data
<1>2. ASSUME NEW s \in Sessions, BeginAny(s) PROVE IInv'
  BY <1>2, Begins
<1>3. ASSUME NEW s \in Sessions, Statement(s) PROVE IInv'
  BY <1>3, SetsRole, Transfers, Removes, Leaves, Deletes, Adds, Accepts, Writes
     DEF Statement
<1>4. ASSUME NEW s \in Sessions, LockTimeout(s) \/ DeadlockVictim(s) \/ Disconnect(s)
      PROVE  IInv'
  BY <1>4, RefuseKeeps DEF LockTimeout, DeadlockVictim, Disconnect
<1>5. ASSUME NEW u \in Users, ShareIntegration(u) PROVE IInv'
  BY <1>5, Shares
<1> QED BY <1>1, <1>2, <1>3, <1>4, <1>5 DEF Next

\* The inductive invariant: the locks are exclusive and what each request has
\* found out behind them is true.
THEOREM Invariance == Spec => []IInv
BY InitHolds, StepKeeps, PTL DEF Spec

\* Every variable has its type, for any users, sessions and bounds.
THEOREM TypeCorrect == Spec => []TypeOK
<1>1. IInv => TypeOK
  BY DEF IInv
<1> QED BY <1>1, Invariance, PTL

\* The workspace never has two owners, none, or another than its row names,
\* whatever transfers, removals, departures and changes of role overlap.
THEOREM AlwaysOneOwner == Spec => []OneOwner
<1>1. IInv => OneOwner
  BY DEF IInv
<1> QED BY <1>1, Invariance, PTL

\* No personal integration outlives the membership of its creator, nor is one
\* made after it.
THEOREM PersonalAlwaysHasMember == Spec => []PersonalHasMember
<1>1. IInv => PersonalHasMember
  BY DEF IInv
<1> QED BY <1>1, Invariance, PTL

-------------------------------------------------------------------------------
(* Who takes the admin role away.                                          *)

\* An admin becomes an editor in one way only.
LEMMA OnlyRoleSaveDemotes ==
  ASSUME IInv, Next, NEW u \in Users, role[u] = "admin", role'[u] = "editor"
  PROVE  \E s \in Sessions : RoleSave(s) /\ call[s].on = u
<1> USE DEF IInv
<1>1. role \in [Users -> Roles]
  BY DEF TypeOK
<1>2. ASSUME NEW s \in Sessions PROVE ~BeginAny(s)
  BY DEF BeginAny, BeginSetRole, BeginTransfer, BeginRemove, BeginLeave,
     BeginDelete, BeginAdd, BeginAccept, BeginWrite, Begin, data
<1>3. ASSUME NEW s \in Sessions PROVE ~Refuse(s)
  BY DEF Refuse, data
<1>4. ASSUME NEW s \in Sessions, Statement(s) PROVE RoleSave(s) /\ call[s].on = u
  <2>1. CASE RoleSave(s)
    BY <1>1, <2>1 DEF RoleSave
  <2>2. ASSUME NEW v \in Users PROVE ~Depart(s, v)
    BY <1>1 DEF Depart
  <2>3. ASSUME NEW v \in Users, NEW r PROVE ~Insert(s, v, r)
    BY <1>1 DEF Insert
  <2>4. ~TransferSave(s)
    BY <1>1, CallFacts DEF TransferSave
  <2>5. ~DeleteCommit(s)
    BY DEF DeleteCommit
  <2>6. CASE UNCHANGED role
    BY <2>6
  <2>7. CASE RoleLock(s) \/ RemoveDelete(s) \/ LeaveLock(s) \/ LeaveCountOwners(s)
    BY <1>3, <2>6, <2>7 DEF RoleLock, RemoveDelete, LeaveLock, LeaveCountOwners, data
  <2>8. CASE Transfer(s)
    BY <1>3, <2>4, <2>6, <2>8 DEF Transfer, TransferLockWorkspace,
       TransferLockRequester, TransferLockTarget, data
  <2>9. CASE RemovePurge(s) \/ LeavePurge(s)
    BY <2>2, <2>9, CallFacts DEF RemovePurge, LeavePurge
  <2>10. CASE DeleteLockWorkspace(s) \/ DeleteLockRequester(s) \/ DeleteRow(s)
    BY <1>3, <2>6, <2>10 DEF DeleteLockWorkspace, DeleteLockRequester, DeleteRow, data
  <2>11. CASE AddInsert(s) \/ AcceptInsert(s)
    BY <1>3, <2>3, <2>11, CallFacts DEF AddInsert, AcceptInsert
  <2>12. CASE AcceptConsume(s) \/ AcceptFindMember(s)
    BY <1>3, <2>6, <2>12 DEF AcceptConsume, AcceptFindMember, data
  <2>13. CASE WriteLockWorkspace(s) \/ WriteLockMember(s) \/ WriteSave(s)
    BY <1>3, <2>6, <2>13 DEF WriteLockWorkspace, WriteLockMember, WriteSave, data
  <2> QED BY <1>4, <2>1, <2>5, <2>7, <2>8, <2>9, <2>10, <2>11, <2>12, <2>13 DEF Statement
<1>5. ASSUME NEW v \in Users PROVE ~ShareIntegration(v)
  BY DEF ShareIntegration
<1> QED BY <1>2, <1>3, <1>4, <1>5 DEF Next, LockTimeout, DeadlockVictim, Disconnect

\* The admin role is taken away only by a request whose requester was read as
\* an owner; a save never undoes a promotion made since its row was read.
THEOREM AdminAlwaysTakenByOwner == Spec => AdminTakenByOwner
<1> DEFINE Taken == \A u \in Users :
       role[u] = "admin" /\ role'[u] = "editor" =>
         \E s \in Sessions : pc[s] # "idle" /\ pc'[s] = "idle" /\ call[s].was = "owner"
<1>1. IInv /\ [Next]_vars => [Taken]_vars
  <2>1. SUFFICES ASSUME IInv, Next, NEW u \in Users,
                        role[u] = "admin", role'[u] = "editor"
                 PROVE  \E s \in Sessions :
                          pc[s] # "idle" /\ pc'[s] = "idle" /\ call[s].was = "owner"
    BY DEF vars, data
  <2>2. PICK s \in Sessions : RoleSave(s) /\ call[s].on = u
    BY <2>1, OnlyRoleSaveDemotes
  <2>3. pc[s] = "role_save" /\ pc'[s] = "idle"
    BY <2>1, <2>2 DEF RoleSave, End, Goto, IInv, TypeOK
  <2>4. call[s].was = "owner"
    BY <2>1, <2>2, <2>3 DEF IInv, Judged
  <2> QED BY <2>3, <2>4
<1> QED BY <1>1, Invariance, PTL DEF Spec, AdminTakenByOwner
-------------------------------------------------------------------------------
(* The order of the locks.                                                 *)

\* The statements that are the first of a transaction to lock a row, and those that
\* wait behind the row of the workspace alone.
FirstLock ==
  {"idle", "xfer_ws", "del_ws", "in_ws", "add_insert", "role_lock", "lv_lock",
   "rm_delete", "ac_consume"}
SecondLock == {"xfer_me", "del_me", "in_member"}
Accepting == {"ac_consume", "ac_member", "ac_insert"}

IsInvitation(row) == \E u \in Users : row = Invitation(u)

\* What s holds where it may have to wait.  Only an acceptance holds an invitation and
\* goes on to the workspace.
Ordered(s) ==
  /\ pc[s] \in FirstLock => held[s] = {}
  /\ pc[s] \in SecondLock => \A l \in held[s] : l[1] = WsRow
  /\ pc[s] \in {"in_member", "in_save"} => <<WsRow, "share">> \in held[s]
  /\ \A l \in held[s] : IsInvitation(l[1]) =>
       pc[s] = "del_rows" \/ call[s].op = "accept"
  /\ pc[s] \in Accepting => call[s].op = "accept"

AllOrdered == \A s \in Sessions : Ordered(s)

LEMMA RowKinds ==
  /\ ~IsInvitation(WsRow)
  /\ \A u \in Users : Membership(u) # WsRow /\ ~IsInvitation(Membership(u))
  /\ \A u \in Users : Invitation(u) # WsRow
BY DEF IsInvitation, WsRow, Membership, Invitation

LEMMA OthersOrdered ==
  ASSUME AllOrdered, NEW s \in Sessions, Ordered(s)',
         \A t \in Sessions \ {s} :
           pc'[t] = pc[t] /\ call'[t] = call[t] /\ held'[t] = held[t]
  PROVE  AllOrdered'
<1>1. ASSUME NEW t \in Sessions, t # s PROVE Ordered(t)'
  BY <1>1 DEF AllOrdered, Ordered, IsInvitation, Invitation, WsRow
<1> QED BY <1>1 DEF AllOrdered

\* A request that is over holds nothing.
LEMMA EndOrders ==
  ASSUME IInv, AllOrdered, NEW s \in Sessions, End(s) PROVE AllOrdered'
<1>1. pc'[s] = "idle" /\ held'[s] = {}
  BY DEF End, Goto, IInv, TypeOK
<1>2. Ordered(s)'
  BY <1>1 DEF Ordered, SecondLock, Accepting
<1> QED BY <1>2, EndKeeps, OthersOrdered

LEMMA BeginOrders ==
  ASSUME IInv, AllOrdered, NEW s \in Sessions, NEW c, NEW label, Begin(s, c, label),
         label \in FirstLock, label = "ac_consume" => c.op = "accept"
  PROVE  AllOrdered'
<1>1. /\ pc'[s] = label /\ call'[s] = c /\ held'[s] = held[s] /\ pc[s] = "idle"
      /\ \A t \in Sessions \ {s} :
           pc'[t] = pc[t] /\ call'[t] = call[t] /\ held'[t] = held[t]
  BY DEF Begin, Goto, IInv, TypeOK
<1>2. held'[s] = {}
  BY <1>1 DEF AllOrdered, Ordered, FirstLock
<1>3. Ordered(s)'
  BY <1>1, <1>2 DEF Ordered, FirstLock, SecondLock, Accepting
<1> QED BY <1>1, <1>3, OthersOrdered

\* A statement that locks a row, after the rows that come before it.
LEMMA TakeOrders ==
  ASSUME IInv, AllOrdered, NEW s \in Sessions, NEW row, NEW mode, NEW label,
         Take(s, row, mode, label), UNCHANGED call,
         label \notin FirstLock,
         label \in SecondLock => row = WsRow /\ pc[s] \in FirstLock,
         label \in {"in_member", "in_save"} =>
           <<row, mode>> = <<WsRow, "share">> \/ pc[s] = "in_member",
         IsInvitation(row) => label = "del_rows" \/ call[s].op = "accept",
         pc[s] = "del_rows" => label = "del_rows",
         label \in Accepting => pc[s] \in Accepting
  PROVE  AllOrdered'
<1>1. /\ pc'[s] = label /\ call'[s] = call[s] /\ held'[s] = held[s] \cup {<<row, mode>>}
      /\ \A t \in Sessions \ {s} :
           pc'[t] = pc[t] /\ call'[t] = call[t] /\ held'[t] = held[t]
  BY DEF Take, Goto, IInv, TypeOK
<1>2. Ordered(s)
  BY DEF AllOrdered
<1>3. \A l \in held'[s] : l \in held[s] \/ l[1] = row
  BY <1>1
<1>4. label \in SecondLock => \A l \in held'[s] : l[1] = WsRow
  BY <1>2, <1>3 DEF Ordered
<1>5. label \in {"in_member", "in_save"} => <<WsRow, "share">> \in held'[s]
  BY <1>1, <1>2 DEF Ordered
<1>6. \A l \in held'[s] : IsInvitation(l[1]) => label = "del_rows" \/ call[s].op = "accept"
  BY <1>2, <1>3 DEF Ordered
<1>7. label \in Accepting => call[s].op = "accept"
  BY <1>2 DEF Ordered
<1>8. Ordered(s)'
  BY <1>1, <1>4, <1>5, <1>6, <1>7 DEF Ordered, IsInvitation, Invitation, WsRow
<1> QED BY <1>1, <1>8, OthersOrdered

LEMMA StepOrders == IInv /\ AllOrdered /\ [Next]_vars => AllOrdered'
<1> SUFFICES ASSUME IInv, AllOrdered, [Next]_vars PROVE AllOrdered'
  OBVIOUS
<1>1. CASE UNCHANGED vars
  BY <1>1 DEF AllOrdered, Ordered, IsInvitation, Invitation, WsRow, vars
<1>2. ASSUME NEW s \in Sessions, BeginAny(s) PROVE AllOrdered'
  <2>1. ASSUME NEW c, NEW label \in FirstLock \ {"ac_consume"}, Begin(s, c, label)
        PROVE  AllOrdered'
    BY <2>1, BeginOrders
  <2>2. CASE BeginSetRole(s)
    BY <2>1, <2>2 DEF BeginSetRole, FirstLock
  <2>3. CASE BeginTransfer(s)
    BY <2>1, <2>3 DEF BeginTransfer, FirstLock
  <2>4. CASE BeginRemove(s)
    BY <2>1, <2>4 DEF BeginRemove, FirstLock
  <2>5. CASE BeginLeave(s)
    BY <2>1, <2>5 DEF BeginLeave, FirstLock
  <2>6. CASE BeginDelete(s)
    BY <2>1, <2>6 DEF BeginDelete, FirstLock
  <2>7. CASE BeginAdd(s)
    BY <2>1, <2>7 DEF BeginAdd, FirstLock
  <2>8. CASE BeginWrite(s)
    BY <2>1, <2>8 DEF BeginWrite, FirstLock
  <2>9. CASE BeginAccept(s)
    <3>1. PICK on \in Users, new \in Given :
            Begin(s, Asks("accept", on, on, new), "ac_consume")
      BY <2>9 DEF BeginAccept
    <3>2. Asks("accept", on, on, new).op = "accept"
      BY DEF Asks
    <3> QED BY <3>1, <3>2, BeginOrders DEF FirstLock
  <2> QED BY <1>2, <2>2, <2>3, <2>4, <2>5, <2>6, <2>7, <2>8, <2>9 DEF BeginAny
<1>3. ASSUME NEW s \in Sessions, End(s) PROVE AllOrdered'
  BY <1>3, EndOrders
<1>4. ASSUME NEW s \in Sessions, RoleLock(s) PROVE AllOrdered'
  <2>1. CASE Take(s, Membership(call[s].on), "update", "role_save") /\ call' = call
    BY <1>4, <2>1, TakeOrders, RowKinds, CallFacts
    DEF RoleLock, FirstLock, SecondLock, Accepting, AllOrdered, Ordered
  <2> QED BY <1>4, <2>1, <1>3 DEF RoleLock, Refuse
<1>5. ASSUME NEW s \in Sessions, TransferLockWorkspace(s) PROVE AllOrdered'
  <2>1. CASE Take(s, WsRow, "update", "xfer_me") /\ call' = call
    BY <1>5, <2>1, TakeOrders, RowKinds, CallFacts
    DEF TransferLockWorkspace, FirstLock, SecondLock, Accepting, AllOrdered, Ordered
  <2> QED BY <1>5, <2>1, <1>3 DEF TransferLockWorkspace, Refuse
<1>6. ASSUME NEW s \in Sessions, TransferLockRequester(s) PROVE AllOrdered'
  <2>1. CASE Take(s, Membership(call[s].by), "update", "xfer_to") /\ call' = call
    BY <1>6, <2>1, TakeOrders, RowKinds, CallFacts
    DEF TransferLockRequester, FirstLock, SecondLock, Accepting, AllOrdered, Ordered
  <2> QED BY <1>6, <2>1, <1>3 DEF TransferLockRequester, Refuse
<1>7. ASSUME NEW s \in Sessions, TransferLockTarget(s) PROVE AllOrdered'
  <2>1. CASE Take(s, Membership(call[s].on), "update", "xfer_save") /\ call' = call
    BY <1>7, <2>1, TakeOrders, RowKinds, CallFacts
    DEF TransferLockTarget, FirstLock, SecondLock, Accepting, AllOrdered, Ordered
  <2> QED BY <1>7, <2>1, <1>3 DEF TransferLockTarget, Refuse
<1>8. ASSUME NEW s \in Sessions, RemoveDelete(s) PROVE AllOrdered'
  <2>1. CASE Take(s, Membership(call[s].on), "update", "rm_purge") /\ call' = call
    BY <1>8, <2>1, TakeOrders, RowKinds, CallFacts
    DEF RemoveDelete, FirstLock, SecondLock, Accepting, AllOrdered, Ordered
  <2> QED BY <1>8, <2>1, <1>3 DEF RemoveDelete, Refuse
<1>9. ASSUME NEW s \in Sessions, LeaveLock(s) PROVE AllOrdered'
  <2>1. ASSUME NEW l \in {"lv_owners", "lv_purge"},
               Take(s, Membership(call[s].by), "update", l), call' = call
        PROVE  AllOrdered'
    BY <1>9, <2>1, TakeOrders, RowKinds, CallFacts
    DEF LeaveLock, FirstLock, SecondLock, Accepting, AllOrdered, Ordered
  <2> QED BY <1>9, <2>1, <1>3 DEF LeaveLock, Refuse
<1>10. ASSUME NEW s \in Sessions, DeleteLockWorkspace(s) PROVE AllOrdered'
  <2>1. CASE Take(s, WsRow, "update", "del_me") /\ call' = call
    BY <1>10, <2>1, TakeOrders, RowKinds, CallFacts
    DEF DeleteLockWorkspace, FirstLock, SecondLock, Accepting, AllOrdered, Ordered
  <2> QED BY <1>10, <2>1, <1>3 DEF DeleteLockWorkspace, Refuse
<1>11. ASSUME NEW s \in Sessions, DeleteLockRequester(s) PROVE AllOrdered'
  <2>1. CASE Take(s, Membership(call[s].by), "update", "del_rows") /\ call' = call
    BY <1>11, <2>1, TakeOrders, RowKinds, CallFacts
    DEF DeleteLockRequester, FirstLock, SecondLock, Accepting, AllOrdered, Ordered
  <2> QED BY <1>11, <2>1, <1>3 DEF DeleteLockRequester, Refuse
<1>12. ASSUME NEW s \in Sessions, AcceptConsume(s) PROVE AllOrdered'
  <2>1. CASE Take(s, Invitation(call[s].on), "update", "ac_member") /\ call' = call
    BY <1>12, <2>1, TakeOrders, RowKinds, CallFacts
    DEF AcceptConsume, FirstLock, SecondLock, Accepting, AllOrdered, Ordered
  <2> QED BY <1>12, <2>1, <1>3 DEF AcceptConsume, Refuse
<1>13. ASSUME NEW s \in Sessions, WriteLockWorkspace(s) PROVE AllOrdered'
  <2>1. ASSUME NEW l \in {"in_save", "in_member"}, Take(s, WsRow, "share", l), call' = call
        PROVE  AllOrdered'
    BY <1>13, <2>1, TakeOrders, RowKinds, CallFacts
    DEF WriteLockWorkspace, FirstLock, SecondLock, Accepting, AllOrdered, Ordered
  <2> QED BY <1>13, <2>1, <1>3 DEF WriteLockWorkspace, Refuse
<1>14. ASSUME NEW s \in Sessions, WriteLockMember(s) PROVE AllOrdered'
  <2>1. CASE Take(s, Membership(call[s].on), "share", "in_save") /\ call' = call
    BY <1>14, <2>1, TakeOrders, RowKinds, CallFacts
    DEF WriteLockMember, FirstLock, SecondLock, Accepting, AllOrdered, Ordered
  <2> QED BY <1>14, <2>1, <1>3 DEF WriteLockMember, Refuse
<1>15. ASSUME NEW s \in Sessions, DeleteRow(s) PROVE AllOrdered'
  <2>1. PICK r \in Undeleted(s) : Take(s, r, "update", "del_rows") /\ call' = call
    BY <1>15 DEF DeleteRow
  <2> QED BY <1>15, <2>1, TakeOrders DEF DeleteRow, FirstLock, SecondLock, Accepting
<1>16. ASSUME NEW s \in Sessions, LeaveCountOwners(s) PROVE AllOrdered'
  <2>1. CASE Refuse(s)
    BY <2>1, <1>3 DEF Refuse
  <2>2. CASE ~Refuse(s)
    <3>1. /\ pc[s] = "lv_owners" /\ pc' = [pc EXCEPT ![s] = "lv_purge"] /\ call' = call
          /\ held' = [held EXCEPT ![s] = @ \cup {<<Membership(u), "update">> :
                                                   u \in {v \in Users : role[v] = "owner"}}]
      BY <1>16, <2>2 DEF LeaveCountOwners, Goto
    <3>2. /\ pc'[s] = "lv_purge" /\ call'[s] = call[s]
          /\ \A l \in held'[s] : l \in held[s] \/ \E u \in Users : l[1] = Membership(u)
          /\ \A t \in Sessions \ {s} :
               pc'[t] = pc[t] /\ call'[t] = call[t] /\ held'[t] = held[t]
      BY <3>1 DEF IInv, TypeOK
    <3>3. \A l \in held'[s] : IsInvitation(l[1]) => call[s].op = "accept"
      BY <3>1, <3>2, RowKinds DEF AllOrdered, Ordered
    <3>4. Ordered(s)'
      BY <3>2, <3>3 DEF Ordered, FirstLock, SecondLock, Accepting, IsInvitation, Invitation
    <3> QED BY <3>2, <3>4, OthersOrdered
  <2> QED BY <2>1, <2>2
<1>17. ASSUME NEW s \in Sessions, AcceptFindMember(s) PROVE AllOrdered'
  <2>1. CASE ~End(s)
    <3>1. /\ pc[s] = "ac_member" /\ pc'[s] = "ac_insert"
          /\ \A t \in Sessions : call'[t] = call[t] /\ held'[t] = held[t]
          /\ \A t \in Sessions \ {s} : pc'[t] = pc[t]
      BY <1>17, <2>1 DEF AcceptFindMember, Goto, IInv, TypeOK
    <3>2. Ordered(s)'
      BY <3>1 DEF AllOrdered, Ordered, FirstLock, SecondLock, Accepting, IsInvitation,
         Invitation
    <3> QED BY <3>1, <3>2, OthersOrdered
  <2> QED BY <2>1, <1>3
<1>18. ASSUME NEW s \in Sessions,
                 \/ RoleSave(s) \/ TransferSave(s) \/ RemovePurge(s) \/ LeavePurge(s)
                 \/ DeleteCommit(s) \/ AddInsert(s) \/ AcceptInsert(s) \/ WriteSave(s)
                 \/ LockTimeout(s) \/ DeadlockVictim(s) \/ Disconnect(s)
          PROVE  AllOrdered'
  BY <1>18, <1>3 DEF RoleSave, TransferSave, RemovePurge, LeavePurge, Depart,
     DeleteCommit, AddInsert, AcceptInsert, Insert, WriteSave, LockTimeout,
     DeadlockVictim, Disconnect, Refuse
<1>19. ASSUME NEW u \in Users, ShareIntegration(u) PROVE AllOrdered'
  BY <1>19 DEF ShareIntegration, AllOrdered, Ordered, IsInvitation, Invitation, WsRow
<1> QED
  BY <1>1, <1>2, <1>4, <1>5, <1>6, <1>7, <1>8, <1>9, <1>10, <1>11, <1>12, <1>13, <1>14,
     <1>15, <1>16, <1>17, <1>18, <1>19 DEF Next, Statement, Transfer

\* Behind its first lock a request waits for one that is further on, and the last of
\* them waits for nobody.
LEMMA OrderedNoCircle == IInv /\ AllOrdered => OrderedLocks
<1> SUFFICES ASSUME IInv, AllOrdered, NEW S \in SUBSET Sessions, Deadlocked(S),
                    \A s \in S : call[s].op # "accept"
             PROVE  FALSE
  BY DEF OrderedLocks
<1>1. ASSUME NEW s \in S
      PROVE  \E t \in S : t # s /\ \E l \in Wanted(s), k \in held[t] : Conflict(k, l)
  BY DEF Deadlocked, Blockers
<1>2. ASSUME NEW s \in S PROVE pc[s] # "in_save"
  <2>1. SUFFICES ASSUME pc[s] = "in_save" PROVE FALSE
    OBVIOUS
  <2>2. <<WsRow, "share">> \in held[s]
    BY <2>1 DEF AllOrdered, Ordered
  <2>3. \A l \in Wanted(s) : l = <<WsRow, "share">>
    BY <2>1 DEF Wanted
  <2> QED BY <1>1, <2>2, <2>3 DEF IInv, Exclusive
<1>3. ASSUME NEW s \in S PROVE pc[s] # "lv_owners"
  <2>1. SUFFICES ASSUME pc[s] = "lv_owners" PROVE FALSE
    OBVIOUS
  <2>2. Owns(s, Membership(call[s].by)) /\ role[call[s].by] = "owner" /\ call[s].by \in Users
    BY <2>1, CallFacts DEF IInv, Judged, Locked
  <2>3. \A l \in Wanted(s) : l = <<Membership(call[s].by), "update">>
    BY <2>1, <2>2 DEF Wanted, IInv, OneOwner
  <2> QED BY <1>1, <2>2, <2>3 DEF IInv, Exclusive, Owns
<1>4. ASSUME NEW s \in S
      PROVE  pc[s] \in FirstLock \cup SecondLock \cup {"xfer_to", "del_rows"}
  <2>1. Wanted(s) # {} /\ pc[s] \notin Accepting
    BY DEF Deadlocked, Waits, AllOrdered, Ordered
  <2> QED BY <1>2, <1>3, <2>1 DEF Wanted, FirstLock, SecondLock, Accepting
<1>5. ASSUME NEW t \in S, NEW k \in held[t], k[1] # WsRow
      PROVE  pc[t] \in {"xfer_to", "del_rows"}
  BY <1>4, <1>5 DEF AllOrdered, Ordered
<1>6. ASSUME NEW s \in S, pc[s] \in SecondLock \cup {"xfer_to", "del_rows"}
      PROVE  \A l \in Wanted(s) : l[1] # WsRow
  <2>1. CASE pc[s] # "del_rows"
    BY <1>6, <2>1, CallFacts, RowKinds DEF Wanted, SecondLock
  <2>2. CASE pc[s] = "del_rows"
    <3>1. \A r \in Undeleted(s) : r # WsRow
      BY RowKinds DEF Undeleted, Invitations, Members
    <3> QED BY <2>2, <3>1 DEF Wanted
  <2> QED BY <2>1, <2>2
<1>7. ASSUME NEW s \in S PROVE pc[s] \notin {"xfer_to", "del_rows"}
  <2>1. SUFFICES ASSUME pc[s] \in {"xfer_to", "del_rows"} PROVE FALSE
    OBVIOUS
  <2>2. PICK t \in S : t # s /\ \E l \in Wanted(s), k \in held[t] : Conflict(k, l)
    BY <1>1
  <2>3. pc[t] \in {"xfer_to", "del_rows"}
    BY <1>5, <1>6, <2>1, <2>2 DEF Conflict
  <2>4. Owns(s, WsRow) /\ Owns(t, WsRow)
    BY <2>1, <2>3 DEF IInv, Judged
  <2> QED BY <2>2, <2>4, OneOwnerOfRow DEF IInv
<1>8. ASSUME NEW s \in S PROVE pc[s] \notin SecondLock
  BY <1>1, <1>5, <1>6, <1>7 DEF Conflict
<1>9. ASSUME NEW s \in S PROVE held[s] = {}
  BY <1>4, <1>7, <1>8 DEF AllOrdered, Ordered
<1>10. PICK s \in S : TRUE
  BY DEF Deadlocked
<1> QED BY <1>1, <1>9, <1>10

\* Transfers, removals, departures, deletions and the writes of integrations never wait
\* for each other in a circle: they lock the workspace before its members, and a
\* request that has locked a member and waits on is the only one to hold the workspace.
THEOREM LocksAlwaysOrdered == Spec => []OrderedLocks
<1>1. Init => AllOrdered
  BY DEF Init, AllOrdered, Ordered, SecondLock, Accepting
<1> QED BY <1>1, InitHolds, StepKeeps, StepOrders, OrderedNoCircle, PTL DEF Spec
==============================================================================

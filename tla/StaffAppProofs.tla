--------------------------- MODULE StaffAppProofs ---------------------------
(***************************************************************************)
(* Theorems about StaffApp, for every set of requests, workers and staff:  *)
(* a removed member finishes the calls in progress and no other, and what  *)
(* a page or an export has read, one SELECT after another, fits together   *)
(* whatever the desk commits in between, a purge included.                 *)
(*                                                                         *)
(* A step of the app is a step of the desk or leaves the desk as it is, so *)
(* that the desk's invariants (DeskIInv) hold of it.  On top of them come  *)
(* the open calls (CallIInv), the list of transactions (ListIInv) and what *)
(* the reader knows (ViewIInv).                                            *)
(***************************************************************************)
EXTENDS StaffApp, FrontDeskProofs, SubsequenceProofs

USE StoreAssumption, WorkerAssumption, PurgeAssumption

\* The desk underneath.
DeskIInv ==
    /\ VersionIInv /\ ApprovesADraft
    /\ ResolutionIsAudited /\ AuditCrossReferencesDrafts

LEMMA AppTakesDeskSteps == [AppNext]_<<vars, appVars>> => [Next]_vars
  BY DEF AppNext, System, removeMember, requireMembershipForAction, refused, openDetail, openExport,
         closeView, select, vars

LEMMA DeskInit == Init => DeskIInv
  <1>1. Init => VersionIInv
    BY TypeIInvInit, LockInit, RowInit, VersionInit DEF LockIInv, RowIInv, VersionIInv
  <1>2. Init => ApprovesADraft /\ AuditCrossReferencesDrafts
    BY DEF Init, StaffInit, NotActing, StoreInit, ApprovesADraft, AuditCrossReferencesDrafts
  <1> QED BY <1>1, <1>2, ResolutionIsAuditedInit DEF DeskIInv

LEMMA DeskStep == DeskIInv /\ [Next]_vars => DeskIInv'
  <1>1. VersionIInv => TypeIInv
    BY DEF VersionIInv, RowIInv, LockIInv
  <1> QED BY <1>1, VersionIInvStep, ApprovesStep, AuditStep, ResolutionIsAuditedStep DEF DeskIInv

-----------------------------------------------------------------------------
Entries == [by : Staff, req : Requests \cup {NoOne}, row : Nat]

AppTypes ==
    /\ late \in [Staff -> Nat]
    /\ started \in Seq(Entries)
    /\ \A i \in DOMAIN started : started[i].row > 0 => started[i].req \in Requests

\* Whoever is in a transaction has one in the list ...
CallsAreOpen == \A s \in Staff : st[s].pc # "idle" => InCall(s)

\* ... which only a member begins, and a removed one ends by writing.
RemovedHaveWritten ==
    \A s \in Staff :
        /\ late[s] <= IF s \in grace THEN 1 ELSE 0
        /\ Caller[s] \in members => s \notin grace
        /\ Caller[s] \notin members /\ InCall(s) => s \in grace /\ late[s] = 0

CallIInv == AppTypes /\ CallsAreOpen /\ RemovedHaveWritten

LEMMA OpenType ==
    ASSUME NEW s \in Staff
    PROVE  Open(s) \in Entries /\ Open(s).row = 0 /\ Open(s).by = s
  BY DEF Open, Entries

LEMMA OpenOf ==
    ASSUME NEW s \in Staff, NEW x \in Staff, Open(s) = Open(x)
    PROVE  s = x
  BY DEF Open

LEMMA RequireCalls ==
    ASSUME NEW s \in Staff, CallIInv, requireMembershipForAction(s)
    PROVE  CallIInv'
  <1>1. started' = Append(started, Open(s)) /\ UNCHANGED <<members, grace, late, st>>
       /\ Caller[s] \in members
    BY DEF requireMembershipForAction, MembershipOf, vars, staffVars
  <1>2. /\ started' \in Seq(Entries) /\ Len(started') = Len(started) + 1
        /\ started'[Len(started) + 1] = Open(s)
        /\ \A i \in 1..Len(started) : started'[i] = started[i]
        /\ DOMAIN started = 1..Len(started) /\ DOMAIN started' = 1..(Len(started) + 1)
        /\ Len(started) \in Nat
    BY <1>1, OpenType DEF CallIInv, AppTypes
  <1>3. \A i \in DOMAIN started' : i \in DOMAIN started \/ i = Len(started) + 1
    BY <1>2
  <1>4. AppTypes'
    BY <1>1, <1>2, <1>3, OpenType DEF CallIInv, AppTypes
  <1>5. \A x \in Staff : InCall(x) => InCall(x)'
    BY <1>2 DEF InCall
  <1>6. \A x \in Staff : InCall(x)' => InCall(x) \/ x = s
    BY <1>2, <1>3, OpenOf DEF InCall
  <1>7. CallsAreOpen'
    BY <1>1, <1>5 DEF CallIInv, CallsAreOpen
  <1>8. RemovedHaveWritten'
    BY <1>1, <1>6 DEF CallIInv, RemovedHaveWritten
  <1> QED BY <1>4, <1>7, <1>8 DEF CallIInv

LEMMA RefusedCalls ==
    ASSUME NEW s \in Staff, CallIInv, refused(s)
    PROVE  CallIInv'
  <1> DEFINE I == {i \in DOMAIN started : started[i] # Open(s)}
  <1>1. /\ started' = Kept(started, I) /\ UNCHANGED <<members, grace, late, st>> /\ st[s].pc = "idle"
        /\ I \subseteq DOMAIN started /\ started \in Seq(Entries)
    BY DEF refused, vars, staffVars, CallIInv, AppTypes
  <1> HIDE DEF I
  <1>2. started' \in Seq(Entries)
    BY <1>1, KeptType
  <1>3. ASSUME NEW k \in DOMAIN started'
        PROVE  \E i \in DOMAIN started : started'[k] = started[i]
    <2>1. Kth(I, k) \in I /\ started'[k] = started[Kth(I, k)]
      BY <1>1, KeptFrom
    <2> QED BY <1>1, <2>1
  <1>4. AppTypes'
    BY <1>1, <1>2, <1>3 DEF CallIInv, AppTypes
  <1>5. ASSUME NEW x \in Staff
        PROVE  /\ InCall(x)' => InCall(x)
               /\ InCall(x) /\ x # s => InCall(x)'
    <2>0. I \subseteq DOMAIN started /\ started \in Seq(Entries)
      BY <1>1
    <2>1. ASSUME NEW k \in DOMAIN Kept(started, I), Kept(started, I)[k] = Open(x)
          PROVE  \E i \in I : started[i] = Open(x)
      <3>1. Kth(I, k) \in I /\ Kept(started, I)[k] = started[Kth(I, k)]
        BY <2>0, KeptFrom
      <3> QED BY <2>1, <3>1
    <2>5. ASSUME NEW i \in I, started[i] = Open(x)
          PROVE  \E k \in DOMAIN Kept(started, I) : Kept(started, I)[k] = Open(x)
      <3>1. \E k \in DOMAIN Kept(started, I) : Kept(started, I)[k] = started[i]
        BY <2>0, KeptAll
      <3> QED BY <2>5, <3>1
    <2>6. InCall(x)' <=> \E k \in DOMAIN started' : started'[k] = Open(x)
      BY DEF InCall, Open
    <2>2. InCall(x)' <=> \E i \in I : started[i] = Open(x)
      BY <1>1, <2>1, <2>5, <2>6
    <2>3. x # s => Open(x) # Open(s)
      BY OpenOf
    <2>4. \A i : i \in I <=> i \in DOMAIN started /\ started[i] # Open(s)
      BY DEF I
    <2> QED BY <2>2, <2>3, <2>4 DEF InCall
  <1>6. CallsAreOpen'
    BY <1>1, <1>5 DEF CallIInv, CallsAreOpen
  <1>7. RemovedHaveWritten'
    BY <1>1, <1>5 DEF CallIInv, RemovedHaveWritten
  <1> QED BY <1>4, <1>6, <1>7 DEF CallIInv

-----------------------------------------------------------------------------
\* A call that writes adds a row to the history of a request that is there.
LEMMA WritesEffect ==
    ASSUME TypeIInv, TypeIInv', NEW s \in Staff, Writes(s)
    PROVE  /\ st[s].req \in Requests
           /\ Len(audit'[st[s].req]) \in Nat \ {0}
  <1>1. /\ StaffHoldRequests /\ audit \in [Requests -> Seq(Actions)]
        /\ audit' \in [Requests -> Seq(Actions)]
    BY DEF TypeIInv, TypeInv, TypeOK, StoreTypeOK
  <1>2. st[s].req \in Requests
    BY <1>1 DEF Writes, Ends, StaffHoldRequests
  <1>3. Len(audit'[st[s].req]) \in Nat /\ Len(audit[st[s].req]) \in Nat
    BY <1>1, <1>2
  <1>4. Len(audit'[st[s].req]) > Len(audit[st[s].req])
    BY DEF Writes
  <1>5. Len(audit'[st[s].req]) # 0
    BY <1>3, <1>4
  <1> QED BY <1>2, <1>3, <1>5

LEMMA NowType ==
    ASSUME TypeIInv, TypeIInv', NEW e \in Entries, e.row > 0 => e.req \in Requests
    PROVE  /\ Now(e) \in Entries
           /\ Now(e).row > 0 => Now(e).req \in Requests
           /\ Now(e).by = e.by
  <1>1. CASE e.row = 0 /\ Writes(e.by)
    <2>1. e.by \in Staff
      BY DEF Entries
    <2>2. st[e.by].req \in Requests /\ Len(audit'[st[e.by].req]) \in Nat
      BY <1>1, <2>1, WritesEffect
    <2>3. Now(e) = [by |-> e.by, req |-> st[e.by].req, row |-> Len(audit'[st[e.by].req])]
      BY <1>1 DEF Now
    <2> QED BY <2>1, <2>2, <2>3 DEF Entries
  <1>2. CASE ~(e.row = 0 /\ Writes(e.by))
    BY <1>2 DEF Now
  <1> QED BY <1>1, <1>2

LEMMA NowOpen ==
    ASSUME TypeIInv, TypeIInv', NEW e \in Entries, NEW x \in Staff
    PROVE  Now(e) = Open(x) /\ Remains(Now(e)) <=> e = Open(x) /\ ~Ends(x)
  <1>1. Open(x).row = 0 /\ Open(x).by = x
    BY OpenType
  <1>2. CASE e.row = 0 /\ Writes(e.by)
    <2>1. e.by \in Staff
      BY DEF Entries
    <2>2. Now(e).row # 0
      BY <1>2, <2>1, WritesEffect DEF Now
    <2>3. e = Open(x) => Ends(x)
      BY <1>1, <1>2 DEF Writes
    <2> QED BY <1>1, <2>2, <2>3
  <1>3. CASE ~(e.row = 0 /\ Writes(e.by))
    <2>1. Now(e) = e
      BY <1>3 DEF Now
    <2>2. e = Open(x) => (Remains(e) <=> ~Ends(x))
      BY <1>1 DEF Remains
    <2> QED BY <2>1, <2>2
  <1> QED BY <1>2, <1>3

\* The list after a step of the desk.
NowList == [i \in DOMAIN started |-> Now(started[i])]

Left == {i \in DOMAIN NowList : Remains(NowList[i])}

LEMMA NowListType ==
    ASSUME TypeIInv, TypeIInv', AppTypes
    PROVE  /\ NowList \in Seq(Entries) /\ DOMAIN NowList = DOMAIN started
           /\ Left \subseteq DOMAIN NowList
           /\ \A i \in DOMAIN started :
                 /\ NowList[i] = Now(started[i])
                 /\ NowList[i].row > 0 => NowList[i].req \in Requests
           /\ \A i : i \in Left <=> i \in DOMAIN started /\ Remains(Now(started[i]))
  <1>1. started \in Seq(Entries) /\ DOMAIN started = 1..Len(started) /\ Len(started) \in Nat
    BY DEF AppTypes
  <1>2. \A i \in DOMAIN started : started[i] \in Entries
    BY <1>1
  <1>3. \A i \in DOMAIN started : /\ Now(started[i]) \in Entries
                                  /\ Now(started[i]).row > 0 => Now(started[i]).req \in Requests
    BY <1>2, NowType DEF AppTypes
  <1>4. NowList = [i \in 1..Len(started) |-> Now(started[i])]
    BY <1>1 DEF NowList
  <1>5. NowList \in Seq(Entries)
    BY <1>1, <1>3, <1>4
  <1>6. DOMAIN NowList = DOMAIN started
    BY DEF NowList
  <1>7. \A i \in DOMAIN started : NowList[i] = Now(started[i])
    BY DEF NowList
  <1>8. Left \subseteq DOMAIN NowList
    BY DEF Left
  <1>9. \A i : i \in Left <=> i \in DOMAIN started /\ Remains(Now(started[i]))
    BY <1>6, <1>7 DEF Left
  <1> QED BY <1>3, <1>5, <1>6, <1>7, <1>8, <1>9

LEMMA SystemList ==
    ASSUME TypeIInv, TypeIInv', AppTypes, System
    PROVE  /\ started' = Kept(NowList, Left)
           /\ started' \in Seq(Entries)
           /\ \A k \in DOMAIN started' : \E i \in Left : started'[k] = Now(started[i])
           /\ \A i \in Left : \E k \in DOMAIN started' : started'[k] = Now(started[i])
  <1>1. started' = Kept(NowList, Left)
    BY DEF System, StartedNext, NowList, Left
  <1>2. /\ NowList \in Seq(Entries) /\ Left \subseteq DOMAIN NowList
        /\ \A i \in Left : NowList[i] = Now(started[i])
    BY NowListType
  <1>3. started' \in Seq(Entries)
    BY <1>1, <1>2, KeptType
  <1>4. ASSUME NEW k \in DOMAIN started' PROVE \E i \in Left : started'[k] = Now(started[i])
    <2>1. Kth(Left, k) \in Left /\ started'[k] = NowList[Kth(Left, k)]
      BY <1>1, <1>2, KeptFrom
    <2> QED BY <1>2, <2>1
  <1>5. ASSUME NEW i \in Left PROVE \E k \in DOMAIN started' : started'[k] = Now(started[i])
    <2>1. \E k \in DOMAIN Kept(NowList, Left) : Kept(NowList, Left)[k] = NowList[i]
      BY <1>2, KeptAll
    <2> QED BY <1>1, <1>2, <2>1
  <1> QED BY <1>1, <1>3, <1>4, <1>5

\* A transaction is open after a step of the desk if it was and did not end.
LEMMA SystemCalls ==
    ASSUME TypeIInv, TypeIInv', AppTypes, System, NEW x \in Staff
    PROVE  InCall(x)' <=> InCall(x) /\ ~Ends(x)
  <1>1. \A i \in DOMAIN started : started[i] \in Entries
    BY DEF AppTypes
  <1>2. \A i \in DOMAIN started : i \in Left <=> Remains(Now(started[i]))
    BY NowListType
  <1>3. \A i \in Left : i \in DOMAIN started
    BY NowListType
  <1>4. \A i \in DOMAIN started : i \in Left /\ Now(started[i]) = Open(x)
                                  <=> started[i] = Open(x) /\ ~Ends(x)
    BY <1>1, <1>2, NowOpen
  <1>5. InCall(x)' <=> \E k \in DOMAIN started' : started'[k] = Open(x)
    BY DEF InCall, Open
  <1>6. (\E k \in DOMAIN started' : started'[k] = Open(x))
            <=> \E i \in Left : Now(started[i]) = Open(x)
    BY SystemList
  <1>7. (\E i \in Left : Now(started[i]) = Open(x)) <=> InCall(x) /\ ~Ends(x)
    BY <1>3, <1>4 DEF InCall
  <1> QED BY <1>5, <1>6, <1>7

LEMMA SystemKeepsCalls ==
    ASSUME TypeIInv, TypeIInv', CallIInv, System
    PROVE  CallIInv'
  <1>0. AppTypes /\ CallsAreOpen /\ RemovedHaveWritten
    BY DEF CallIInv
  <1>1. /\ members' = members /\ grace' = grace
        /\ late' = [s \in Staff |-> IF Caller[s] \notin members /\ Writes(s) THEN late[s] + 1 ELSE late[s]]
        /\ \A s \in Staff : st[s].pc = "idle" /\ st'[s].pc # "idle" => InCall(s)
    BY DEF System
  <1>2. late' \in [Staff -> Nat]
    BY <1>0, <1>1 DEF AppTypes
  <1>3. AppTypes'
    <2>1. \A i \in Left : Now(started[i]).row > 0 => Now(started[i]).req \in Requests
      BY <1>0, NowListType
    <2>2. \A k \in DOMAIN started' : started'[k].row > 0 => started'[k].req \in Requests
      BY <1>0, <2>1, SystemList
    <2>3. started' \in Seq(Entries)
      BY <1>0, SystemList
    <2> QED BY <1>2, <2>2, <2>3 DEF AppTypes
  <1>4. \A x \in Staff : InCall(x)' <=> InCall(x) /\ ~Ends(x)
    BY <1>0, SystemCalls
  <1>5. CallsAreOpen'
    <2> SUFFICES ASSUME NEW x \in Staff, st'[x].pc # "idle" PROVE InCall(x)'
      BY DEF CallsAreOpen
    <2>1. ~Ends(x)
      BY DEF Ends
    <2>2. InCall(x)
      BY <1>0, <1>1 DEF CallsAreOpen
    <2> QED BY <1>4, <2>1, <2>2
  <1>6. RemovedHaveWritten'
    <2> SUFFICES ASSUME NEW x \in Staff
                 PROVE  /\ late'[x] <= IF x \in grace THEN 1 ELSE 0
                        /\ Caller[x] \in members => x \notin grace
                        /\ Caller[x] \notin members /\ InCall(x)' => x \in grace /\ late'[x] = 0
      BY <1>1 DEF RemovedHaveWritten
    <2>0. late[x] \in Nat
      BY <1>0 DEF AppTypes
    <2>1. CASE Caller[x] \notin members /\ Writes(x)
      <3>1. Ends(x) /\ st[x].pc # "idle"
        BY <2>1 DEF Writes, Ends
      <3>2. InCall(x)
        BY <1>0, <3>1 DEF CallsAreOpen
      <3>3. x \in grace /\ late[x] = 0
        BY <1>0, <2>1, <3>2 DEF RemovedHaveWritten
      <3>4. late'[x] = 1
        BY <1>1, <2>1, <3>3
      <3> QED BY <1>4, <2>1, <3>1, <3>3, <3>4
    <2>2. CASE ~(Caller[x] \notin members /\ Writes(x))
      <3>1. late'[x] = late[x]
        BY <1>1, <2>2
      <3> QED BY <1>0, <1>4, <3>1 DEF RemovedHaveWritten
    <2> QED BY <2>1, <2>2
  <1> QED BY <1>3, <1>5, <1>6 DEF CallIInv

LEMMA CallsInit == AppInit => CallIInv
  <1> SUFFICES ASSUME AppInit PROVE CallIInv
    OBVIOUS
  <1>1. /\ late = [s \in Staff |-> 0] /\ started = <<>> /\ grace = {} /\ members = Members
        /\ \A s \in Staff : st[s].pc = "idle"
    BY DEF AppInit, Init, StaffInit, NotActing
  <1>2. DOMAIN started = {} /\ started \in Seq(Entries)
    BY <1>1
  <1> QED BY <1>1, <1>2 DEF CallIInv, AppTypes, CallsAreOpen, RemovedHaveWritten, InCall

LEMMA CallsStep == TypeIInv /\ TypeIInv' /\ CallIInv /\ [AppNext]_<<vars, appVars>> => CallIInv'
  <1> SUFFICES ASSUME TypeIInv, TypeIInv', CallIInv, [AppNext]_<<vars, appVars>> PROVE CallIInv'
    OBVIOUS
  <1>0. ASSUME UNCHANGED <<st, late, started>>
        PROVE  /\ AppTypes' /\ CallsAreOpen'
               /\ \A x \in Staff : InCall(x)' <=> InCall(x)
    BY <1>0 DEF CallIInv, AppTypes, CallsAreOpen, InCall, Open
  <1>1. ASSUME UNCHANGED <<st, late, started, members, grace>> PROVE CallIInv'
    BY <1>0, <1>1 DEF CallIInv, RemovedHaveWritten
  <1>2. ASSUME NEW m \in Members, removeMember(m) PROVE CallIInv'
    <2>1. /\ UNCHANGED <<st, late, started>> /\ members' = members \ {m}
          /\ \A x \in Staff : x \in grace' <=> x \in grace \/ (Caller[x] = m /\ InCall(x))
      BY <1>2 DEF removeMember, vars, staffVars
    <2>2. AppTypes' /\ CallsAreOpen' /\ \A x \in Staff : InCall(x)' <=> InCall(x)
      BY <1>0, <2>1
    <2>3. m \in members
      BY <1>2 DEF removeMember
    <2>4. ASSUME NEW x \in Staff
          PROVE  /\ late[x] <= IF x \in grace' THEN 1 ELSE 0
                 /\ Caller[x] \in members' => x \notin grace'
                 /\ Caller[x] \notin members' /\ InCall(x) => x \in grace' /\ late[x] = 0
      <3>1. late[x] \in Nat
        BY DEF CallIInv, AppTypes
      <3>2. /\ late[x] <= IF x \in grace THEN 1 ELSE 0
            /\ Caller[x] \in members => x \notin grace
            /\ Caller[x] \notin members /\ InCall(x) => x \in grace /\ late[x] = 0
        BY DEF CallIInv, RemovedHaveWritten
      <3>3. CASE Caller[x] = m
        <4>1. x \notin grace /\ late[x] = 0
          BY <2>3, <3>1, <3>2, <3>3
        <4> QED BY <2>1, <3>3, <4>1
      <3>4. CASE Caller[x] # m
        BY <2>1, <3>2, <3>4
      <3> QED BY <3>3, <3>4
    <2>5. RemovedHaveWritten'
      BY <2>1, <2>2, <2>4 DEF RemovedHaveWritten
    <2> QED BY <2>2, <2>5 DEF CallIInv
  <1>3. CASE UNCHANGED <<vars, appVars>>
    BY <1>1, <1>3 DEF vars, staffVars, appVars
  <1>4. CASE \/ closeView \/ select
             \/ \E s \in Staff, r \in Requests : openDetail(s, r)
             \/ \E r \in Requests : openExport(r)
    BY <1>1, <1>4 DEF closeView, select, openDetail, openExport, vars, staffVars
  <1> QED BY <1>2, <1>3, <1>4, RequireCalls, RefusedCalls, SystemKeepsCalls DEF AppNext

\* Whatever AppSpec allows is a behaviour of the desk.
LEMMA DeskAlways == AppSpec => []DeskIInv
  <1>1. AppInit => DeskIInv
    BY DeskInit DEF AppInit
  <1> QED BY <1>1, DeskStep, AppTakesDeskSteps, PTL DEF AppSpec

LEMMA DeskTypes == DeskIInv => TypeIInv
  BY DEF DeskIInv, VersionIInv, RowIInv, LockIInv

LEMMA CallsAlways == AppSpec => []CallIInv
  BY CallsInit, CallsStep, DeskTypes, DeskAlways, PTL DEF AppSpec

\* auth-guard.ts:11-22: a removal takes effect on the very next request, for any
\* number of members, each with any number of calls at once: those in progress
\* are the last that write, and each of them once.
THEOREM RemovedMembersStop == AppSpec => []RemovedFinishesItsCalls
  <1>1. CallIInv => RemovedFinishesItsCalls
    BY DEF CallIInv, RemovedHaveWritten, RemovedFinishesItsCalls
  <1> QED BY <1>1, CallsAlways, PTL

-----------------------------------------------------------------------------
\* The list of transactions has every committed audit row, and nothing else.
RowsAreListed ==
    \A r \in Requests : \A k \in 1..Len(audit[r]) :
        \E i \in DOMAIN started : started[i].req = r /\ started[i].row = k

ListedAreRows ==
    \A i \in DOMAIN started :
        started[i].row > 0 => started[i].row \in 1..Len(audit[started[i].req])

ListIInv == CallIInv /\ RowsAreListed /\ ListedAreRows

LEMMA RequireList ==
    ASSUME NEW s \in Staff, ListIInv, requireMembershipForAction(s)
    PROVE  RowsAreListed' /\ ListedAreRows'
  <1>1. started' = Append(started, Open(s)) /\ audit' = audit
    BY DEF requireMembershipForAction, vars, storeVars
  <1>2. /\ started'[Len(started) + 1] = Open(s)
        /\ \A i \in 1..Len(started) : started'[i] = started[i]
        /\ DOMAIN started = 1..Len(started) /\ DOMAIN started' = 1..(Len(started) + 1)
        /\ Len(started) \in Nat
    BY <1>1, OpenType DEF ListIInv, CallIInv, AppTypes
  <1>3. RowsAreListed'
    BY <1>1, <1>2 DEF ListIInv, RowsAreListed
  <1>4. \A i \in DOMAIN started' : i \in DOMAIN started \/ started'[i].row = 0
    BY <1>2, OpenType
  <1>5. ListedAreRows'
    BY <1>1, <1>2, <1>4 DEF ListIInv, ListedAreRows
  <1> QED BY <1>3, <1>5

LEMMA RefusedList ==
    ASSUME NEW s \in Staff, ListIInv, refused(s)
    PROVE  RowsAreListed' /\ ListedAreRows'
  <1> DEFINE I == {i \in DOMAIN started : started[i] # Open(s)}
  <1>1. started' = Kept(started, I) /\ audit' = audit
    BY DEF refused, vars, storeVars
  <1>2. /\ I \subseteq DOMAIN started /\ started \in Seq(Entries)
        /\ \A i \in DOMAIN started : started[i].row \in Nat
        /\ \A i \in DOMAIN started : started[i].row > 0 => i \in I
    <2>1. started \in Seq(Entries)
      BY DEF ListIInv, CallIInv, AppTypes
    <2>2. \A i \in DOMAIN started : started[i] \in Entries
      BY <2>1
    <2>3. \A i \in DOMAIN started : started[i].row \in Nat
      BY <2>2 DEF Entries
    <2>4. Open(s).row = 0
      BY OpenType
    <2> QED BY <2>1, <2>3, <2>4
  <1> HIDE DEF I
  <1>3. ASSUME NEW k \in DOMAIN started'
        PROVE  \E i \in DOMAIN started : started'[k] = started[i]
    <2>1. Kth(I, k) \in I /\ started'[k] = started[Kth(I, k)]
      BY <1>1, <1>2, KeptFrom
    <2> QED BY <1>2, <2>1
  <1>4. ASSUME NEW i \in DOMAIN started, started[i].row > 0
        PROVE  \E k \in DOMAIN started' : started'[k] = started[i]
    <2>1. i \in I
      BY <1>2, <1>4
    <2>2. \E k \in DOMAIN Kept(started, I) : Kept(started, I)[k] = started[i]
      BY <1>2, <2>1, KeptAll
    <2> QED BY <1>1, <2>2
  <1>5. RowsAreListed'
    <2> SUFFICES ASSUME NEW r \in Requests, NEW k \in 1..Len(audit[r])
                 PROVE  \E i \in DOMAIN started' : started'[i].req = r /\ started'[i].row = k
      BY <1>1 DEF RowsAreListed
    <2>1. PICK i \in DOMAIN started : started[i].req = r /\ started[i].row = k
      BY DEF ListIInv, RowsAreListed
    <2>2. started[i].row > 0
      BY <2>1
    <2> QED BY <1>4, <2>1, <2>2
  <1>6. ListedAreRows'
    BY <1>1, <1>3 DEF ListIInv, ListedAreRows
  <1> QED BY <1>5, <1>6

\* A history that has grown was written by a call that ended.
LEMMA HistoryGrows ==
    ASSUME TypeIInv, TypeIInv', [Next]_vars, NEW r \in Requests, NEW k \in 1..Len(audit'[r]),
           k \notin 1..Len(audit[r]), Exists(r)'
    PROVE  \E s \in Staff : /\ Writes(s) /\ st[s].req = r /\ k = Len(audit'[r])
                            /\ st[s].pc # "idle"
  <1>0. StoreTypeOK /\ StoreTypeOK' /\ StaffInv
    BY DEF TypeIInv, TypeInv, TypeOK, StaffInv
  <1>1. /\ audit[r] \in Seq(Actions) /\ Len(audit[r]) \in Nat
        /\ audit'[r] \in Seq(Actions) /\ Len(audit'[r]) \in Nat
    BY <1>0 DEF StoreTypeOK
  <1>2. CASE UNCHANGED <<req, drafts, audit>>
    BY <1>2
  <1>3. CASE \E q \in Requests : insertRequest(q)
    BY <1>3 DEF insertRequest, InsertRow
  <1>4. CASE \E w \in Workers : InsertAndCommit(w)
    BY <1>4 DEF InsertAndCommit
  <1>5. ASSUME NEW s \in Staff, resolveAndRecord(s)
        PROVE  Writes(s) /\ st[s].req = r /\ k = Len(audit'[r]) /\ st[s].pc # "idle"
    <2>1. st[s].req = r
      BY <1>5, ResolveEffect
    <2>2. ReadyToWrite(s) /\ ActionRow(s) \in Actions
      BY <1>0, <1>5, ActionRowType DEF resolveAndRecord
    <2>3. audit'[r] = Append(audit[r], ActionRow(s))
      BY <1>5, <2>1, ResolveEffect DEF recordAction
    <2>4. Len(audit'[r]) = Len(audit[r]) + 1
      BY <1>1, <2>2, <2>3
    <2>5. st[s].pc # "idle"
      BY <2>2 DEF ReadyToWrite
    <2>6. st'[s].pc = "idle"
      BY <1>0, <1>5 DEF resolveAndRecord, NotActing, StaffInv, StaffTypeOK
    <2>7. k = Len(audit'[r])
      BY <1>1, <2>4
    <2> QED BY <1>1, <2>1, <2>4, <2>5, <2>6, <2>7 DEF Writes, Ends
  <1>6. ASSUME NEW batch \in SUBSET Requests, DeleteRows(batch) PROVE FALSE
    <2>1. r \notin batch
      BY <1>6 DEF DeleteRows, Exists, NoRow
    <2> QED BY <1>6, <2>1 DEF DeleteRows
  <1> QED BY <1>2, <1>3, <1>4, <1>5, <1>6, RowEffect

LEMMA SystemNext == System => [Next]_vars
  BY DEF System

LEMMA SystemListsRows ==
    ASSUME DeskIInv, DeskIInv', ListIInv, System
    PROVE  RowsAreListed'
  <1>0. /\ TypeIInv /\ TypeIInv' /\ AppTypes /\ CallsAreOpen /\ NoOrphans' /\ [Next]_vars
        /\ StoreTypeOK'
    BY DeskTypes, SystemNext DEF ListIInv, CallIInv, DeskIInv, VersionIInv, RowIInv, LockIInv,
       TypeIInv, TypeInv, TypeOK
  <1> SUFFICES ASSUME NEW r \in Requests, NEW k \in 1..Len(audit'[r])
               PROVE  \E i \in DOMAIN started' : started'[i].req = r /\ started'[i].row = k
    BY DEF RowsAreListed
  <1>1. Exists(r)'
    BY <1>0 DEF NoOrphans
  <1>2. req'[r].status # "absent"
    BY <1>1 DEF Exists
  <1>3. k > 0 /\ k # 0
    BY <1>0 DEF StoreTypeOK
  <1>4. \E i \in DOMAIN started : Now(started[i]).req = r /\ Now(started[i]).row = k
    <2>1. CASE k \in 1..Len(audit[r])
      <3>1. PICK i \in DOMAIN started : started[i].req = r /\ started[i].row = k
        BY <2>1 DEF ListIInv, RowsAreListed
      <3>2. Now(started[i]) = started[i]
        BY <1>3, <3>1 DEF Now
      <3> QED BY <3>1, <3>2
    <2>2. CASE k \notin 1..Len(audit[r])
      <3>1. PICK s \in Staff : Writes(s) /\ st[s].req = r /\ k = Len(audit'[r]) /\ st[s].pc # "idle"
        BY <1>0, <1>1, <2>2, HistoryGrows
      <3>2. PICK i \in DOMAIN started : started[i] = Open(s)
        BY <1>0, <3>1 DEF CallsAreOpen, InCall
      <3>3. Now(started[i]) = [by |-> s, req |-> st[s].req, row |-> Len(audit'[st[s].req])]
        BY <3>1, <3>2, OpenType DEF Now
      <3> QED BY <3>1, <3>3
    <2> QED BY <2>1, <2>2
  <1>5. PICK i \in DOMAIN started : Now(started[i]).req = r /\ Now(started[i]).row = k
    BY <1>4
  <1>6. Remains(Now(started[i]))
    BY <1>2, <1>3, <1>5 DEF Remains
  <1>7. i \in Left
    BY <1>0, <1>6, NowListType
  <1> QED BY <1>0, <1>5, <1>7, SystemList

LEMMA SystemListsOnlyRows ==
    ASSUME DeskIInv, DeskIInv', ListIInv, System
    PROVE  ListedAreRows'
  <1>0. /\ TypeIInv /\ TypeIInv' /\ AppTypes /\ [Next]_vars
        /\ StoreTypeOK /\ StoreTypeOK'
    BY DeskTypes, SystemNext DEF ListIInv, CallIInv, DeskIInv, VersionIInv, RowIInv, LockIInv,
       TypeIInv, TypeInv, TypeOK
  <1>1. ASSUME NEW i \in Left, Now(started[i]).row > 0
        PROVE  Now(started[i]).row \in 1..Len(audit'[Now(started[i]).req])
    <2>1. /\ i \in DOMAIN started /\ Remains(Now(started[i]))
          /\ Now(started[i]).req \in Requests
      BY <1>0, <1>1, NowListType
    <2>2. started[i] \in Entries
      BY <1>0, <2>1 DEF AppTypes
    <2>3. CASE started[i].row = 0 /\ Writes(started[i].by)
      <3>1. started[i].by \in Staff
        BY <2>2 DEF Entries
      <3>2. Len(audit'[st[started[i].by].req]) \in Nat \ {0}
        BY <1>0, <2>3, <3>1, WritesEffect
      <3>3. /\ Now(started[i]).req = st[started[i].by].req
            /\ Now(started[i]).row = Len(audit'[st[started[i].by].req])
        BY <2>3 DEF Now
      <3> QED BY <3>2, <3>3
    <2>4. CASE ~(started[i].row = 0 /\ Writes(started[i].by))
      <3>1. Now(started[i]) = started[i]
        BY <2>4 DEF Now
      <3>2. started[i].req \in Requests /\ started[i].row \in 1..Len(audit[started[i].req])
        BY <1>1, <2>1, <3>1 DEF ListIInv, ListedAreRows
      <3>3. PICK q \in Requests : q = started[i].req
        BY <3>2
      <3>4. q \in Requests /\ started[i].row \in 1..Len(audit[q])
        BY <3>2, <3>3
      <3>5. started[i].row # 0
        BY <1>0, <3>4 DEF StoreTypeOK
      <3>6. req'[q].status # "absent"
        BY <2>1, <3>1, <3>5, <3>3 DEF Remains
      <3>7. Exists(q)'
        BY <3>6 DEF Exists
      <3>8. Len(audit[q]) <= Len(audit'[q])
        BY <1>0, <3>4, <3>7, HistoryStep
      <3>9. Len(audit[q]) \in Nat /\ Len(audit'[q]) \in Nat
        BY <1>0, <3>4 DEF StoreTypeOK
      <3>10. started[i].row \in 1..Len(audit'[q])
        BY <3>4, <3>8, <3>9
      <3> QED BY <3>1, <3>10, <3>3
    <2> QED BY <2>3, <2>4
  <1>2. \A k \in DOMAIN started' : \E i \in Left : started'[k] = Now(started[i])
    BY <1>0, SystemList
  <1> QED BY <1>1, <1>2 DEF ListedAreRows

LEMMA ListStep ==
    DeskIInv /\ DeskIInv' /\ ListIInv /\ [AppNext]_<<vars, appVars>> => ListIInv'
  <1> SUFFICES ASSUME DeskIInv, DeskIInv', ListIInv, [AppNext]_<<vars, appVars>> PROVE ListIInv'
    OBVIOUS
  <1>1. TypeIInv /\ TypeIInv' /\ CallIInv
    BY DeskTypes DEF ListIInv, DeskIInv, VersionIInv, RowIInv, LockIInv
  <1>2. CallIInv'
    BY <1>1, CallsStep
  <1>3. ASSUME UNCHANGED <<audit, started>> PROVE RowsAreListed' /\ ListedAreRows'
    BY <1>3 DEF ListIInv, RowsAreListed, ListedAreRows
  <1>4. ASSUME UNCHANGED <<vars, appVars>> PROVE RowsAreListed' /\ ListedAreRows'
    BY <1>3, <1>4 DEF vars, storeVars, appVars
  <1>5. ASSUME \/ closeView \/ select
               \/ \E m \in Members : removeMember(m)
               \/ \E s \in Staff, r \in Requests : openDetail(s, r)
               \/ \E r \in Requests : openExport(r)
        PROVE  RowsAreListed' /\ ListedAreRows'
    BY <1>3, <1>5 DEF closeView, select, removeMember, openDetail, openExport, vars, storeVars
  <1>6. RowsAreListed' /\ ListedAreRows'
    BY <1>4, <1>5, RequireList, RefusedList, SystemListsRows, SystemListsOnlyRows DEF AppNext
  <1> QED BY <1>2, <1>6 DEF ListIInv

LEMMA ListInit == AppInit => ListIInv
  <1> SUFFICES ASSUME AppInit PROVE ListIInv
    OBVIOUS
  <1>1. started = <<>> /\ \A r \in Requests : audit[r] = <<>>
    BY DEF AppInit, Init, StoreInit
  <1> QED BY <1>1, CallsInit DEF ListIInv, RowsAreListed, ListedAreRows

-----------------------------------------------------------------------------
Verdicts == {"drafted", "needs_human"}

VerdictsHaveDrafts == \A r \in Requests : req[r].status \in Verdicts => drafts[r] # {}

LEMMA VerdictsInit == Init => VerdictsHaveDrafts
  BY DEF Init, StoreInit, NoRow, VerdictsHaveDrafts, Verdicts

LEMMA VerdictsStep == DeskIInv /\ VerdictsHaveDrafts /\ [Next]_vars => VerdictsHaveDrafts'
  <1> SUFFICES ASSUME DeskIInv, VerdictsHaveDrafts, [Next]_vars PROVE VerdictsHaveDrafts'
    OBVIOUS
  <1>0. /\ TypeIInv /\ LockIInv /\ StoreTypeOK
    BY DEF DeskIInv, VersionIInv, RowIInv, LockIInv, TypeIInv, TypeInv, TypeOK
  <1>1. CASE UNCHANGED <<req, drafts, audit>>
    BY <1>1 DEF VerdictsHaveDrafts
  <1>2. ASSUME NEW q \in Requests, insertRequest(q) PROVE VerdictsHaveDrafts'
    BY <1>0, <1>2 DEF insertRequest, InsertRow, NoRow, StoreTypeOK, VerdictsHaveDrafts, Verdicts
  <1>3. ASSUME NEW w \in Workers, InsertAndCommit(w) PROVE VerdictsHaveDrafts'
    BY <1>0, <1>3, CommitEffect DEF VerdictsHaveDrafts
  <1>4. ASSUME NEW s \in Staff, resolveAndRecord(s) PROVE VerdictsHaveDrafts'
    BY <1>0, <1>4, ResolveEffect DEF VerdictsHaveDrafts, Verdicts
  <1>5. ASSUME NEW batch \in SUBSET Requests, DeleteRows(batch) PROVE VerdictsHaveDrafts'
    BY <1>5 DEF DeleteRows, NoRow, VerdictsHaveDrafts, Verdicts
  <1> QED BY <1>1, <1>2, <1>3, <1>4, <1>5, RowEffect

\* A purged request does not come back.
LEMMA NeverAgain ==
    ASSUME DeskIInv, [Next]_vars, NEW r \in Requests, intake[r] # "none"
    PROVE  intake'[r] # "none" /\ (Exists(r)' => Exists(r))
  <1>0. LockIInv /\ IntakeTypeOK
    BY DEF DeskIInv, VersionIInv, RowIInv, LockIInv, TypeIInv, TypeInv, TypeOK
  <1>1. intake'[r] # "none"
    BY <1>0, IntakeEffect DEF insertRequest, enqueueRequest, reply201, intakeFails, IntakeTypeOK
  <1>2. Exists(r)' => Exists(r)
    BY <1>0, ExistsEffect DEF insertRequest
  <1> QED BY <1>1, <1>2

-----------------------------------------------------------------------------
\* What a reader knows.
ListedRows == [kind : ActionKinds, named : Nat, status : Statuses]

Views == [kind : Kinds, by : Staff \cup {NoOne}, req : Requests \cup {NoOne}, done : Nat,
          status : Statuses, versions : SUBSET Nat, actions : Seq(ListedRows), acting : BOOLEAN]

ViewType == view \in Views /\ (view.kind # "none" => view.req \in Requests)

\* A page, and an export with something to write, has found its request.
Found == view.kind = "detail" \/ view.actions # <<>>

FoundWasThere == view.done >= 1 /\ Found /\ view.kind # "none" => intake[view.req] # "none"

\* The status the page shows has an audit row, or a draft, in the tables ...
StatusIsBacked ==
    view.kind = "detail" /\ view.done >= 1 /\ Exists(view.req) =>
        /\ view.status \in RESOLVED_STATUSES =>
              \E k \in 1..Len(audit[view.req]) : audit[view.req][k].after.status = view.status
        /\ view.status \in Verdicts => drafts[view.req] # {}

\* ... and on the page, once it has read them, unless the purge was faster.
DraftIsShown ==
    view.kind = "detail" /\ view.done >= 2 /\ view.status \in Verdicts =>
        ShowsDraft \/ PurgedMeanwhile

RowIsShown ==
    view.kind = "detail" /\ view.done >= 3 /\ view.status \in RESOLVED_STATUSES =>
        ShowsInHistory(view.status) \/ (view.actions = <<>> /\ ~Exists(view.req))

NamedAreIn(versions) ==
    \A i \in DOMAIN view.actions : view.actions[i].named # 0 => view.actions[i].named \in versions

NamedAreThere ==
    view.kind = "export" /\ view.done >= 1 /\ Exists(view.req) =>
        NamedAreIn(Versions(drafts[view.req]))

NamedAreFound ==
    view.kind = "export" /\ view.done >= 2 => NamedAreIn(view.versions) \/ PurgedMeanwhile

PageIInv == FoundWasThere /\ StatusIsBacked /\ DraftIsShown /\ RowIsShown

ExportIInv == NamedAreThere /\ NamedAreFound

ViewIInv == ViewType /\ PageIInv /\ ExportIInv

LEMMA NoViewKnows ==
    ASSUME ViewType', view'.done = 0
    PROVE  ViewIInv'
  <1>1. ~(view'.done >= 1) /\ ~(view'.done >= 2) /\ ~(view'.done >= 3)
    OBVIOUS
  <1> QED BY <1>1 DEF ViewIInv, PageIInv, ExportIInv, FoundWasThere, StatusIsBacked, DraftIsShown,
            RowIsShown, NamedAreThere, NamedAreFound

LEMMA NoViewType == view' = NoView => ViewType' /\ view'.done = 0
  BY DEF ViewType, Views, NoView, Kinds, Statuses

\* The same page while the tables change.
LEMMA ViewKept ==
    ASSUME DeskIInv, DeskIInv', [Next]_vars, ViewIInv,
           \/ view' = view
           \/ view' = [view EXCEPT !.acting = TRUE]
    PROVE  ViewIInv'
  <1>0. TypeIInv /\ StoreTypeOK /\ StoreTypeOK'
    BY DEF DeskIInv, VersionIInv, RowIInv, LockIInv, TypeIInv, TypeInv, TypeOK
  <1>1. view \in Views
    BY DEF ViewIInv, ViewType
  <1>2. /\ view'.kind = view.kind /\ view'.req = view.req /\ view'.done = view.done
        /\ view'.status = view.status /\ view'.versions = view.versions
        /\ view'.actions = view.actions /\ view' \in Views
    BY <1>1 DEF Views
  <1>3. ViewType'
    BY <1>2 DEF ViewIInv, ViewType
  <1>4. CASE view.kind = "none"
    BY <1>2, <1>3, <1>4 DEF ViewIInv, PageIInv, ExportIInv, FoundWasThere, StatusIsBacked,
       DraftIsShown, RowIsShown, NamedAreThere, NamedAreFound
  <1>5. CASE view.done = 0
    BY <1>2, <1>3, <1>5, NoViewKnows
  <1>6. CASE view.kind # "none" /\ view.done # 0
    <2>1. PICK q \in Requests : q = view.req /\ q = view'.req
      BY <1>2, <1>6 DEF ViewIInv, ViewType
    <2>2. view.done >= 1
      BY <1>1, <1>6 DEF Views
    <2>3. Found' <=> Found
      BY <1>2 DEF Found
    <2>4. Found => intake[q] # "none"
      BY <1>6, <2>1, <2>2 DEF ViewIInv, PageIInv, FoundWasThere
    <2>5. Found => intake'[q] # "none" /\ (Exists(q)' => Exists(q))
      BY <2>4, NeverAgain
    <2>6. FoundWasThere'
      BY <2>1, <2>3, <2>5 DEF FoundWasThere
    <2>7. Exists(q)' => /\ drafts[q] \subseteq drafts'[q]
                        /\ Len(audit[q]) <= Len(audit'[q])
                        /\ \A i \in 1..Len(audit[q]) : audit'[q][i] = audit[q][i]
      BY <1>0, HistoryStep
    <2>8. Len(audit[q]) \in Nat /\ Len(audit'[q]) \in Nat
      BY <1>0 DEF StoreTypeOK
    <2>9. (Exists(view.req))' <=> Exists(q)'
      BY <2>1 DEF Exists
    <2>10. view.kind = "detail" => (Exists(q)' => Exists(q))
      BY <2>5 DEF Found
    <2>11. StatusIsBacked'
      <3> SUFFICES ASSUME view'.kind = "detail", Exists(q)'
                   PROVE  /\ view'.status \in RESOLVED_STATUSES =>
                               \E k \in 1..Len(audit'[q]) :
                                   audit'[q][k].after.status = view'.status
                          /\ view'.status \in Verdicts => drafts'[q] # {}
        BY <2>1, <2>9 DEF StatusIsBacked
      <3>1. view.kind = "detail" /\ Exists(q)
        BY <1>2, <2>10
      <3>2. /\ view.status \in RESOLVED_STATUSES =>
                  \E k \in 1..Len(audit[q]) : audit[q][k].after.status = view.status
            /\ view.status \in Verdicts => drafts[q] # {}
        BY <2>1, <2>2, <3>1 DEF ViewIInv, PageIInv, StatusIsBacked
      <3>3. \A k \in 1..Len(audit[q]) : k \in 1..Len(audit'[q])
        BY <2>7, <2>8
      <3> QED BY <1>2, <2>7, <3>2, <3>3
    <2>12. DraftIsShown' /\ RowIsShown'
      BY <1>2, <2>1, <2>9, <2>10 DEF ViewIInv, PageIInv, DraftIsShown, RowIsShown, ShowsDraft,
         ShowsInHistory, PurgedMeanwhile
    <2>13. Found => (Exists(q)' => Exists(q) /\ Versions(drafts[q]) \subseteq Versions(drafts'[q]))
      BY <2>5, <2>7 DEF Versions
    <2>14. ~Found /\ view.kind = "export" => DOMAIN view.actions = {}
      BY DEF Found
    <2>15. NamedAreThere'
      <3> SUFFICES ASSUME view'.kind = "export", Exists(q)',
                          NEW i \in DOMAIN view.actions, view.actions[i].named # 0
                   PROVE  view.actions[i].named \in Versions(drafts'[q])
        BY <1>2, <2>1, <2>9 DEF NamedAreThere, NamedAreIn, Versions
      <3>1. Found
        BY <1>2, <2>14
      <3>2. Exists(q) /\ Versions(drafts[q]) \subseteq Versions(drafts'[q])
        BY <2>13, <3>1
      <3>3. view.actions[i].named \in Versions(drafts[q])
        BY <1>2, <2>1, <2>2, <3>2 DEF ViewIInv, ExportIInv, NamedAreThere, NamedAreIn
      <3> QED BY <3>2, <3>3
    <2>16. NamedAreFound'
      <3> SUFFICES ASSUME view'.kind = "export", view'.done >= 2
                   PROVE  NamedAreIn(view.versions) \/ (view.versions = {} /\ ~Exists(q)')
        BY <1>2, <2>1, <2>9 DEF NamedAreFound, NamedAreIn, PurgedMeanwhile
      <3>1. NamedAreIn(view.versions) \/ (view.versions = {} /\ ~Exists(q))
        BY <1>2, <2>1 DEF ViewIInv, ExportIInv, NamedAreFound, PurgedMeanwhile
      <3>2. ~Found => NamedAreIn(view.versions)
        BY <1>2, <2>14 DEF NamedAreIn
      <3> QED BY <2>5, <3>1, <3>2
    <2> QED BY <1>3, <2>6, <2>11, <2>12, <2>15, <2>16 DEF ViewIInv, PageIInv, ExportIInv
  <1> QED BY <1>4, <1>5, <1>6

-----------------------------------------------------------------------------
LEMMA ReverseType ==
    ASSUME NEW S, NEW list \in Seq(S)
    PROVE  /\ Reverse(list) \in Seq(S) /\ DOMAIN Reverse(list) = DOMAIN list
           /\ \A i \in DOMAIN list : \E j \in DOMAIN list : Reverse(list)[i] = list[j]
           /\ \A j \in DOMAIN list : \E i \in DOMAIN list : Reverse(list)[i] = list[j]
  <1>1. DOMAIN list = 1..Len(list) /\ Len(list) \in Nat
    OBVIOUS
  <1>2. Reverse(list) = [i \in 1..Len(list) |-> list[(Len(list) - i) + 1]]
    BY DEF Reverse
  <1>3. \A i \in 1..Len(list) : /\ (Len(list) - i) + 1 \in 1..Len(list)
                                /\ (Len(list) - ((Len(list) - i) + 1)) + 1 = i
    BY <1>1
  <1>4. \A i \in 1..Len(list) : Reverse(list)[i] = list[(Len(list) - i) + 1]
    BY <1>2
  <1>5. Reverse(list) \in Seq(S)
    BY <1>1, <1>2, <1>3
  <1>6. DOMAIN Reverse(list) = DOMAIN list
    BY <1>1, <1>2
  <1>7. ASSUME NEW i \in DOMAIN list
        PROVE  \E j \in DOMAIN list : Reverse(list)[i] = list[j]
    BY <1>1, <1>3, <1>4
  <1>8. ASSUME NEW j \in DOMAIN list
        PROVE  \E i \in DOMAIN list : Reverse(list)[i] = list[j]
    <2>1. (Len(list) - j) + 1 \in DOMAIN list
      BY <1>1, <1>3
    <2>2. Reverse(list)[(Len(list) - j) + 1] = list[j]
      BY <1>1, <1>3, <1>4
    <2> QED BY <2>1, <2>2
  <1> QED BY <1>5, <1>6, <1>7, <1>8

\* The history as listed: rows that are there, and all of them.
LEMMA NewestFirstRows ==
    ASSUME DeskIInv, ListIInv, NEW r \in Requests
    PROVE  /\ NewestFirst(r) \in Seq(Entries)
           /\ \A i \in DOMAIN NewestFirst(r) : NewestFirst(r)[i].row \in 1..Len(audit[r])
           /\ \A k \in 1..Len(audit[r]) :
                 \E i \in DOMAIN NewestFirst(r) : NewestFirst(r)[i].row = k
  <1> DEFINE list == Kept(started, RowsOf(r))
  <1>1. started \in Seq(Entries) /\ RowsOf(r) \subseteq DOMAIN started
    BY DEF ListIInv, CallIInv, AppTypes, RowsOf
  <1>2. list \in Seq(Entries)
    BY <1>1, KeptType
  <1>3. ASSUME NEW k \in DOMAIN list PROVE list[k].row \in 1..Len(audit[r])
    <2>1. Kth(RowsOf(r), k) \in RowsOf(r) /\ list[k] = started[Kth(RowsOf(r), k)]
      BY <1>1, KeptFrom
    <2>2. /\ Kth(RowsOf(r), k) \in DOMAIN started
          /\ started[Kth(RowsOf(r), k)].row > 0 /\ started[Kth(RowsOf(r), k)].req = r
      BY <2>1 DEF RowsOf
    <2> QED BY <2>1, <2>2 DEF ListIInv, ListedAreRows
  <1>4. ASSUME NEW k \in 1..Len(audit[r]) PROVE \E i \in DOMAIN list : list[i].row = k
    <2>1. PICK i \in DOMAIN started : started[i].req = r /\ started[i].row = k
      BY DEF ListIInv, RowsAreListed
    <2>2. i \in RowsOf(r)
      BY <2>1 DEF RowsOf
    <2>3. \E j \in DOMAIN Kept(started, RowsOf(r)) : Kept(started, RowsOf(r))[j] = started[i]
      BY <1>1, <2>2, KeptAll
    <2> QED BY <2>1, <2>3
  <1>5. NewestFirst(r) = Reverse(list)
    BY DEF NewestFirst
  <1> HIDE DEF list
  <1>6. /\ Reverse(list) \in Seq(Entries) /\ DOMAIN Reverse(list) = DOMAIN list
        /\ \A i \in DOMAIN list : \E j \in DOMAIN list : Reverse(list)[i] = list[j]
        /\ \A j \in DOMAIN list : \E i \in DOMAIN list : Reverse(list)[i] = list[j]
    BY <1>2, ReverseType
  <1>7. ASSUME NEW k \in 1..Len(audit[r])
        PROVE  \E i \in DOMAIN list : Reverse(list)[i].row = k
    <2>1. PICK j \in DOMAIN list : list[j].row = k
      BY <1>4
    <2>2. PICK i \in DOMAIN list : Reverse(list)[i] = list[j]
      BY <1>6
    <2> QED BY <2>1, <2>2
  <1>8. \A i \in DOMAIN list : Reverse(list)[i].row \in 1..Len(audit[r])
    BY <1>3, <1>6
  <1> QED BY <1>5, <1>6, <1>7, <1>8

\* One SELECT of the actions returns rows of the table; the page's all of them.
LEMMA ActionsReadRows ==
    ASSUME DeskIInv, ListIInv, NEW r \in Requests
    PROVE  /\ ActionsRead(r) \in Seq(ListedRows)
           /\ \A i \in DOMAIN ActionsRead(r) : \E k \in 1..Len(audit[r]) :
                 ActionsRead(r)[i] = Listed(audit[r][k])
           /\ view.kind = "detail" =>
                 \A k \in 1..Len(audit[r]) : \E i \in DOMAIN ActionsRead(r) :
                    ActionsRead(r)[i] = Listed(audit[r][k])
  <1> DEFINE newest == NewestFirst(r)
             rows == [i \in DOMAIN newest |-> Listed(audit[r][newest[i].row])]
             oldest == Reverse(rows)
  <1>1. /\ newest \in Seq(Entries)
        /\ \A i \in DOMAIN newest : newest[i].row \in 1..Len(audit[r])
        /\ \A k \in 1..Len(audit[r]) : \E i \in DOMAIN newest : newest[i].row = k
    BY NewestFirstRows
  <1>2. \A k \in 1..Len(audit[r]) : Listed(audit[r][k]) \in ListedRows
    <2>1. audit[r] \in Seq(Actions)
      BY DEF DeskIInv, VersionIInv, RowIInv, LockIInv, TypeIInv, TypeInv, TypeOK, StoreTypeOK
    <2>2. \A k \in 1..Len(audit[r]) : audit[r][k] \in Actions
      BY <2>1
    <2> QED BY <2>2 DEF Listed, ListedRows, Actions, ActionSnapshots
  <1>3. ActionsRead(r) = IF view.kind = "detail" THEN rows ELSE Kept(oldest, Exported(oldest))
    BY DEF ActionsRead
  <1> HIDE DEF newest
  <1>4. /\ DOMAIN rows = DOMAIN newest
        /\ \A i \in DOMAIN newest : rows[i] = Listed(audit[r][newest[i].row])
    OBVIOUS
  <1>5. rows \in Seq(ListedRows)
    <2>1. DOMAIN newest = 1..Len(newest) /\ Len(newest) \in Nat
      BY <1>1
    <2>2. \A i \in 1..Len(newest) : Listed(audit[r][newest[i].row]) \in ListedRows
      BY <1>1, <1>2, <2>1
    <2>3. rows = [i \in 1..Len(newest) |-> Listed(audit[r][newest[i].row])]
      BY <2>1
    <2> QED BY <2>1, <2>2, <2>3
  <1> HIDE DEF rows
  <1>6. \A i \in DOMAIN rows : \E k \in 1..Len(audit[r]) : rows[i] = Listed(audit[r][k])
    BY <1>1, <1>4
  <1>7. \A k \in 1..Len(audit[r]) : \E i \in DOMAIN rows : rows[i] = Listed(audit[r][k])
    BY <1>1, <1>4
  <1>8. CASE view.kind = "detail"
    BY <1>3, <1>5, <1>6, <1>7, <1>8
  <1>9. CASE view.kind # "detail"
    <2>1. /\ oldest \in Seq(ListedRows)
          /\ \A i \in DOMAIN oldest : \E j \in DOMAIN rows : oldest[i] = rows[j]
      BY <1>5, ReverseType
    <2>2. Exported(oldest) \subseteq DOMAIN oldest
      BY DEF Exported
    <2> HIDE DEF oldest
    <2>3. Kept(oldest, Exported(oldest)) \in Seq(ListedRows)
      BY <2>1, <2>2, KeptType
    <2>4. ASSUME NEW i \in DOMAIN Kept(oldest, Exported(oldest))
          PROVE  \E k \in 1..Len(audit[r]) :
                    Kept(oldest, Exported(oldest))[i] = Listed(audit[r][k])
      <3>1. /\ Kth(Exported(oldest), i) \in DOMAIN oldest
            /\ Kept(oldest, Exported(oldest))[i] = oldest[Kth(Exported(oldest), i)]
        BY <2>1, <2>2, KeptFrom
      <3>2. PICK j \in DOMAIN rows : oldest[Kth(Exported(oldest), i)] = rows[j]
        BY <2>1, <3>1
      <3> QED BY <1>6, <3>1, <3>2
    <2> QED BY <1>3, <1>9, <2>3, <2>4
  <1> QED BY <1>8, <1>9

\* The draft an audit row says was there before it is one of the table's.
LEMMA NamedDraftIsThere ==
    ASSUME DeskIInv, NEW r \in Requests, NEW k \in 1..Len(audit[r]),
           audit[r][k].before.draftVersion # 0
    PROVE  audit[r][k].before.draftVersion \in Versions(drafts[r])
  <1> DEFINE a == audit[r][k]
  <1>1. audit[r] \in Seq(Actions) /\ drafts[r] \subseteq Drafts
    BY DEF DeskIInv, VersionIInv, RowIInv, LockIInv, TypeIInv, TypeInv, TypeOK, StoreTypeOK
  <1>2. a \in Actions
    BY <1>1
  <1>3. a.before.draftVersion \in Nat /\ a.after.draftVersion \in Nat
    BY <1>2 DEF Actions, ActionSnapshots
  <1>4. /\ a.before.draftVersion <= a.after.draftVersion
        /\ a.after.draftVersion # 0 => a.after.draftVersion \in Versions(drafts[r])
    BY DEF DeskIInv, AuditCrossReferencesDrafts
  <1>5. a.after.draftVersion # 0 /\ a.before.draftVersion \in 1..a.after.draftVersion
    BY <1>3, <1>4
  <1>6. PICK d \in drafts[r] : d.version = a.after.draftVersion
    BY <1>4, <1>5 DEF Versions
  <1>7. \A v \in 1..d.version : v \in Versions(drafts[r])
    BY DEF DeskIInv, VersionIInv, DraftVersionsUniqueAndContiguous
  <1> QED BY <1>5, <1>6, <1>7

-----------------------------------------------------------------------------
\* What one SELECT adds to the view.
LEMMA SelectEffect ==
    ASSUME ViewType, select
    PROVE  \E q \in Requests :
             /\ q = view.req /\ UNCHANGED vars
             /\ \/ view' = NoView
                \/ /\ view.kind = "detail" /\ view.done = 0 /\ Exists(q)
                   /\ view' = [view EXCEPT !.done = 1, !.status = req[q].status]
                \/ /\ view.kind = "detail" /\ view.done = 1
                   /\ view' = [view EXCEPT !.done = 2, !.versions = Versions(drafts[q])]
                \/ /\ view.kind = "detail" /\ view.done = 2
                   /\ view' = [view EXCEPT !.done = 3, !.actions = ActionsRead(q)]
                \/ /\ view.kind = "export" /\ view.done = 0
                   /\ view' = [view EXCEPT !.done = 1, !.actions = ActionsRead(q)]
                \/ /\ view.kind = "export" /\ view.done = 1
                   /\ view' = [view EXCEPT !.done = 2, !.versions = Versions(drafts[q])]
  <1>0. view \in Views /\ view.kind # "none" /\ view.req \in Requests /\ view.done \in Nat
    BY DEF ViewType, Views, select
  <1>1. PICK q \in Requests : q = view.req
    BY <1>0
  <1> DEFINE table == SelectOrder(view.kind)[view.done + 1]
  <1>2. /\ UNCHANGED vars /\ view.done < Len(SelectOrder(view.kind))
        /\ table = "requests" =>
              \/ view' = NoView
              \/ /\ Exists(q)
                 /\ view' = [view EXCEPT !.done = view.done + 1, !.status = req[q].status]
        /\ table = "drafts" =>
              view' = [view EXCEPT !.done = view.done + 1, !.versions = Versions(drafts[q])]
        /\ table = "actions" =>
              view' = [view EXCEPT !.done = view.done + 1, !.actions = ActionsRead(q)]
    BY <1>1 DEF select
  <1> HIDE DEF table
  <1>3. CASE view.kind = "detail"
    <2>1. SelectOrder(view.kind) = <<"requests", "drafts", "actions">>
      BY <1>3 DEF SelectOrder
    <2>2. view.done = 0 \/ view.done = 1 \/ view.done = 2
      BY <1>0, <1>2, <2>1
    <2>3. CASE view.done = 0
      <3>1. table = "requests" /\ view.done + 1 = 1
        BY <2>1, <2>3 DEF table
      <3> QED BY <1>1, <1>2, <1>3, <2>3, <3>1
    <2>4. CASE view.done = 1
      <3>1. table = "drafts" /\ view.done + 1 = 2
        BY <2>1, <2>4 DEF table
      <3> QED BY <1>1, <1>2, <1>3, <2>4, <3>1
    <2>5. CASE view.done = 2
      <3>1. table = "actions" /\ view.done + 1 = 3
        BY <2>1, <2>5 DEF table
      <3> QED BY <1>1, <1>2, <1>3, <2>5, <3>1
    <2> QED BY <2>2, <2>3, <2>4, <2>5
  <1>4. CASE view.kind = "export"
    <2>1. SelectOrder(view.kind) = <<"actions", "drafts">>
      BY <1>4 DEF SelectOrder
    <2>2. view.done = 0 \/ view.done = 1
      BY <1>0, <1>2, <2>1
    <2>3. CASE view.done = 0
      <3>1. table = "actions" /\ view.done + 1 = 1
        BY <2>1, <2>3 DEF table
      <3> QED BY <1>1, <1>2, <1>4, <2>3, <3>1
    <2>4. CASE view.done = 1
      <3>1. table = "drafts" /\ view.done + 1 = 2
        BY <2>1, <2>4 DEF table
      <3> QED BY <1>1, <1>2, <1>4, <2>4, <3>1
    <2> QED BY <2>2, <2>3, <2>4
  <1>5. view.kind \in {"none", "detail", "export"}
    BY <1>0 DEF Views, Kinds
  <1> QED BY <1>0, <1>3, <1>4, <1>5

LEMMA VersionsType ==
    ASSUME DeskIInv, NEW r \in Requests
    PROVE  Versions(drafts[r]) \in SUBSET Nat /\ req[r].status \in Statuses
  <1>1. drafts[r] \subseteq Drafts /\ req[r] \in Rows
    BY DEF DeskIInv, VersionIInv, RowIInv, LockIInv, TypeIInv, TypeInv, TypeOK, StoreTypeOK
  <1> QED BY <1>1 DEF Versions, Drafts, Rows

LEMMA ThereIsSubmitted ==
    ASSUME DeskIInv, NEW r \in Requests, Exists(r)
    PROVE  intake[r] # "none"
  BY DEF DeskIInv, VersionIInv, RowIInv, RowOrder

\* The SELECTs, in turn, with the tables as they are.
LEMMA SelectRequests ==
    ASSUME DeskIInv, VerdictsHaveDrafts, ViewIInv, UNCHANGED vars,
           NEW q \in Requests, q = view.req, Exists(q), view.kind = "detail", view.done = 0,
           view' = [view EXCEPT !.done = 1, !.status = req[q].status]
    PROVE  ViewIInv'
  <1>1. view \in Views /\ req[q].status \in Statuses
    BY VersionsType DEF ViewIInv, ViewType
  <1>2. /\ view' \in Views /\ view'.kind = "detail" /\ view'.req = q /\ view'.done = 1
        /\ view'.status = req[q].status
    BY <1>1 DEF Views
  <1>3. ViewType'
    BY <1>2 DEF ViewType
  <1>4. UNCHANGED <<req, drafts, audit, intake>>
    BY DEF vars, storeVars, intakeVars
  <1>5. FoundWasThere'
    BY <1>2, <1>4, ThereIsSubmitted DEF FoundWasThere
  <1>6. /\ req[q].status \in RESOLVED_STATUSES =>
              \E k \in 1..Len(audit[q]) : audit[q][k].after.status = req[q].status
        /\ req[q].status \in Verdicts => drafts[q] # {}
    <2>1. ASSUME req[q].status \in RESOLVED_STATUSES
          PROVE  \E k \in 1..Len(audit[q]) : audit[q][k].after.status = req[q].status
      <3>1. audit[q] # <<>> /\ audit[q][Len(audit[q])].after.status = req[q].status
        BY <2>1 DEF DeskIInv, ResolutionIsAudited, Newest
      <3>2. audit[q] \in Seq(Actions)
        BY DEF DeskIInv, VersionIInv, RowIInv, LockIInv, TypeIInv, TypeInv, TypeOK, StoreTypeOK
      <3>3. Len(audit[q]) \in 1..Len(audit[q])
        BY <3>1, <3>2
      <3> QED BY <3>1, <3>3
    <2> QED BY <2>1 DEF VerdictsHaveDrafts
  <1>7. StatusIsBacked'
    BY <1>2, <1>4, <1>6 DEF StatusIsBacked
  <1>8. DraftIsShown' /\ RowIsShown' /\ NamedAreThere' /\ NamedAreFound'
    BY <1>2 DEF DraftIsShown, RowIsShown, NamedAreThere, NamedAreFound
  <1> QED BY <1>3, <1>5, <1>7, <1>8 DEF ViewIInv, PageIInv, ExportIInv

LEMMA SelectPageDrafts ==
    ASSUME DeskIInv, ViewIInv, UNCHANGED vars,
           NEW q \in Requests, q = view.req, view.kind = "detail", view.done = 1,
           view' = [view EXCEPT !.done = 2, !.versions = Versions(drafts[q])]
    PROVE  ViewIInv'
  <1>1. view \in Views /\ Versions(drafts[q]) \in SUBSET Nat
    BY VersionsType DEF ViewIInv, ViewType
  <1>2. /\ view' \in Views /\ view'.kind = "detail" /\ view'.req = q /\ view'.done = 2
        /\ view'.versions = Versions(drafts[q]) /\ view'.status = view.status
    BY <1>1 DEF Views
  <1>3. ViewType'
    BY <1>2 DEF ViewType
  <1>4. UNCHANGED <<req, drafts, audit, intake>>
    BY DEF vars, storeVars, intakeVars
  <1>5. FoundWasThere'
    BY <1>2, <1>4 DEF ViewIInv, PageIInv, FoundWasThere, Found
  <1>6. StatusIsBacked'
    BY <1>2, <1>4 DEF ViewIInv, PageIInv, StatusIsBacked, Exists
  <1>7. DraftIsShown'
    <2> SUFFICES ASSUME view.status \in Verdicts
                 PROVE  view'.versions # {} \/ (view'.versions = {} /\ ~Exists(q))
      BY <1>2, <1>4 DEF DraftIsShown, ShowsDraft, PurgedMeanwhile, Exists
    <2>1. Exists(q) => drafts[q] # {}
      BY DEF ViewIInv, PageIInv, StatusIsBacked
    <2> QED BY <1>2, <2>1 DEF Versions
  <1>8. RowIsShown' /\ NamedAreThere' /\ NamedAreFound'
    BY <1>2 DEF RowIsShown, NamedAreThere, NamedAreFound
  <1> QED BY <1>3, <1>5, <1>6, <1>7, <1>8 DEF ViewIInv, PageIInv, ExportIInv

LEMMA SelectPageActions ==
    ASSUME DeskIInv, ListIInv, ViewIInv, UNCHANGED vars,
           NEW q \in Requests, q = view.req, view.kind = "detail", view.done = 2,
           view' = [view EXCEPT !.done = 3, !.actions = ActionsRead(q)]
    PROVE  ViewIInv'
  <1>1. view \in Views /\ ActionsRead(q) \in Seq(ListedRows)
    BY ActionsReadRows DEF ViewIInv, ViewType
  <1>2. /\ view' \in Views /\ view'.kind = "detail" /\ view'.req = q /\ view'.done = 3
        /\ view'.versions = view.versions /\ view'.status = view.status
        /\ view'.actions = ActionsRead(q)
    BY <1>1 DEF Views
  <1>3. ViewType'
    BY <1>2 DEF ViewType
  <1>4. UNCHANGED <<req, drafts, audit, intake>>
    BY DEF vars, storeVars, intakeVars
  <1>5. FoundWasThere'
    BY <1>2, <1>4 DEF ViewIInv, PageIInv, FoundWasThere, Found
  <1>6. StatusIsBacked' /\ DraftIsShown'
    BY <1>2, <1>4 DEF ViewIInv, PageIInv, StatusIsBacked, DraftIsShown, ShowsDraft,
       PurgedMeanwhile, Exists
  <1>7. RowIsShown'
    <2> SUFFICES ASSUME view.status \in RESOLVED_STATUSES
                 PROVE  \/ \E i \in DOMAIN ActionsRead(q) : ActionsRead(q)[i].status = view.status
                        \/ ActionsRead(q) = <<>> /\ ~Exists(q)
      BY <1>2, <1>4 DEF RowIsShown, ShowsInHistory, Exists
    <2>0. CASE ~Exists(q)
      <3>1. audit[q] = <<>>
        BY <2>0 DEF DeskIInv, VersionIInv, RowIInv, NoOrphans
      <3>2. DOMAIN ActionsRead(q) = {}
        BY <3>1, ActionsReadRows
      <3>3. ActionsRead(q) = <<>>
        BY <1>1, <3>2
      <3> QED BY <2>0, <3>3
    <2> SUFFICES ASSUME Exists(q)
                 PROVE  \E i \in DOMAIN ActionsRead(q) : ActionsRead(q)[i].status = view.status
      BY <2>0
    <2>1. PICK k \in 1..Len(audit[q]) : audit[q][k].after.status = view.status
      BY DEF ViewIInv, PageIInv, StatusIsBacked
    <2>2. PICK i \in DOMAIN ActionsRead(q) : ActionsRead(q)[i] = Listed(audit[q][k])
      BY ActionsReadRows
    <2> QED BY <2>1, <2>2 DEF Listed
  <1>8. NamedAreThere' /\ NamedAreFound'
    BY <1>2 DEF NamedAreThere, NamedAreFound
  <1> QED BY <1>3, <1>5, <1>6, <1>7, <1>8 DEF ViewIInv, PageIInv, ExportIInv

LEMMA SelectExportActions ==
    ASSUME DeskIInv, ListIInv, ViewIInv, UNCHANGED vars,
           NEW q \in Requests, q = view.req, view.kind = "export", view.done = 0,
           view' = [view EXCEPT !.done = 1, !.actions = ActionsRead(q)]
    PROVE  ViewIInv'
  <1>1. view \in Views /\ ActionsRead(q) \in Seq(ListedRows)
    BY ActionsReadRows DEF ViewIInv, ViewType
  <1>2. /\ view' \in Views /\ view'.kind = "export" /\ view'.req = q /\ view'.done = 1
        /\ view'.actions = ActionsRead(q)
    BY <1>1 DEF Views
  <1>3. ViewType'
    BY <1>2 DEF ViewType
  <1>4. UNCHANGED <<req, drafts, audit, intake>>
    BY DEF vars, storeVars, intakeVars
  <1>5. \A i \in DOMAIN ActionsRead(q) : \E k \in 1..Len(audit[q]) :
            ActionsRead(q)[i] = Listed(audit[q][k])
    BY ActionsReadRows
  <1>6. FoundWasThere'
    <2> SUFFICES ASSUME ActionsRead(q) # <<>> PROVE intake[q] # "none"
      BY <1>2, <1>4 DEF FoundWasThere, Found
    <2>1. PICK i \in DOMAIN ActionsRead(q) : TRUE
      <3>1. Len(ActionsRead(q)) \in Nat /\ Len(ActionsRead(q)) # 0
        BY <1>1
      <3>2. 1 \in DOMAIN ActionsRead(q)
        BY <1>1, <3>1
      <3> QED BY <3>2
    <2>2. PICK k \in 1..Len(audit[q]) : TRUE
      BY <1>5, <2>1
    <2>3. audit[q] # <<>>
      BY <2>2
    <2>4. Exists(q)
      BY <2>3 DEF DeskIInv, VersionIInv, RowIInv, NoOrphans
    <2> QED BY <2>4, ThereIsSubmitted
  <1>7. NamedAreThere'
    <2> SUFFICES ASSUME NEW i \in DOMAIN ActionsRead(q), ActionsRead(q)[i].named # 0
                 PROVE  ActionsRead(q)[i].named \in Versions(drafts[q])
      BY <1>2, <1>4 DEF NamedAreThere, NamedAreIn, Versions
    <2>1. PICK k \in 1..Len(audit[q]) : ActionsRead(q)[i] = Listed(audit[q][k])
      BY <1>5
    <2>2. ActionsRead(q)[i].named = audit[q][k].before.draftVersion
      BY <2>1 DEF Listed
    <2> QED BY <2>2, NamedDraftIsThere
  <1>8. StatusIsBacked' /\ DraftIsShown' /\ RowIsShown' /\ NamedAreFound'
    BY <1>2 DEF StatusIsBacked, DraftIsShown, RowIsShown, NamedAreFound
  <1> QED BY <1>3, <1>6, <1>7, <1>8 DEF ViewIInv, PageIInv, ExportIInv

LEMMA SelectExportDrafts ==
    ASSUME DeskIInv, ViewIInv, UNCHANGED vars,
           NEW q \in Requests, q = view.req, view.kind = "export", view.done = 1,
           view' = [view EXCEPT !.done = 2, !.versions = Versions(drafts[q])]
    PROVE  ViewIInv'
  <1>1. view \in Views /\ Versions(drafts[q]) \in SUBSET Nat
    BY VersionsType DEF ViewIInv, ViewType
  <1>2. /\ view' \in Views /\ view'.kind = "export" /\ view'.req = q /\ view'.done = 2
        /\ view'.versions = Versions(drafts[q]) /\ view'.actions = view.actions
    BY <1>1 DEF Views
  <1>3. ViewType'
    BY <1>2 DEF ViewType
  <1>4. UNCHANGED <<req, drafts, audit, intake>>
    BY DEF vars, storeVars, intakeVars
  <1>5. FoundWasThere'
    BY <1>2, <1>4 DEF ViewIInv, PageIInv, FoundWasThere, Found
  <1>6. Exists(q) => NamedAreIn(Versions(drafts[q]))
    BY DEF ViewIInv, ExportIInv, NamedAreThere
  <1>7. ~Exists(q) => Versions(drafts[q]) = {}
    BY DEF DeskIInv, VersionIInv, RowIInv, NoOrphans, Versions
  <1>9. NamedAreThere' /\ NamedAreFound'
    BY <1>2, <1>4, <1>6, <1>7 DEF NamedAreThere, NamedAreFound, NamedAreIn, PurgedMeanwhile,
       Versions, Exists
  <1>8. StatusIsBacked' /\ DraftIsShown' /\ RowIsShown'
    BY <1>2 DEF StatusIsBacked, DraftIsShown, RowIsShown
  <1> QED BY <1>3, <1>5, <1>8, <1>9 DEF ViewIInv, PageIInv, ExportIInv

LEMMA EmptyView == NoView \in Views /\ NoView.done = 0 /\ NoView.by = NoOne
  BY DEF Views, NoView, Kinds, Statuses

LEMMA Opened ==
    ASSUME NEW kind \in Kinds, NEW reader \in Staff \cup {NoOne}, NEW r \in Requests,
           view' = [NoView EXCEPT !.kind = kind, !.by = reader, !.req = r]
    PROVE  ViewType' /\ view'.done = 0
  <1>1. view' \in Views /\ view'.done = 0 /\ view'.req = r
    BY EmptyView DEF Views
  <1> QED BY <1>1 DEF ViewType

LEMMA ViewStep ==
    /\ DeskIInv /\ DeskIInv' /\ ListIInv /\ VerdictsHaveDrafts /\ ViewIInv
    /\ [AppNext]_<<vars, appVars>>
    => ViewIInv'
  <1> SUFFICES ASSUME DeskIInv, DeskIInv', ListIInv, VerdictsHaveDrafts, ViewIInv,
                      [AppNext]_<<vars, appVars>>
               PROVE  ViewIInv'
    OBVIOUS
  <1>0. [Next]_vars
    BY AppTakesDeskSteps
  <1>1. ASSUME view' = view \/ view' = [view EXCEPT !.acting = TRUE] PROVE ViewIInv'
    BY <1>0, <1>1, ViewKept
  <1>2. ASSUME view' = NoView PROVE ViewIInv'
    BY <1>2, NoViewType, NoViewKnows
  <1>3. CASE System
    BY <1>1, <1>2, <1>3 DEF System
  <1>4. CASE UNCHANGED <<vars, appVars>>
    BY <1>1, <1>4 DEF appVars
  <1>5. ASSUME NEW s \in Staff, requireMembershipForAction(s) \/ refused(s) PROVE ViewIInv'
    BY <1>1, <1>2, <1>5 DEF requireMembershipForAction, refused
  <1>9. ASSUME NEW m \in Members, removeMember(m) PROVE ViewIInv'
    BY <1>1, <1>9 DEF removeMember
  <1>10. CASE closeView
    BY <1>2, <1>10 DEF closeView
  <1>6. ASSUME NEW s \in Staff, NEW r \in Requests, openDetail(s, r) PROVE ViewIInv'
    <2>1. view' = [NoView EXCEPT !.kind = "detail", !.by = s, !.req = r]
      BY <1>6 DEF openDetail
    <2>2. ViewType' /\ view'.done = 0
      BY <2>1, Opened DEF Kinds
    <2> QED BY <2>2, NoViewKnows
  <1>7. ASSUME NEW r \in Requests, openExport(r) PROVE ViewIInv'
    <2>1. view' = [NoView EXCEPT !.kind = "export", !.by = NoOne, !.req = r]
      BY <1>7, EmptyView DEF openExport, Views
    <2>2. ViewType' /\ view'.done = 0
      BY <2>1, Opened DEF Kinds
    <2> QED BY <2>2, NoViewKnows
  <1>8. CASE select
    <2>1. ViewType
      BY DEF ViewIInv
    <2> QED BY <1>2, <1>8, <2>1, SelectEffect, SelectRequests, SelectPageDrafts,
               SelectPageActions, SelectExportActions, SelectExportDrafts
  <1> QED BY <1>3, <1>4, <1>5, <1>6, <1>7, <1>8, <1>9, <1>10 DEF AppNext

\* Everything StaffApp's theorems need.
AppIInv == DeskIInv /\ ListIInv /\ VerdictsHaveDrafts /\ ViewIInv

LEMMA AppIInvAlways == AppSpec => []AppIInv
  <1>1. AppInit => AppIInv
    <2> SUFFICES ASSUME AppInit PROVE AppIInv
      OBVIOUS
    <2>1. Init /\ view = NoView
      BY DEF AppInit
    <2>2. ViewIInv
      BY <2>1 DEF ViewIInv, ViewType, Views, NoView, Kinds, Statuses, PageIInv, ExportIInv,
         FoundWasThere, StatusIsBacked, DraftIsShown, RowIsShown, NamedAreThere, NamedAreFound
    <2> QED BY <2>1, <2>2, DeskInit, ListInit, VerdictsInit DEF AppIInv
  <1>2. AppIInv /\ [AppNext]_<<vars, appVars>> => AppIInv'
    <2> SUFFICES ASSUME AppIInv, [AppNext]_<<vars, appVars>> PROVE AppIInv'
      OBVIOUS
    <2>1. DeskIInv' /\ VerdictsHaveDrafts'
      BY AppTakesDeskSteps, DeskStep, VerdictsStep DEF AppIInv
    <2> QED BY <2>1, ListStep, ViewStep DEF AppIInv
  <1> QED BY <1>1, <1>2, PTL DEF AppSpec

\* [id]/page.tsx:165-168: row, drafts and actions are of three moments, and still
\* what the page shows of one is borne out by the others, unless the request has
\* been purged from under it.
THEOREM PagesAreBacked == AppSpec => []PageIsBacked
  <1>1. AppIInv => PageIsBacked
    <2> SUFFICES ASSUME AppIInv, Shown("detail")
                 PROVE  /\ ~OffersActions =>
                              \/ ShowsInHistory(view.status)
                              \/ view.actions = <<>> /\ ~Exists(view.req)
                        /\ view.status \in {"drafted", "needs_human"} =>
                              ShowsDraft \/ PurgedMeanwhile
      BY DEF PageIsBacked
    <2>1. view.kind = "detail" /\ view.done = 3
      BY DEF Shown, SelectOrder
    <2> QED BY <2>1 DEF AppIInv, ViewIInv, PageIInv, RowIsShown, DraftIsShown, OffersActions,
                        Verdicts
  <1> QED BY <1>1, AppIInvAlways, PTL

\* eval-export.ts:77-80: of the drafts read after the actions none that an action
\* names is missing, or a purge came in between and all of them are.
THEOREM ExportsFindDrafts == AppSpec => []ExportFindsDrafts
  <1>1. AppIInv => ExportFindsDrafts
    <2> SUFFICES ASSUME AppIInv, Shown("export")
                 PROVE  NamedAreIn(view.versions) \/ PurgedMeanwhile
      BY DEF ExportFindsDrafts, NamedAreIn
    <2>1. view.kind = "export" /\ view.done = 2
      BY DEF Shown, SelectOrder
    <2> QED BY <2>1 DEF AppIInv, ViewIInv, ExportIInv, NamedAreFound
  <1> QED BY <1>1, AppIInvAlways, PTL
=============================================================================

------------------------ MODULE OfficeContent_proofs ------------------------
(***************************************************************************)
(* Theorems about the venue, the content and the documents of BackOffice,  *)
(* for every value of its constants.                                       *)
(***************************************************************************)
EXTENDS BackOffice_proofs, FiniteSetTheorems, SequenceTheorems

LEMMA DriveCases ==
  ASSUME [Next]_vars
  PROVE  \/ \E p \in cast : DriveStep(p) /\ Op(p) \in DriveOps /\ Acts(p)
         \/ UNCHANGED driveVars /\ Elsewhere(DriveOps)
BY StepCases DEF Mine, Next, SessionsEnd, OtherClocks, Restarted, EndPasses, Lapse, GoStale,
   LinkLapses, vars, contentVars, Elsewhere

-----------------------------------------------------------------------------
(* Document drives.  In the memory build whoever drops the connections it  *)
(* has found has found all that are active, and nobody comes between.      *)
Drive == [provider : {Row(p) : p \in UNION Casts}, status : {"active", "disconnected", "error"}]

DriveProc(p) ==
  build = "memory" /\ Op(p) = "connect" /\ pc[p] = "drop" => ActiveOf(Row(p)) \subseteq copy[p]

OneActive(x) == \A i, j \in ActiveOf(x) : i = j

DriveInv ==
  /\ Office /\ drives \in Seq(Drive)
  /\ build = "memory" => \A x \in Providers : OneActive(x)
  /\ \A p \in cast : DriveProc(p)

LEMMA DriveStart == Init => DriveInv
<1> SUFFICES ASSUME Init PROVE DriveInv
  OBVIOUS
<1>1. Office /\ \A p \in cast : pc[p] \in {"asleep", "start"}
  BY ThreadInit, ProcStart DEF Init
<1>2. drives = <<>>
  BY DEF Init, DriveInit
<1>3. QED
  BY <1>1, <1>2 DEF DriveInv, DriveProc, OneActive, ActiveOf, Active

(* A connection whose status is set is the only one that changes.          *)
LEMMA SetStatusFacts ==
  ASSUME NEW i, NEW status \in {"disconnected", "error"}, drives \in Seq(Drive), SetStatus(i, status)
  PROVE  /\ drives' \in Seq(Drive)
         /\ \A x : ActiveOf(x)' = ActiveOf(x) \ {i}
<1>1. /\ DOMAIN drives' = DOMAIN drives /\ drives' \in Seq(Drive)
      /\ \A j \in DOMAIN drives :
           drives'[j] = IF j = i THEN [drives[j] EXCEPT !.status = status] ELSE drives[j]
  <2>1. drives' = [drives EXCEPT ![i].status = status]
    BY DEF SetStatus
  <2>2. CASE i \in DOMAIN drives
    <3>1. drives[i] \in Drive /\ [drives[i] EXCEPT !.status = status] \in Drive
      <4>1. drives[i] \in Drive
        BY <2>2
      <4>2. QED
        BY <4>1 DEF Drive
    <3>2. drives' = [drives EXCEPT ![i] = [drives[i] EXCEPT !.status = status]]
      BY <2>1
    <3>3. QED
      BY <2>2, <3>1, <3>2, ExceptSeq
  <2>3. CASE i \notin DOMAIN drives
    <3>1. drives' = drives
      BY <2>1, <2>3
    <3>2. QED
      BY <2>3, <3>1
  <2>4. QED
    BY <2>2, <2>3
<1>2. \A j \in DOMAIN drives : drives[j] \in Drive
  OBVIOUS
<1>3. QED
  BY <1>1, <1>2 DEF ActiveOf, Active, Drive

LEMMA DrivesStep == DriveInv /\ [Next]_vars => DriveInv'
<1> SUFFICES ASSUME DriveInv, [Next]_vars PROVE DriveInv'
  OBVIOUS
<1>1. ASSUME NEW p \in cast, DriveStep(p), Acts(p)
      PROVE  DriveInv'
  <2> DEFINE x == Row(p)
  <2>1. /\ Office' /\ build' = build /\ cast' = cast /\ ProcOk /\ DriveProc(p)
        /\ \A q \in cast : q # p => pc'[q] = pc[q] /\ copy'[q] = copy[q]
    BY <1>1, ActsFacts DEF DriveInv, Office
  <2>2. ASSUME NEW q \in cast, q # p PROVE DriveProc(q)'
    BY <1>1, <2>1, <2>2, Undisturbed DEF DriveProc, Outside, Immediate
  <2>3. ASSUME drives' \in Seq(Drive), DriveProc(p)',
               build = "memory" => \A y \in Providers : OneActive(y)'
        PROVE  DriveInv'
    BY <2>1, <2>2, <2>3 DEF DriveInv
  <2>4. ASSUME UNCHANGED drives, DriveProc(p)'
        PROVE  DriveInv'
    BY <2>3, <2>4 DEF DriveInv, OneActive, ActiveOf, Active
  <2>5. ASSUME NEW i, NEW status \in {"disconnected", "error"}, SetStatus(i, status),
               DriveProc(p)'
        PROVE  DriveInv'
    BY <2>3, <2>5, SetStatusFacts DEF DriveInv, OneActive
  <2>6. CASE Exchange(p) \/ FindActive(p)
    <3>1. UNCHANGED drives /\ (pc'[p] \in {"done", "io"} \/ copy'[p] = ActiveOf(x))
      BY <2>1, <2>6, GoFacts DEF Exchange, FindActive, Return, Superseded, driveVars
    <3>2. DriveProc(p)'
      BY <3>1 DEF DriveProc, ActiveOf, Active
    <3>3. QED
      BY <2>4, <3>1, <3>2
  <2>7. CASE Drop(p)
    <3>1. pc[p] = "drop" /\ Op(p) \in {"connect", "disconnect"}
      BY <2>7 DEF Drop, At
    <3>2. CASE \E i \in copy[p] : SetStatus(i, "disconnected") /\ Go(p, "drop", copy[p] \ {i})
      <4>1. PICK i \in copy[p] : SetStatus(i, "disconnected") /\ copy'[p] = copy[p] \ {i}
        BY <2>1, <3>2, GoFacts
      <4>2. DriveProc(p)'
        BY <2>1, <3>1, <4>1, SetStatusFacts DEF DriveProc, DriveInv
      <4>3. QED
        BY <2>5, <4>1, <4>2
    <3>3. CASE copy[p] = {} /\ Return(p)
      <4>1. pc'[p] = "done"
        BY <2>1, <3>3, GoFacts DEF Return
      <4>2. DriveProc(p)'
        BY <4>1 DEF DriveProc
      <4>3. CASE Op(p) = "disconnect" \/ UNCHANGED drives
        <5>1. CASE UNCHANGED drives
          BY <2>4, <4>2, <5>1
        <5>2. CASE ~UNCHANGED drives
          <6>1. Op(p) = "disconnect"
            BY <4>3, <5>2
          <6>2. PICK i \in copy[p] : TRUE
            BY <2>7, <5>2, <6>1 DEF Drop
          <6>3. QED
            BY <3>3, <6>2
        <5>3. QED
          BY <5>1, <5>2
      <4>4. CASE Op(p) = "connect" /\ ~UNCHANGED drives
        <5>1. drives' = Append(drives, [provider |-> x, status |-> "active"])
          BY <2>7, <3>3, <4>4 DEF Drop
        <5>2. [provider |-> x, status |-> "active"] \in Drive
          BY <2>1 DEF ProcOk, Drive
        <5>3. /\ drives' \in Seq(Drive) /\ Len(drives') = Len(drives) + 1
              /\ drives'[Len(drives) + 1] = [provider |-> x, status |-> "active"]
              /\ \A i \in 1 .. Len(drives) : drives'[i] = drives[i]
          BY <5>1, <5>2, AppendProperties DEF DriveInv
        <5>4. DOMAIN drives' = DOMAIN drives \cup {Len(drives) + 1}
          BY <5>3 DEF DriveInv
        <5>5. \A y : ActiveOf(y)' = IF y = x THEN ActiveOf(y) \cup {Len(drives) + 1} ELSE ActiveOf(y)
          BY <5>3, <5>4 DEF ActiveOf, Active, DriveInv
        <5>6. build = "memory" => ActiveOf(x) = {}
          BY <2>1, <3>1, <3>3, <4>4 DEF DriveProc
        <5>7. QED
          BY <2>3, <4>2, <5>3, <5>5, <5>6 DEF OneActive, DriveInv
      <4>5. QED
        BY <3>1, <4>3, <4>4
    <3>4. QED
      BY <2>7, <3>2, <3>3 DEF Drop
  <2>8. CASE Disconnect(p) \/ ListExpiring(p)
    <3>1. UNCHANGED drives /\ Op(p) # "connect"
      BY <2>8 DEF Disconnect, ListExpiring, driveVars, At
    <3>2. QED
      BY <2>4, <3>1 DEF DriveProc
  <2>9. CASE Refresh(p)
    <3>1. DriveProc(p)'
      BY <2>9 DEF Refresh, At, DriveProc, Op
    <3>2. PICK i : SetStatus(i, "error") \/ UNCHANGED drives
      BY <2>9 DEF Refresh
    <3>3. QED
      BY <2>4, <2>5, <3>1, <3>2
  <2>10. CASE ShareFolder(p) \/ PatchFolder(p) \/ GrantAccess(p) \/ SetGrant(p)
    <3>1. UNCHANGED drives /\ Op(p) # "connect"
      BY <2>10 DEF ShareFolder, PatchFolder, GrantAccess, SetGrant, driveVars, At
    <3>2. QED
      BY <2>4, <3>1 DEF DriveProc
  <2>11. QED
    BY <1>1, <2>6, <2>7, <2>8, <2>9, <2>10 DEF DriveStep
<1>2. CASE UNCHANGED driveVars /\ Elsewhere(DriveOps)
  <2>1. Office' /\ build' = build /\ cast' = cast
    BY <1>2, ElsewhereOffice DEF DriveInv
  <2>2. ASSUME NEW p \in cast PROVE DriveProc(p)'
    BY <1>2, <2>1, ElsewhereFacts DEF DriveInv, DriveProc, DriveOps, driveVars, ActiveOf, Active
  <2>3. QED
    BY <1>2, <2>1, <2>2 DEF DriveInv, driveVars, OneActive, ActiveOf, Active
<1>3. QED
  BY <1>1, <1>2, DriveCases

(* However many OAuth flows of one provider come back at once, a stall of  *)
(* the memory build has one active drive of it.                            *)
THEOREM OneDrive == Spec => []OneDrivePerProvider
<1>1. DriveInv => OneDrivePerProvider
  <2> SUFFICES ASSUME DriveInv, build = "memory", NEW x \in Providers
               PROVE  Cardinality(ActiveOf(x)) <= 1
    BY DEF OneDrivePerProvider
  <2>1. ActiveOf(x) = {} \/ \E i : ActiveOf(x) = {i}
    BY DEF DriveInv, OneActive
  <2>2. CASE ActiveOf(x) = {}
    <3>1. Cardinality(ActiveOf(x)) = 0
      BY <2>2, FS_EmptySet
    <3>2. QED
      BY <3>1
  <2>3. CASE \E i : ActiveOf(x) = {i}
    <3>1. Cardinality(ActiveOf(x)) = 1
      BY <2>3, FS_Singleton
    <3>2. QED
      BY <3>1
  <2>4. QED
    BY <2>1, <2>2, <2>3
<1>2. QED
  BY <1>1, DriveStart, DrivesStep, PTL DEF Spec


-----------------------------------------------------------------------------
(* Moderation.  In the memory build what a process is about to write was   *)
(* made from the row as it still is: a move along the transitions, an edit *)
(* of a pending item that is not locked, or a new item where none pends.   *)
Item == [state : DOMAIN Transitions, payload : SUBSET UNION Casts, editor : Editors \cup {Nothing}]

Moves(from, to) ==
  \E state \in Transitions[from.state] : to = [from EXCEPT !.state = state]

Extends(from, to) ==
  \/ from.state \in Pending \ Locked /\ to.state = from.state
  \/ from.state = "absent" /\ PendingItems = {} /\ to.state = "draft"

ModerationProc(p) ==
  Op(p) \in ModerationOps /\ pc[p] = "write" =>
    /\ copy[p].id \in Items /\ copy[p].row \in Item
    /\ build = "memory" => IF Op(p) = "moderate" THEN Moves(items[copy[p].id], copy[p].row)
                                                 ELSE Extends(items[copy[p].id], copy[p].row)

OnePending == \A i, j \in PendingItems : i = j

OneShown ==
  /\ WithState("approved") \subseteq {shown}
  /\ shown # Nothing => /\ items[shown].state \in {"approved", "superseded"}
                        /\ links = items[shown].payload

ModerationInv ==
  /\ Office /\ items \in [Items -> Item] /\ shown \in Items \cup {Nothing}
  /\ build = "memory" => OnePending /\ OneShown
  /\ \A p \in cast : ModerationProc(p)

LEMMA ModerationCases ==
  ASSUME [Next]_vars
  PROVE  \/ \E p \in cast : ModerationStep(p) /\ Op(p) \in ModerationOps /\ Acts(p)
         \/ UNCHANGED moderationVars /\ Elsewhere(ModerationOps)
BY StepCases DEF Mine, Next, SessionsEnd, OtherClocks, Restarted, EndPasses, Lapse, GoStale,
   LinkLapses, vars, contentVars, Elsewhere

LEMMA ModerationStart == Init => ModerationInv
<1> SUFFICES ASSUME Init PROVE ModerationInv
  OBVIOUS
<1>1. Office /\ \A p \in cast : pc[p] \in {"asleep", "start"}
  BY ThreadInit, ProcStart DEF Init
<1>2. \A i \in Items : items[i] = [state |-> "absent", payload |-> {}, editor |-> Nothing]
  BY DEF Init, ModerationInit
<1>3. items \in [Items -> Item] /\ shown = Nothing
  BY DEF Init, ModerationInit, Item, Transitions
<1>4. QED
  BY <1>1, <1>2, <1>3 DEF ModerationInv, ModerationProc, OnePending, OneShown, PendingItems,
     Pending, WithState

(* Where the transitions lead: nothing comes back from approved, and what  *)
(* pends was pending before.                                               *)
LEMMA TransitionFacts ==
  ASSUME NEW from \in DOMAIN Transitions, NEW to \in Transitions[from]
  PROVE  /\ to \in DOMAIN Transitions /\ to # "absent"
         /\ from # "superseded"
         /\ from = "approved" <=> to = "superseded"
         /\ to = "approved" => from = "under_review"
         /\ to \in Pending => from \in Pending
BY DEF Transitions, Pending

(* What writing a row does to what pends and what is shown, in the memory  *)
(* build.                                                                  *)
LEMMA MovedFacts ==
  ASSUME NEW id \in Items, NEW row \in Item, items \in [Items -> Item], shown \in Items \cup {Nothing},
         items' = Moved(id, row),
         shown' = IF row.state = "approved" THEN id ELSE shown,
         links' = IF row.state = "approved" THEN row.payload ELSE links
  PROVE  /\ items' \in [Items -> Item] /\ shown' \in Items \cup {Nothing}
         /\ OnePending /\ OneShown /\ Moves(items[id], row) =>
              /\ OnePending' /\ OneShown'
              /\ \A i \in Items : items'[i].payload = items[i].payload
<1>1. \A i \in Items : [items[i] EXCEPT !.state = "superseded"] \in Item
  BY DEF Item, Transitions
<1>2. /\ items' \in [Items -> Item]
      /\ \A i \in Items : items'[i] = IF i = id THEN row
                                      ELSE IF row.state = "approved" /\ items[i].state = "approved"
                                           THEN [items[i] EXCEPT !.state = "superseded"]
                                           ELSE items[i]
  BY <1>1 DEF Moved
<1>3. ASSUME OnePending, OneShown, Moves(items[id], row)
      PROVE  /\ OnePending' /\ OneShown'
             /\ \A i \in Items : items'[i].payload = items[i].payload
  <2>1. PICK to \in Transitions[items[id].state] : row = [items[id] EXCEPT !.state = to]
    BY <1>3 DEF Moves
  <2>2. items[id] \in Item /\ \A i \in Items : items[i] \in Item
    OBVIOUS
  <2>3. row.state = to /\ row.payload = items[id].payload
    BY <2>1, <2>2 DEF Item
  <2>4. /\ items[id].state # "superseded" /\ (items[id].state = "approved" <=> to = "superseded")
        /\ to = "approved" => items[id].state = "under_review"
        /\ to \in Pending => items[id].state \in Pending
    BY <2>1, <2>2, TransitionFacts DEF Item
  <2>5. \A i \in Items :
          /\ items'[i].payload = items[i].payload
          /\ items'[i].state = IF i = id THEN to
                               ELSE IF to = "approved" /\ items[i].state = "approved" THEN "superseded"
                               ELSE items[i].state
    BY <1>2, <2>2, <2>3 DEF Item
  <2>6. OnePending'
    BY <1>3, <2>4, <2>5 DEF OnePending, PendingItems, Pending
  <2>7. OneShown'
    <3>1. CASE to = "approved"
      BY <2>3, <2>5, <3>1 DEF OneShown, WithState
    <3>2. CASE to # "approved"
      <4>1. shown' = shown /\ links' = links
        BY <2>3, <3>2
      <4>2. WithState("approved")' \subseteq {shown}
        BY <1>3, <2>5, <3>2 DEF OneShown, WithState
      <4>3. shown # Nothing => /\ items'[shown].state \in {"approved", "superseded"}
                               /\ links = items'[shown].payload
        BY <1>3, <2>4, <2>5, <3>2 DEF OneShown
      <4>4. QED
        BY <4>1, <4>2, <4>3 DEF OneShown
    <3>3. QED
      BY <3>1, <3>2
  <2>8. QED
    BY <2>5, <2>6, <2>7
<1>4. QED
  BY <1>2, <1>3

(* An edit makes a pending item, where none was or of the one that was,    *)
(* and leaves what is under review alone.                                  *)
LEMMA DraftFacts ==
  ASSUME NEW id \in Items, NEW row \in Item, items \in [Items -> Item], shown \in Items \cup {Nothing},
         NEW state \in {row.state} \cup (IF row.state = "draft" THEN {"submitted"} ELSE {}),
         items' = [items EXCEPT ![id] = [row EXCEPT !.state = state]],
         UNCHANGED <<shown, links>>
  PROVE  /\ items' \in [Items -> Item]
         /\ OnePending /\ OneShown /\ Extends(items[id], row) =>
              /\ OnePending' /\ OneShown'
              /\ \A i \in Items : items[i].state \in {"submitted", "under_review"}
                                    => items'[i].payload = items[i].payload
<1>1. /\ [row EXCEPT !.state = state] \in Item
      /\ [row EXCEPT !.state = state].state = state
  BY DEF Item, Transitions
<1>2. /\ items' \in [Items -> Item]
      /\ \A i \in Items : i # id => items'[i] = items[i]
      /\ items'[id].state = state
  BY <1>1
<1>3. ASSUME OnePending, OneShown, Extends(items[id], row)
      PROVE  /\ OnePending' /\ OneShown'
             /\ \A i \in Items : items[i].state \in {"submitted", "under_review"}
                                   => items'[i].payload = items[i].payload
  <2>1. /\ state \in Pending
        /\ items[id].state \notin {"approved", "superseded", "submitted", "under_review"}
        /\ items[id].state \in Pending \/ PendingItems = {}
    BY <1>3 DEF Extends, Pending, Locked
  <2>2. OnePending'
    BY <1>2, <1>3, <2>1 DEF OnePending, PendingItems
  <2>3. OneShown'
    BY <1>2, <1>3, <2>1 DEF OneShown, WithState, Pending
  <2>4. QED
    BY <1>2, <2>1, <2>2, <2>3
<1>4. QED
  BY <1>2, <1>3


(* The step keeps the invariant, and in the memory build what is being     *)
(* reviewed.                                                               *)
ReviewedKept ==
  build = "memory" =>
    \A i \in Items : items[i].state \in {"submitted", "under_review"}
                       => items'[i].payload = items[i].payload

LEMMA ModerationsStep == ModerationInv /\ [Next]_vars => ModerationInv' /\ ReviewedKept
<1> SUFFICES ASSUME ModerationInv, [Next]_vars PROVE ModerationInv' /\ ReviewedKept
  OBVIOUS
<1>1. ASSUME NEW p \in cast, ModerationStep(p), Op(p) \in ModerationOps, Acts(p)
      PROVE  ModerationInv' /\ ReviewedKept
  <2>1. /\ Office' /\ build' = build /\ cast' = cast /\ ProcOk /\ ModerationProc(p)
        /\ \A q \in cast : q # p => pc'[q] = pc[q] /\ copy'[q] = copy[q]
    BY <1>1, ActsFacts DEF ModerationInv, Office
  <2>2. ASSUME NEW q \in cast, q # p PROVE ModerationProc(q)'
    <3>1. Op(q) \in ModerationOps /\ pc[q] = "write" => build = "postgres"
      BY <1>1, <2>1, <2>2, Undisturbed, BuildsAssumption DEF Outside, Immediate, ModerationOps, ProcOk
    <3>2. QED
      BY <2>1, <2>2, <3>1 DEF ModerationProc, ModerationInv, Op
  <2>3. ASSUME items' \in [Items -> Item], shown' \in Items \cup {Nothing},
               build = "memory" => OnePending' /\ OneShown', ModerationProc(p)'
        PROVE  ModerationInv'
    BY <2>1, <2>2, <2>3 DEF ModerationInv
  <2>4. ASSUME UNCHANGED moderationVars, ModerationProc(p)'
        PROVE  ModerationInv' /\ ReviewedKept
    BY <2>3, <2>4 DEF ModerationInv, moderationVars, OnePending, OneShown, PendingItems, WithState,
       ReviewedKept
  <2>5. \A i \in Items : items[i] \in Item
    BY DEF ModerationInv
  <2>6. CASE ReadItem(p)
    <3>1. PICK i \in Items, to \in DOMAIN Transitions :
            /\ MayMove(Row(p), items[i], to)
            /\ Go(p, "write", [id |-> i, row |-> [items[i] EXCEPT !.state = to]])
      BY <2>6 DEF ReadItem
    <3>2. UNCHANGED moderationVars /\ Op(p) = "moderate"
      BY <2>6 DEF ReadItem, At
    <3>3. /\ copy'[p] = [id |-> i, row |-> [items[i] EXCEPT !.state = to]]
          /\ to \in Transitions[items[i].state]
      BY <2>1, <3>1, GoFacts DEF MayMove
    <3>4. [items[i] EXCEPT !.state = to] \in Item
      BY <2>5 DEF Item
    <3>5. copy'[p].id = i /\ copy'[p].row = [items[i] EXCEPT !.state = to]
      BY <3>3
    <3>6. Moves(items[i], copy'[p].row)
      BY <3>3, <3>5 DEF Moves
    <3>7. ModerationProc(p)'
      BY <3>2, <3>4, <3>5, <3>6 DEF ModerationProc, moderationVars, Op, Moves
    <3>8. QED
      BY <2>4, <3>2, <3>7
  <2>7. CASE MoveItem(p)
    <3>1. /\ Op(p) = "moderate" /\ pc[p] = "write"
          /\ items' = Moved(copy[p].id, copy[p].row)
          /\ shown' = IF copy[p].row.state = "approved" THEN copy[p].id ELSE shown
          /\ links' = IF copy[p].row.state = "approved" THEN copy[p].row.payload ELSE links
          /\ Go(p, "start", Nothing)
      BY <2>7 DEF MoveItem, At
    <3>2. /\ copy[p].id \in Items /\ copy[p].row \in Item
          /\ build = "memory" => Moves(items[copy[p].id], copy[p].row)
      BY <2>1, <3>1 DEF ModerationProc, ModerationOps
    <3>3. /\ items' \in [Items -> Item] /\ shown' \in Items \cup {Nothing}
          /\ build = "memory" => /\ OnePending' /\ OneShown'
                                 /\ \A i \in Items : items'[i].payload = items[i].payload
      BY <3>1, <3>2, MovedFacts DEF ModerationInv
    <3>4. ModerationProc(p)'
      BY <2>1, <3>1, GoFacts DEF ModerationProc
    <3>5. QED
      BY <2>3, <3>3, <3>4 DEF ReviewedKept
  <2>8. CASE ReadDraft(p)
    <3>1. UNCHANGED moderationVars /\ Op(p) = "edit" /\ Row(p) \in Editors
      BY <2>8 DEF ReadDraft, At
    <3>2. p \in UNION Casts
      BY <2>1 DEF ProcOk
    <3>3. CASE Return(p)
      <4>1. ModerationProc(p)'
        BY <2>1, <3>3, GoFacts DEF ModerationProc, Return
      <4>2. QED
        BY <2>4, <3>1, <4>1
    <3>4. ASSUME NEW i \in Items, NEW row \in Item, Extends(items[i], row),
                 Go(p, "write", [id |-> i, row |-> row])
          PROVE  ModerationInv' /\ ReviewedKept
      <4>1. copy'[p].id = i /\ copy'[p].row = row
        BY <2>1, <3>4, GoFacts
      <4>2. Extends(items[i], row)'
        BY <3>1, <3>4 DEF Extends, moderationVars, PendingItems
      <4>3. ModerationProc(p)'
        BY <3>1, <3>4, <4>1, <4>2 DEF ModerationProc, moderationVars, Op
      <4>4. QED
        BY <2>4, <3>1, <4>3
    <3>5. ASSUME NEW i \in PendingItems, items[i].state \notin Locked,
                 Go(p, "write", [id |-> i, row |-> Added(items[i], p)])
          PROVE  ModerationInv' /\ ReviewedKept
      <4>1. i \in Items /\ items[i] \in Item /\ items[i].state \in Pending
        BY <2>5, <3>5 DEF PendingItems
      <4>2. Added(items[i], p) \in Item /\ Added(items[i], p).state = items[i].state
        BY <3>2, <4>1 DEF Added, Edit, Item
      <4>3. Extends(items[i], Added(items[i], p))
        BY <3>5, <4>1, <4>2 DEF Extends
      <4>4. QED
        BY <3>4, <3>5, <4>1, <4>2, <4>3
    <3>6. CASE /\ PendingItems = {} /\ WithState("absent") # {}
               /\ Go(p, "write",
                    [id  |-> CHOOSE i \in WithState("absent") : TRUE,
                     row |-> Added([state |-> "draft", editor |-> Row(p),
                                    payload |-> IF shown = Nothing THEN {} ELSE items[shown].payload], p)])
      <4> DEFINE i    == CHOOSE i \in WithState("absent") : TRUE
                 base == [state |-> "draft", editor |-> Row(p),
                          payload |-> IF shown = Nothing THEN {} ELSE items[shown].payload]
      <4>1. i \in WithState("absent")
        BY <3>6
      <4>2. i \in Items /\ items[i].state = "absent"
        BY <4>1 DEF WithState
      <4>3. shown # Nothing => items[shown] \in Item
        BY <2>5 DEF ModerationInv
      <4>4. base \in Item /\ base.state = "draft"
        BY <3>1, <4>3 DEF Item, Transitions
      <4>5. Added(base, p) \in Item /\ Added(base, p).state = "draft"
        BY <3>2, <4>4 DEF Added, Edit, Item
      <4>6. Extends(items[i], Added(base, p))
        BY <3>6, <4>2, <4>5 DEF Extends
      <4>7. Go(p, "write", [id |-> i, row |-> Added(base, p)])
        BY <3>6
      <4>8. QED
        BY <3>4, <4>2, <4>5, <4>6, <4>7
    <3>7. QED
      BY <2>8, <3>3, <3>5, <3>6 DEF ReadDraft
  <2>9. CASE WriteDraft(p)
    <3>1. /\ Op(p) = "edit" /\ pc[p] = "write" /\ Return(p) /\ UNCHANGED <<shown, links>>
      BY <2>9 DEF WriteDraft, At
    <3>2. /\ copy[p].id \in Items /\ copy[p].row \in Item
          /\ build = "memory" => Extends(items[copy[p].id], copy[p].row)
      BY <2>1, <3>1 DEF ModerationProc, ModerationOps
    <3>3. PICK state \in {copy[p].row.state}
                           \cup (IF copy[p].row.state = "draft" THEN {"submitted"} ELSE {}) :
            items' = [items EXCEPT ![copy[p].id] = [copy[p].row EXCEPT !.state = state]]
      BY <2>9 DEF WriteDraft
    <3>4. /\ items' \in [Items -> Item] /\ shown' \in Items \cup {Nothing}
          /\ build = "memory" =>
               /\ OnePending' /\ OneShown'
               /\ \A i \in Items : items[i].state \in {"submitted", "under_review"}
                                     => items'[i].payload = items[i].payload
      BY <3>1, <3>2, <3>3, DraftFacts DEF ModerationInv
    <3>5. ModerationProc(p)'
      BY <2>1, <3>1, GoFacts DEF ModerationProc, Return
    <3>6. QED
      BY <2>3, <3>4, <3>5 DEF ReviewedKept
  <2>10. QED
    BY <1>1, <2>6, <2>7, <2>8, <2>9 DEF ModerationStep
<1>2. CASE UNCHANGED moderationVars /\ Elsewhere(ModerationOps)
  <2>1. Office' /\ build' = build /\ cast' = cast
    BY <1>2, ElsewhereOffice DEF ModerationInv
  <2>2. ASSUME NEW p \in cast PROVE ModerationProc(p)'
    <3>1. \/ pc'[p] = pc[p] /\ copy'[p] = copy[p]
          \/ pc'[p] \in {"asleep", "start", "done"}
          \/ Op(p) \notin ModerationOps
      BY <1>2, <2>2, ElsewhereFacts DEF ModerationInv
    <3>2. ModerationProc(p)
      BY <2>2 DEF ModerationInv
    <3>3. QED
      BY <1>2, <2>1, <3>1, <3>2 DEF ModerationProc, moderationVars, PendingItems, Extends, Moves, Op
  <2>3. QED
    BY <1>2, <2>1, <2>2 DEF ModerationInv, moderationVars, OnePending, OneShown, PendingItems,
       WithState, ReviewedKept
<1>3. QED
  BY <1>1, <1>2, ModerationCases

(* In the memory build a profile has one item in the making, and shows the *)
(* one that was approved last with the links of that one, whoever edits    *)
(* and decides in between.                                                 *)
THEOREM OneItemShown == Spec => []ModerationInStep
<1>1. ModerationInv => ModerationInStep
  <2> SUFFICES ASSUME ModerationInv, build = "memory"
               PROVE  Cardinality(PendingItems) <= 1 /\ OneShown
    BY DEF ModerationInStep, OneShown
  <2>1. CASE PendingItems = {}
    <3>1. Cardinality(PendingItems) = 0
      BY <2>1, FS_EmptySet
    <3>2. QED
      BY <3>1 DEF ModerationInv
  <2>2. CASE PendingItems # {}
    <3>1. PICK i : PendingItems = {i}
      BY <2>2 DEF ModerationInv, OnePending
    <3>2. Cardinality(PendingItems) = 1
      BY <3>1, FS_Singleton
    <3>3. QED
      BY <3>2 DEF ModerationInv
  <2>3. QED
    BY <2>1, <2>2
<1>2. QED
  BY <1>1, ModerationStart, ModerationsStep, PTL DEF Spec

(* In the memory build what a reviewer decides on is what was submitted.   *)
THEOREM ReviewersSeeWhatTheyDecide == Spec => ReviewedContentKept
<1>1. ModerationInv /\ [Next]_vars => [ReviewedKept]_vars
  BY ModerationsStep
<1>2. QED
  BY <1>1, ModerationStart, ModerationsStep, PTL DEF Spec, ReviewedContentKept, ReviewedKept


-----------------------------------------------------------------------------
(* The venue.  What a write relies on is what its process has looked up:   *)
(* in the memory build nobody comes between, over Postgres the keys say it *)
(* again.  A device is marked unless somebody is about to mark it.         *)
LEMMA VenueCases ==
  ASSUME [Next]_vars
  PROVE  \/ \E p \in cast : VenueStep(p) /\ Op(p) \in PlaceOps /\ Acts(p)
         \/ UNCHANGED venueVars /\ Elsewhere(PlaceOps)
BY StepCases DEF Mine, Next, SessionsEnd, OtherClocks, Restarted, EndPasses, Lapse, GoStale,
   LinkLapses, vars, Elsewhere

Marked(d) == devices[d] \in {"assigned", "live"}
Held(d)   == \E a \in placed : a[1] = d

Marks(p, d) == /\ pc[p] = "mark"
               /\ \/ Op(p) = "assign" /\ Row(p)[1] = d
                  \/ Op(p) = "unassign" /\ Row(p) = d

VenueTypes ==
  /\ halls \subseteq Halls /\ stalls \in [Stalls -> Halls \cup {Nothing}]
  /\ packages \subseteq Packages /\ members \in [Members -> Packages \cup {Nothing}]
  /\ devices \in [Devices -> Hardware] /\ placed \cup former \subseteq Devices \X Stalls

Standing ==
  /\ \A s \in Stalls : stalls[s] \in halls \cup {Nothing}
  /\ \A a \in placed : stalls[a[2]] # Nothing
  /\ \A a, b \in placed : a[1] = b[1] => a = b

InThread ==
  build = "memory" =>
    /\ \A a, b \in placed : a[2] = b[2] => a = b
    /\ \A d \in Devices : (Marked(d) <=> Held(d)) \/ \E p \in cast : Marks(p, d)

VenueProc(p) ==
  /\ pc[p] = "write" /\ Op(p) \in {"device-patch", "device-retire"}
       => copy[p] \in {"repair", "inventory", "retired"}
  /\ build = "memory" /\ pc[p] = "write" =>
       /\ Op(p) = "hall-delete" => \A s \in Stalls : stalls[s] # Row(p)
       /\ Op(p) \in {"stall-create", "stall-patch"} => Row(p)[2] \in halls
       /\ Op(p) = "stall-delete" => ~InUse(Row(p))
       /\ Op(p) \in {"device-patch", "device-retire"} => ~Marked(Row(p))
       /\ Op(p) = "assign" =>
            ~Marked(Row(p)[1]) /\ stalls[Row(p)[2]] # Nothing /\ ~InUse(Row(p)[2])
  /\ build = "memory" /\ pc[p] = "mark" =>
       /\ Op(p) = "assign" => Row(p) \in placed
       /\ Op(p) = "unassign" => ~Held(Row(p))

VenueInv ==
  /\ Office /\ VenueTypes /\ Standing /\ InThread
  /\ \A p \in cast : VenueProc(p)

LEMMA VenueStart == Init => VenueInv
<1> SUFFICES ASSUME Init PROVE VenueInv
  OBVIOUS
<1>1. Office /\ \A p \in cast : pc[p] \in {"asleep", "start"}
  BY ThreadInit, ProcStart DEF Init
<1>2. \A p \in cast : VenueProc(p)
  BY <1>1 DEF VenueProc
<1>3. VenueInit
  BY DEF Init
<1>4. PICK built \in {TRUE, FALSE} :
        /\ halls = IF built THEN Halls ELSE {}
        /\ stalls = [s \in Stalls |-> IF built THEN CHOOSE h \in Halls : TRUE ELSE Nothing]
  BY <1>3 DEF VenueInit
<1>5. (CHOOSE h \in Halls : TRUE) \in Halls
  BY VenueAssumption
<1>6. /\ halls \subseteq Halls /\ stalls \in [Stalls -> Halls \cup {Nothing}]
      /\ \A s \in Stalls : stalls[s] \in halls \cup {Nothing}
  BY <1>4, <1>5
<1>7. PICK d \in Devices, s \in Stalls :
        \/ /\ devices \in {[e \in Devices |-> status] : status \in {"absent", "inventory"}}
           /\ placed = {}
        \/ /\ stalls[s] # Nothing
           /\ devices = [e \in Devices |-> IF e = d THEN "live" ELSE "inventory"]
           /\ placed = {<<d, s>>}
  BY <1>3 DEF VenueInit
<1>8. /\ devices \in [Devices -> Hardware] /\ placed \subseteq Devices \X Stalls
      /\ \A e \in Devices : Marked(e) <=> Held(e)
      /\ \A a \in placed : a = <<d, s>> /\ stalls[a[2]] # Nothing
  <2>1. CASE /\ devices \in {[e \in Devices |-> status] : status \in {"absent", "inventory"}}
             /\ placed = {}
    BY <2>1 DEF Hardware, Marked, Held
  <2>2. CASE /\ stalls[s] # Nothing
             /\ devices = [e \in Devices |-> IF e = d THEN "live" ELSE "inventory"]
             /\ placed = {<<d, s>>}
    <3>1. /\ devices \in [Devices -> Hardware] /\ placed \subseteq Devices \X Stalls
          /\ \A a \in placed : a = <<d, s>> /\ stalls[a[2]] # Nothing
      BY <2>2 DEF Hardware
    <3>2. \A e \in Devices : (Marked(e) <=> e = d) /\ (Held(e) <=> e = d)
      BY <2>2 DEF Marked, Held
    <3>3. QED
      BY <3>1, <3>2
  <2>3. QED
    BY <1>7, <2>1, <2>2
<1>9. packages = {} /\ members = [a \in Members |-> Nothing] /\ former = {}
  BY <1>3 DEF VenueInit
<1>10. VenueTypes /\ Standing /\ InThread
  BY <1>6, <1>8, <1>9 DEF VenueTypes, Standing, InThread
<1>11. QED
  BY <1>1, <1>2, <1>10 DEF VenueInv

(* A look changes nothing but where its process is.                        *)
LEMMA LookFacts ==
  ASSUME NEW p \in cast, NEW op, NEW ok, ProcOk, Look(p, op, ok)
  PROVE  /\ UNCHANGED venueVars /\ Op(p) = op /\ pc[p] = "start"
         /\ pc'[p] = "done" \/ (pc'[p] = "write" /\ ok)
BY GoFacts DEF Look, At, Return

LEMMA VenueStepKeeps == VenueInv /\ [Next]_vars => VenueInv'
<1> SUFFICES ASSUME VenueInv, [Next]_vars PROVE VenueInv'
  OBVIOUS
<1>1. ASSUME NEW p \in cast, VenueStep(p), Op(p) \in PlaceOps, Acts(p)
      PROVE  VenueInv'
  <2>1. /\ Office' /\ build' = build /\ cast' = cast /\ ProcOk /\ VenueProc(p)
        /\ VenueTypes /\ Standing /\ InThread /\ p \in UNION Casts
        /\ \A q \in cast : q # p => pc'[q] = pc[q] /\ copy'[q] = copy[q]
    BY <1>1, ActsFacts DEF VenueInv, Office, ProcOk
  <2>2. ASSUME build = "memory", NEW q \in cast, q # p PROVE pc[q] \notin {"write", "mark"} \/ Op(q) \in Immediate
    BY <1>1, <2>2, Undisturbed DEF Outside
  <2>3. ASSUME NEW q \in cast, q # p PROVE VenueProc(q)'
    <3>1. VenueProc(q) /\ pc'[q] = pc[q] /\ copy'[q] = copy[q]
      BY <2>1, <2>3 DEF VenueInv
    <3>2. QED
      BY <2>1, <2>2, <2>3, <3>1 DEF VenueProc, Immediate, Op, Row
  <2>4. build = "memory" => \A q \in cast : q # p => \A d : ~Marks(q, d) /\ ~Marks(q, d)'
    BY <2>1, <2>2 DEF Marks, Immediate, Op, Row
  <2>5. ASSUME VenueTypes', Standing', InThread', VenueProc(p)'
        PROVE  VenueInv'
    BY <2>1, <2>3, <2>5 DEF VenueInv
  <2>6. build = "memory" /\ pc[p] # "mark" => \A d \in Devices : Marked(d) <=> Held(d)
    BY <2>1, <2>4 DEF InThread, Marks
  <2>7. ASSUME UNCHANGED venueVars, pc[p] # "mark", VenueProc(p)'
        PROVE  VenueInv'
    <3>1. VenueTypes' /\ Standing'
      BY <2>1, <2>7 DEF VenueTypes, Standing, venueVars
    <3>2. InThread'
      BY <2>1, <2>6, <2>7 DEF InThread, venueVars, Marked, Held
    <3>3. QED
      BY <2>5, <2>7, <3>1, <3>2
  (* A write is its effect, or nothing. *)
  <2>8. ASSUME pc'[p] = "done" PROVE VenueProc(p)'
    BY <2>8 DEF VenueProc
  <2>9. ASSUME UNCHANGED <<devices, placed>>, pc[p] # "mark" PROVE InThread'
    BY <2>1, <2>6, <2>9 DEF InThread, Marked, Held
  <2>10. CASE CreateHall(p)
    <3>1. CASE Look(p, "hall-create", stage # "live")
      BY <2>1, <2>7, <3>1, LookFacts DEF VenueProc, Op
    <3>2. CASE /\ At(p, "hall-create", "write") /\ Return(p)
               /\ halls' = halls \cup {Row(p)}
               /\ UNCHANGED <<stage, stalls, packages, members, devices, placed, former>>
      <4>1. VenueTypes' /\ Standing'
        BY <2>1, <3>2, VenueAssumption DEF VenueTypes, Standing, At
      <4>2. pc'[p] = "done" /\ pc[p] # "mark"
        BY <2>1, <3>2, GoFacts DEF Return, At
      <4>3. QED
        BY <2>5, <2>8, <2>9, <3>2, <4>1, <4>2
    <3>3. QED
      BY <2>10, <3>1, <3>2 DEF CreateHall, Write
  <2>11. CASE DeleteHall(p)
    <3> DEFINE h == Row(p)
               empty == \A s \in Stalls : stalls[s] # h
    <3>1. CASE Look(p, "hall-delete", h \in halls /\ stage = "draft" /\ empty)
      <4>1. /\ UNCHANGED venueVars /\ Op(p) = "hall-delete" /\ pc[p] = "start"
            /\ pc'[p] = "done" \/ (pc'[p] = "write" /\ empty)
        BY <2>1, <3>1, LookFacts
      <4>2. VenueProc(p)'
        BY <4>1 DEF VenueProc, venueVars, Op, Row
      <4>3. QED
        BY <2>7, <4>1, <4>2
    <3>2. CASE /\ At(p, "hall-delete", "write") /\ Return(p)
               /\ \/ empty /\ halls' = halls \ {h}
                       /\ UNCHANGED <<stage, stalls, packages, members, devices, placed, former>>
                  \/ UNCHANGED venueVars
      <4>1. VenueTypes' /\ Standing'
        BY <2>1, <3>2 DEF VenueTypes, Standing, venueVars
      <4>2. pc'[p] = "done" /\ pc[p] # "mark" /\ UNCHANGED <<devices, placed>>
        BY <2>1, <3>2, GoFacts DEF Return, At, venueVars
      <4>3. QED
        BY <2>5, <2>8, <2>9, <4>1, <4>2
    <3>3. Write(p, "hall-delete", empty,
               halls' = halls \ {h}
                 /\ UNCHANGED <<stage, stalls, packages, members, devices, placed, former>>)
          => /\ At(p, "hall-delete", "write") /\ Return(p)
             /\ \/ empty /\ halls' = halls \ {h}
                     /\ UNCHANGED <<stage, stalls, packages, members, devices, placed, former>>
                \/ UNCHANGED venueVars
      BY <2>1 DEF Write, At, VenueProc
    <3>4. QED
      BY <2>11, <3>1, <3>2, <3>3 DEF DeleteHall
  (* A stall is put into a hall there is, or goes while no device is at it. *)
  <2>12. ASSUME NEW s \in Stalls, NEW h, Put(s, h), pc[p] = "write", Return(p),
                h \in halls \/ (h = Nothing /\ ~InUse(s))
         PROVE  VenueInv'
    <3>1. stalls' = [stalls EXCEPT ![s] = h] /\ UNCHANGED <<halls, packages, members, devices, placed, former>>
      BY <2>12 DEF Put
    <3>2. VenueTypes'
      BY <2>1, <2>12, <3>1 DEF VenueTypes
    <3>3. \A a \in placed : a[1] \in Devices /\ a[2] \in Stalls /\ a = <<a[1], a[2]>>
      BY <2>1 DEF VenueTypes
    <3>4. \A a \in placed : stalls'[a[2]] # Nothing
      <4>1. TAKE a \in placed
      <4>2. stalls[a[2]] # Nothing /\ a[2] \in Stalls
        BY <2>1, <3>3 DEF Standing
      <4>3. CASE a[2] = s
        <5>1. InUse(s)
          BY <3>3, <4>3 DEF InUse
        <5>2. h \in Halls
          BY <2>1, <2>12, <5>1 DEF VenueTypes
        <5>3. stalls'[s] = h
          BY <2>1, <2>12, <3>1 DEF VenueTypes
        <5>4. QED
          BY <4>3, <5>2, <5>3, VenueAssumption
      <4>4. CASE a[2] # s
        BY <2>1, <3>1, <4>2, <4>4 DEF VenueTypes
      <4>5. QED
        BY <4>3, <4>4
    <3>5. \A t \in Stalls : stalls'[t] \in halls \cup {Nothing}
      BY <2>1, <2>12, <3>1 DEF VenueTypes, Standing
    <3>6. Standing'
      BY <2>1, <3>1, <3>4, <3>5 DEF Standing
    <3>7. pc'[p] = "done"
      BY <2>1, <2>12, GoFacts DEF Return
    <3>8. QED
      BY <2>5, <2>8, <2>9, <2>12, <3>1, <3>2, <3>6, <3>7
  <2>13. ASSUME UNCHANGED venueVars, pc[p] = "write", Return(p)
         PROVE  VenueInv'
    BY <2>1, <2>7, <2>8, <2>13, GoFacts DEF Return
  <2>14. CASE PutStall(p)
    <3> DEFINE s == Row(p)[1]
               h == Row(p)[2]
    <3>1. s \in Stalls /\ h \in Halls /\ Op(p) \in {"stall-create", "stall-patch"}
      BY <2>1, <2>14, VenueAssumption DEF PutStall, Look, Write, At
    <3>2. ASSUME NEW op, NEW ok, Look(p, op, h \in halls /\ ok) PROVE VenueInv'
      <4>1. /\ UNCHANGED venueVars /\ pc[p] = "start"
            /\ pc'[p] = "done" \/ (pc'[p] = "write" /\ h \in halls)
        BY <2>1, <3>2, LookFacts
      <4>2. VenueProc(p)'
        BY <3>1, <4>1 DEF VenueProc, venueVars, Op, Row
      <4>3. QED
        BY <2>7, <4>1, <4>2
    <3>3. CASE pc[p] = "write"
      <4>1. build = "memory" => h \in halls
        BY <2>1, <3>1, <3>3 DEF VenueProc
      <4>2. Return(p) /\ (UNCHANGED venueVars \/ (Put(s, h) /\ h \in halls))
        BY <2>14, <3>3, <4>1 DEF PutStall, Look, Write, At
      <4>3. QED
        BY <2>12, <2>13, <3>1, <3>3, <4>2
    <3>4. CASE pc[p] # "write"
      BY <2>14, <3>2, <3>4 DEF PutStall, Write, At
    <3>5. QED
      BY <3>3, <3>4
  <2>15. CASE DeleteStall(p)
    <3> DEFINE s == Row(p)
    <3>1. s \in Stalls /\ Op(p) = "stall-delete"
      BY <2>1, <2>15, VenueAssumption DEF DeleteStall, Look, Write, At
    <3>2. CASE Look(p, "stall-delete", stalls[s] # Nothing /\ stage = "draft" /\ ~InUse(s))
      <4>1. /\ UNCHANGED venueVars /\ pc[p] = "start"
            /\ pc'[p] = "done" \/ (pc'[p] = "write" /\ ~InUse(s))
        BY <2>1, <3>2, LookFacts
      <4>2. VenueProc(p)'
        BY <3>1, <4>1 DEF VenueProc, venueVars, Op, Row, InUse
      <4>3. QED
        BY <2>7, <4>1, <4>2
    <3>3. CASE Write(p, "stall-delete", Free(s), Put(s, Nothing))
      <4>1. pc[p] = "write"
        BY <3>3 DEF Write, At
      <4>2. build = "memory" \/ Free(s) => ~InUse(s)
        BY <2>1, <3>1, <4>1 DEF VenueProc, Free, InUse
      <4>3. Return(p) /\ (UNCHANGED venueVars \/ (Put(s, Nothing) /\ ~InUse(s)))
        BY <3>3, <4>2 DEF Write
      <4>4. QED
        BY <2>12, <2>13, <3>1, <4>1, <4>3
    <3>4. QED
      BY <2>15, <3>2, <3>3 DEF DeleteStall
  (* The packages and the roles touch nothing else. *)
  <2>16. ASSUME UNCHANGED <<halls, stalls, devices, placed, former>>,
                packages' \subseteq Packages, members' \in [Members -> Packages \cup {Nothing}],
                pc[p] # "mark", Return(p)
         PROVE  VenueInv'
    <3>1. VenueTypes' /\ Standing'
      BY <2>1, <2>16 DEF VenueTypes, Standing
    <3>2. pc'[p] = "done"
      BY <2>1, <2>16, GoFacts DEF Return
    <3>3. QED
      BY <2>5, <2>8, <2>9, <2>16, <3>1, <3>2
  <2>17. packages \subseteq Packages /\ members \in [Members -> Packages \cup {Nothing}]
    BY <2>1 DEF VenueTypes
  <2>18. CASE CreatePackage(p)
    <3>1. packages' \subseteq Packages
      BY <2>1, <2>17, <2>18, VenueAssumption DEF CreatePackage, At
    <3>2. QED
      BY <2>16, <2>17, <2>18, <3>1 DEF CreatePackage, At
  <2>19. CASE DeletePackage(p)
    <3>1. CASE pc[p] = "write"
      <4>1. Return(p) /\ packages' \subseteq Packages
             /\ UNCHANGED <<halls, stalls, members, devices, placed, former>>
        BY <2>17, <2>19, <3>1 DEF DeletePackage, Look, Write, At, venueVars
      <4>2. QED
        BY <2>16, <2>17, <3>1, <4>1
    <3>2. CASE pc[p] # "write"
      <4>1. Op(p) = "package-delete" /\ pc[p] = "start" /\ UNCHANGED venueVars
        BY <2>19, <3>2 DEF DeletePackage, Look, Write, At
      <4>2. VenueProc(p)'
        <5>1. pc'[p] \in {"write", "done"}
          BY <2>1, <2>19, <3>2, GoFacts DEF DeletePackage, Look, Write, At, Return
        <5>2. QED
          BY <4>1, <5>1 DEF VenueProc, Op
      <4>3. QED
        BY <2>7, <4>1, <4>2
    <3>3. QED
      BY <3>1, <3>2
  <2>20. CASE AssignRole(p)
    <3>1. Row(p) \in Members \X Packages
      BY <2>1, <2>20, VenueAssumption DEF AssignRole, At
    <3>2. members' \in [Members -> Packages \cup {Nothing}]
      BY <2>17, <2>20, <3>1 DEF AssignRole
    <3>3. QED
      BY <2>16, <2>17, <2>20, <3>2 DEF AssignRole, At
  <2>21. CASE DeleteRole(p)
    <3>1. members' \in [Members -> Packages \cup {Nothing}]
      BY <2>17, <2>21 DEF DeleteRole
    <3>2. QED
      BY <2>16, <2>17, <2>21, <3>1 DEF DeleteRole, At
  (* A device that is not marked and will not be changes its status.       *)
  <2>22. ASSUME NEW d \in Devices, NEW status \in Hardware, WriteDevice(d, status),
                UNCHANGED <<placed, former>>, Return(p),
                status \notin {"assigned", "live"}, pc[p] # "mark",
                build = "memory" => ~Marked(d)
         PROVE  VenueInv'
    <3>1. devices' = [devices EXCEPT ![d] = status] /\ UNCHANGED <<halls, stalls, packages, members>>
      BY <2>22 DEF WriteDevice, venueRows
    <3>2. VenueTypes' /\ Standing'
      BY <2>1, <2>22, <3>1 DEF VenueTypes, Standing
    <3>3. \A e \in Devices : devices'[e] = IF e = d THEN status ELSE devices[e]
      BY <2>1, <3>1 DEF VenueTypes
    <3>4. InThread'
      BY <2>1, <2>6, <2>22, <3>3 DEF InThread, Marked, Held
    <3>5. pc'[p] = "done"
      BY <2>1, <2>22, GoFacts DEF Return
    <3>6. QED
      BY <2>5, <2>8, <3>2, <3>4, <3>5
  <2>23. CASE RegisterDevice(p)
    <3>1. /\ Row(p) \in Devices /\ pc[p] = "start" /\ ~Marked(Row(p))
      BY <2>1, <2>23, VenueAssumption DEF RegisterDevice, At, Marked
    <3>2. QED
      BY <2>22, <2>23, <3>1 DEF RegisterDevice, Hardware
  <2>24. CASE ReadDevice(p)
    <3> DEFINE next == IF Op(p) = "device-patch" THEN Repaired(devices[Row(p)]) ELSE Retired(devices[Row(p)])
    <3>1. /\ UNCHANGED venueVars /\ pc[p] = "start" /\ Op(p) \in {"device-patch", "device-retire"}
          /\ IF next = "refused" THEN Return(p) ELSE Go(p, "write", next)
      BY <2>24 DEF ReadDevice, At
    <3>2. Row(p) \in Devices /\ devices[Row(p)] \in Hardware
      BY <2>1, <3>1, VenueAssumption DEF VenueTypes
    <3>3. next # "refused" => next \in {"repair", "inventory", "retired"} /\ ~Marked(Row(p))
      BY <3>2 DEF Repaired, Retired, Marked, Hardware
    <3> HIDE DEF next
    <3>4. pc'[p] = "done" \/ (pc'[p] = "write" /\ copy'[p] = next /\ next # "refused")
      BY <2>1, <3>1, GoFacts DEF Return
    <3>5. VenueProc(p)'
      BY <3>1, <3>3, <3>4 DEF VenueProc, venueVars, Op, Row, Marked
    <3>6. QED
      BY <2>7, <3>1, <3>5
  <2>25. CASE ChangeDevice(p)
    <3>1. pc[p] = "write" /\ Op(p) \in {"device-patch", "device-retire"} /\ Row(p) \in Devices
      BY <2>1, <2>25, VenueAssumption DEF ChangeDevice, At
    <3>2. copy[p] \in {"repair", "inventory", "retired"} /\ (build = "memory" => ~Marked(Row(p)))
      BY <2>1, <3>1 DEF VenueProc
    <3>3. QED
      BY <2>22, <2>25, <3>1, <3>2 DEF ChangeDevice, Hardware
  <2>26. CASE AssignDevice(p)
    <3> DEFINE d == Row(p)[1]
               s == Row(p)[2]
    <3>1. /\ Op(p) = "assign" /\ d \in Devices /\ s \in Stalls /\ Row(p) = <<d, s>>
      BY <2>1, <2>26, VenueAssumption DEF AssignDevice, Look, At
    <3>2. CASE Look(p, "assign", devices[d] \notin {"absent", "assigned", "live"}
                                 /\ stalls[s] # Nothing /\ ~InUse(s))
      <4>1. /\ UNCHANGED venueVars /\ pc[p] = "start"
            /\ \/ pc'[p] = "done"
               \/ /\ pc'[p] = "write" /\ devices[d] \notin {"absent", "assigned", "live"}
                  /\ stalls[s] # Nothing /\ ~InUse(s)
        BY <2>1, <3>2, LookFacts
      <4>2. VenueProc(p)'
        BY <3>1, <4>1 DEF VenueProc, venueVars, Op, Row, Marked, InUse
      <4>3. QED
        BY <2>7, <4>1, <4>2
    <3>3. CASE /\ At(p, "assign", "write")
               /\ IF build = "postgres" /\ (stalls[s] = Nothing \/ \E t \in Stalls : <<d, t>> \in placed)
                  THEN Return(p) /\ UNCHANGED venueVars
                  ELSE /\ placed' = placed \cup {<<d, s>>}
                       /\ Go(p, "mark", Nothing)
                       /\ UNCHANGED <<stage, venueRows, devices, former>>
      <4>1. pc[p] = "write"
        BY <3>3 DEF At
      <4>2. CASE Return(p) /\ UNCHANGED venueVars
        BY <2>13, <4>1, <4>2
      <4>3. CASE /\ ~(build = "postgres" /\ (stalls[s] = Nothing \/ \E t \in Stalls : <<d, t>> \in placed))
                 /\ placed' = placed \cup {<<d, s>>} /\ Go(p, "mark", Nothing)
                 /\ UNCHANGED <<stage, venueRows, devices, former>>
        <5>1. build = "memory" => ~Marked(d) /\ stalls[s] # Nothing /\ ~InUse(s) /\ ~Held(d)
          BY <2>1, <2>6, <3>1, <4>1 DEF VenueProc
        <5>2. build \in {"memory", "postgres"}
          BY <2>1, BuildsAssumption DEF ProcOk
        <5>3. UNCHANGED <<halls, stalls, packages, members, devices, former>>
          BY <4>3 DEF venueRows
        <5>4. \A a \in placed : a[1] \in Devices /\ a[2] \in Stalls /\ a = <<a[1], a[2]>>
          BY <2>1 DEF VenueTypes
        <5>5. stalls[s] # Nothing /\ ~Held(d)
          BY <4>3, <5>1, <5>2, <5>4 DEF Held
        <5>6. VenueTypes'
          BY <2>1, <3>1, <4>3, <5>3 DEF VenueTypes
        <5>7. Standing'
          BY <2>1, <3>1, <4>3, <5>3, <5>4, <5>5 DEF Standing, Held
        <5>8. pc'[p] = "mark"
          BY <2>1, <4>3, GoFacts
        <5>9. Row(p) \in placed'
          BY <3>1, <4>3
        <5>10. VenueProc(p)'
          BY <3>1, <5>8, <5>9 DEF VenueProc, Op, Row
        <5>11. ASSUME build = "memory" PROVE \A a, b \in placed' : a[2] = b[2] => a = b
          BY <2>1, <4>3, <5>1, <5>4, <5>11 DEF InThread, InUse
        <5>12. ASSUME build = "memory", NEW e \in Devices
               PROVE  (Marked(e)' <=> Held(e)') \/ Marks(p, e)'
          <6>1. CASE e = d
            BY <3>1, <5>8, <6>1 DEF Marks, Op, Row
          <6>2. CASE e # d
            <7>1. Held(e)' <=> Held(e)
              BY <4>3, <6>2 DEF Held
            <7>2. QED
              BY <2>6, <4>1, <5>3, <5>12, <7>1 DEF Marked
          <6>3. QED
            BY <6>1, <6>2
        <5>13. InThread'
          BY <2>1, <5>11, <5>12 DEF InThread
        <5>14. QED
          BY <2>5, <5>6, <5>7, <5>10, <5>13
      <4>4. QED
        BY <3>3, <4>2, <4>3
    <3>4. CASE /\ At(p, "assign", "mark") /\ WriteDevice(d, "assigned") /\ Return(p)
               /\ UNCHANGED <<placed, former>>
      <4>1. /\ devices' = [devices EXCEPT ![d] = "assigned"] /\ pc[p] = "mark"
            /\ UNCHANGED <<halls, stalls, packages, members, placed, former>>
        BY <3>4 DEF WriteDevice, venueRows, At
      <4>2. VenueTypes' /\ Standing'
        BY <2>1, <4>1 DEF VenueTypes, Standing, Hardware
      <4>3. \A e \in Devices : devices'[e] = IF e = d THEN "assigned" ELSE devices[e]
        BY <2>1, <4>1 DEF VenueTypes
      <4>4. build = "memory" => Held(d)
        BY <2>1, <3>1, <4>1 DEF VenueProc, Held
      <4>5. build = "memory" => \A e \in Devices : e # d => (Marked(e) <=> Held(e))
        BY <2>1, <2>4, <3>1 DEF InThread, Marks
      <4>6. InThread'
        BY <2>1, <3>1, <4>1, <4>3, <4>4, <4>5 DEF InThread, Marked, Held
      <4>7. pc'[p] = "done"
        BY <2>1, <3>4, GoFacts DEF Return
      <4>8. QED
        BY <2>5, <2>8, <4>2, <4>6, <4>7
    <3>5. QED
      BY <2>26, <3>2, <3>3, <3>4 DEF AssignDevice
  <2>27. CASE UnassignDevice(p)
    <3> DEFINE d == Row(p)
               mine == {a \in placed : a[1] = d}
    <3>1. /\ Op(p) = "unassign" /\ d \in Devices
      BY <2>1, <2>27, VenueAssumption DEF UnassignDevice, Look, At
    <3>2. CASE Look(p, "unassign", devices[d] = "assigned")
      <4>1. UNCHANGED venueVars /\ pc[p] = "start" /\ pc'[p] \in {"write", "done"}
        BY <2>1, <3>2, LookFacts
      <4>2. VenueProc(p)'
        BY <3>1, <4>1 DEF VenueProc, Op
      <4>3. QED
        BY <2>7, <4>1, <4>2
    <3>3. CASE /\ At(p, "unassign", "write")
               /\ placed' = placed \ mine /\ former' = former \cup mine
               /\ Go(p, "mark", Nothing)
               /\ UNCHANGED <<stage, venueRows, devices>>
      <4>1. /\ pc[p] = "write" /\ pc'[p] = "mark"
            /\ UNCHANGED <<halls, stalls, packages, members, devices>>
        BY <2>1, <3>3, GoFacts DEF At, venueRows
      <4>2. \A a : a \in placed' <=> a \in placed /\ a[1] # d
        BY <3>3
      <4>3. VenueTypes'
        BY <2>1, <3>3, <4>1 DEF VenueTypes
      <4>4. Standing'
        BY <2>1, <4>1, <4>2 DEF Standing
      <4>5. VenueProc(p)'
        BY <3>1, <4>1, <4>2 DEF VenueProc, Op, Row, Held
      <4>6. ASSUME build = "memory", NEW e \in Devices
            PROVE  (Marked(e)' <=> Held(e)') \/ Marks(p, e)'
        <5>1. CASE e = d
          BY <3>1, <4>1, <5>1 DEF Marks, Op, Row
        <5>2. CASE e # d
          <6>1. Held(e)' <=> Held(e)
            BY <4>2, <5>2 DEF Held
          <6>2. QED
            BY <2>6, <4>1, <4>6, <6>1 DEF Marked
        <5>3. QED
          BY <5>1, <5>2
      <4>7. InThread'
        BY <2>1, <4>2, <4>6 DEF InThread
      <4>8. QED
        BY <2>5, <4>3, <4>4, <4>5, <4>7
    <3>4. CASE /\ At(p, "unassign", "mark") /\ WriteDevice(d, "inventory") /\ Return(p)
               /\ UNCHANGED <<placed, former>>
      <4>1. /\ devices' = [devices EXCEPT ![d] = "inventory"] /\ pc[p] = "mark"
            /\ UNCHANGED <<halls, stalls, packages, members, placed, former>>
        BY <3>4 DEF WriteDevice, venueRows, At
      <4>2. VenueTypes' /\ Standing'
        BY <2>1, <4>1 DEF VenueTypes, Standing, Hardware
      <4>3. \A e \in Devices : devices'[e] = IF e = d THEN "inventory" ELSE devices[e]
        BY <2>1, <4>1 DEF VenueTypes
      <4>4. build = "memory" => ~Held(d)
        BY <2>1, <3>1, <4>1 DEF VenueProc
      <4>5. build = "memory" => \A e \in Devices : e # d => (Marked(e) <=> Held(e))
        BY <2>1, <2>4, <3>1 DEF InThread, Marks
      <4>6. InThread'
        BY <2>1, <3>1, <4>1, <4>3, <4>4, <4>5 DEF InThread, Marked, Held
      <4>7. pc'[p] = "done"
        BY <2>1, <3>4, GoFacts DEF Return
      <4>8. QED
        BY <2>5, <2>8, <4>2, <4>6, <4>7
    <3>5. QED
      BY <2>27, <3>2, <3>3, <3>4 DEF UnassignDevice
  <2>28. QED
    BY <1>1, <2>10, <2>11, <2>14, <2>15, <2>18, <2>19, <2>20, <2>21, <2>23, <2>24, <2>25, <2>26,
       <2>27 DEF VenueStep
<1>2. ASSUME UNCHANGED venueVars, Elsewhere(PlaceOps)
      PROVE  VenueInv'
  <2>1. Office' /\ build' = build /\ cast' = cast
    BY <1>2, ElsewhereOffice DEF VenueInv
  <2>2. ASSUME NEW q \in cast, Op(q) \in PlaceOps
        PROVE  \/ pc'[q] = pc[q] /\ copy'[q] = copy[q]
               \/ build = "postgres" /\ pc'[q] \in {"asleep", "start", "done"}
    BY <1>2, <2>2, ElsewhereFacts DEF VenueInv
  <2>3. ASSUME NEW q \in cast PROVE VenueProc(q)'
    <3>1. VenueProc(q)
      BY DEF VenueInv
    <3>2. CASE Op(q) \notin PlaceOps
      BY <3>2 DEF VenueProc, Op, PlaceOps
    <3>3. CASE Op(q) \in PlaceOps
      BY <1>2, <2>1, <2>2, <3>1, <3>3 DEF VenueProc, venueVars, InUse, Marked, Held, Op, Row
    <3>4. QED
      BY <3>2, <3>3
  <2>4. VenueTypes' /\ Standing'
    BY <1>2 DEF VenueInv, VenueTypes, Standing, venueVars
  <2>5. build = "memory" => \A q \in cast : \A d : Marks(q, d) => Marks(q, d)'
    BY <2>2 DEF Marks, Op, Row, PlaceOps
  <2>6. InThread'
    BY <1>2, <2>1, <2>5 DEF VenueInv, InThread, Marked, Held, venueVars
  <2>7. QED
    BY <2>1, <2>3, <2>4, <2>6 DEF VenueInv
<1>3. QED
  BY <1>1, <1>2, VenueCases

(* The venue hangs together in both builds, though the routes look first   *)
(* and write later and the marks of the devices are written apart from the *)
(* assignments: no interleaving of the routes leaves a stall without its   *)
(* hall, an assignment without its stall or a device with two.             *)
THEOREM VenueHangsTogether == Spec => []VenueInStep
<1>1. VenueInv => VenueInStep
  <2> SUFFICES ASSUME VenueInv PROVE VenueInStep
    OBVIOUS
  <2>1. ASSUME build = "memory", \A p \in cast : pc[p] # "mark", NEW d \in Devices
        PROVE  devices[d] \in {"assigned", "live"} <=> \E a \in placed : a[1] = d
    BY <2>1 DEF VenueInv, InThread, Marks, Marked, Held
  <2>2. QED
    BY <2>1 DEF VenueInv, Standing, InThread, VenueInStep
<1>2. QED
  BY <1>1, VenueStart, VenueStepKeeps, PTL DEF Spec
=============================================================================

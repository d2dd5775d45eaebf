------------------------ MODULE OutboundQueue_proofs ------------------------
(***************************************************************************)
(* Theorems about OutboundQueue for every value of its constants.          *)
(***************************************************************************)
EXTENDS OutboundQueue, SequenceTheorems, TLAPS

(* The end of a transaction that changes nothing, and of what an actor did. *)
Ends(a) ==
  /\ Rollback(a)
  /\ UNCHANGED <<consent, sends, wins, late, receipts>>
  /\ batch' = batch \/ batch' = [batch EXCEPT ![a] = {}]

(* The steps all but receipts and revocations go through. *)
Transacting(a) ==
  /\ \/ LoadNote(a) \/ Wait(a) \/ WriteNote(a) \/ LoadFup(a)
     \/ \E l \in {"idle", "pick"} : CommitAlone(a, l) \/ WriteFup(a, l)
  /\ UNCHANGED <<workerVars, receipts>>

(* What a step is, for the case splits below. *)
LEMMA StepCases ==
  ASSUME [Next]_vars
  PROVE  \/ \E a \in Actors : Ends(a) \/ Transacting(a)
         \/ \E w \in Workers : /\ List(w) \/ Pick(w) \/ EndBatch(w) \/ Look(w) \/ Send(w)
                               /\ UNCHANGED receipts
         \/ \E q \in Notes : /\ StartQueue(q) \/ CreateNotification(q)
                             /\ UNCHANGED <<workerVars, receipts>>
         \/ \E o \in Organizers :
              /\ StartOperation(o) \/ Check(o) \/ RefuseOperation(o) \/ Record(o)
              /\ UNCHANGED <<workerVars, receipts>>
         \/ \E p \in Receivers :
              /\ \/ StartReceipt(p) \/ FindFollowup(p) \/ ReconcileNotification(p)
                 \/ ReconcileFollowup(p) \/ Suppress(p)
              /\ UNCHANGED workerVars
         \/ /\ \/ StartRevocation \/ WithdrawOnly \/ ListFollowups \/ CancelFollowup
               \/ LeaveFinalNote \/ CancelNote
            /\ UNCHANGED <<workerVars, receipts>>
         \/ Consenting \/ Waiting
         \/ UNCHANGED vars
<1> USE ActorAssumption
<1>1. ASSUME NEW w \in Workers, Working(w)
      PROVE  \/ Ends(w) \/ Transacting(w)
             \/ (List(w) \/ Pick(w) \/ EndBatch(w) \/ Look(w) \/ Send(w)) /\ UNCHANGED receipts
  BY <1>1 DEF Working, WorkerStep, WorkerAborts, Refuse, ClaimRefused, BreakDeadlock, Crash,
     Transaction, Ends, Transacting
<1>2. ASSUME NEW q \in Notes, Queueing(q)
      PROVE  \/ Ends(q) \/ Transacting(q)
             \/ (StartQueue(q) \/ CreateNotification(q)) /\ UNCHANGED <<workerVars, receipts>>
  BY <1>2 DEF Queueing, QueueStep, RefuseQueue, Ends, Transacting, workerVars
<1>3. ASSUME NEW o \in Organizers, Operating(o)
      PROVE  \/ Ends(o) \/ Transacting(o)
             \/ /\ StartOperation(o) \/ Check(o) \/ RefuseOperation(o) \/ Record(o)
                /\ UNCHANGED <<workerVars, receipts>>
  BY <1>3 DEF Operating, OperationStep, Transaction, Transacting
<1>4. ASSUME NEW a \in Actors, Losing(a)
      PROVE  Ends(a)
  BY <1>4 DEF Losing, Aborting, BreakDeadlock, Crash, Ends, workerVars
<1>5. ASSUME Revoking
      PROVE  \/ Transacting(Attendee)
             \/ /\ \/ StartRevocation \/ WithdrawOnly \/ ListFollowups \/ CancelFollowup
                   \/ LeaveFinalNote \/ CancelNote
                /\ UNCHANGED <<workerVars, receipts>>
  BY <1>5 DEF Revoking, RevocationStep, ReadNote, Transacting
<1>6. ASSUME NEW p \in Receivers, Receiving(p)
      PROVE  /\ \/ StartReceipt(p) \/ FindFollowup(p) \/ ReconcileNotification(p)
                \/ ReconcileFollowup(p) \/ Suppress(p)
             /\ UNCHANGED workerVars
  BY <1>6 DEF Receiving, ReceiptStep
<1>7. QED
  BY <1>1, <1>2, <1>3, <1>4, <1>5, <1>6 DEF Next

-----------------------------------------------------------------------------
(* The lines in front of the rows. *)
LEMMA RemoveAtFacts ==
  ASSUME NEW S, NEW s \in Seq(S), NEW i \in 1 .. Len(s)
  PROVE  /\ RemoveAt(s, i) \in Seq(S)
         /\ i > 1 => RemoveAt(s, i) # <<>> /\ Head(RemoveAt(s, i)) = Head(s)
<1> DEFINE u == SubSeq(s, 1, i - 1)
           v == SubSeq(s, i + 1, Len(s))
<1>1. u \in Seq(S) /\ Len(u) = i - 1 /\ (i > 1 => u[1] = s[1])
  BY SubSeqProperties
<1>2. v \in Seq(S)
  BY SubSeqProperties
<1>3. RemoveAt(s, i) = u \o v
  BY DEF RemoveAt
<1> HIDE DEF u, v
<1>4. /\ u \o v \in Seq(S)
      /\ Len(u \o v) = Len(u) + Len(v)
      /\ \A j \in 1 .. Len(u) + Len(v) : (u \o v)[j] = IF j <= Len(u) THEN u[j] ELSE v[j - Len(u)]
  BY <1>1, <1>2, ConcatProperties
<1>5. Len(v) \in Nat
  BY <1>2
<1>6. QED
  BY <1>1, <1>3, <1>4, <1>5

(* Leaving a line leaves the order of the others alone. *)
LEMMA WithoutFacts ==
  ASSUME NEW S, NEW line \in Seq(S), NEW a
  PROVE  /\ Without(line, a) \in Seq(S)
         /\ line # <<>> /\ Head(line) # a =>
              Without(line, a) # <<>> /\ Head(Without(line, a)) = Head(line)
<1>1. CASE ~Contains(line, a)
  BY <1>1 DEF Without
<1>2. CASE Contains(line, a)
  <2> DEFINE i == CHOOSE i \in DOMAIN line : line[i] = a
  <2>1. i \in 1 .. Len(line) /\ line[i] = a
    BY <1>2 DEF Contains
  <2>2. Without(line, a) = RemoveAt(line, i)
    BY <1>2 DEF Without
  <2> HIDE DEF i
  <2>3. line # <<>> /\ Head(line) # a => i > 1
    BY <2>1
  <2>4. QED
    BY <2>1, <2>2, <2>3, RemoveAtFacts
<1>3. QED
  BY <1>1, <1>2

-----------------------------------------------------------------------------
(* QueueTypeOk is not inductive: what an actor writes depends on what it   *)
(* is doing at which place, and on the copies it took there.               *)
Places == {"idle", "pick", "look", "check", "load", "nwrite", "send", "fload", "fwrite",
           "rload", "rwrite", "rfup", "suppress"}

Acts == {"none", "send", "void", "queue", "cancel", "record", "delivered", "bounced", "complained"}
          \cup RequeueActs \cup ConsentActs

Job(a) ==
  /\ a \in Workers => act[a] \in {"none", "send", "void"}
  /\ a \in Notes => act[a] \in {"none", "queue"}
  /\ a \in Organizers => act[a] \in {"none", "cancel", "record"} \cup RequeueActs
  /\ a \in Receivers => act[a] \in {"none", "delivered", "bounced", "complained"}
  /\ a = Attendee => act[a] \in {"none"} \cup ConsentActs

(* Where an actor may be with what it does.  A row it has written is not   *)
(* sending but while a worker is at the provider.                          *)
Stage(a) ==
  /\ act[a] = "none" <=> pc[a] \in {"idle", "pick", "look"}
  /\ act[a] \in {"delivered", "bounced", "complained"} <=> pc[a] \in {"rload", "rwrite", "rfup", "suppress"}
  /\ pc[a] = "send" => act[a] = "send"
  /\ pc[a] \in {"idle", "pick"} \/ on[a] \in Notes \/ (pc[a] = "fload" /\ act[a] \in ConsentActs)
  /\ pc[a] \in {"load", "nwrite"} => act[a] # "queue"

Copies(a) ==
  /\ pc[a] \in {"fload", "fwrite"} /\ act[a] \notin ConsentActs \cup {"queue"}
       => row[a].status \in {"queued", "sent", "failed", "cancelled"}
  /\ pc[a] = "fwrite" /\ act[a] = "queue" => row[a] = NewNote
  /\ pc[a] = "fwrite" /\ act[a] # "queue" => frow[a].note \in Notes
  /\ frow[a].status # "draft" => frow[a].note \in Notes

Walk(a) == Job(a) /\ Stage(a) /\ Copies(a)

TypeInv ==
  /\ QueueTypeOk
  /\ pc \in [Actors -> Places] /\ act \in [Actors -> Acts]
  /\ fup.status # "draft" => fup.note \in Notes
  /\ \A a \in Actors : Walk(a)

LEMMA TypeInit == Init => TypeInv
<1> USE StoreAssumption, ActorAssumption
<1> SUFFICES ASSUME Init PROVE TypeInv
  OBVIOUS
<1>1. QueueTypeOk
  BY DEF Init, StoreInit, WorkerInit, ReceiptInit, QueueTypeOk, NoteRows, FupRows, NoNote, Draft,
     NoteStatuses, FupStatuses
<1>2. pc \in [Actors -> Places] /\ act \in [Actors -> Acts] /\ fup.status = "draft"
  BY DEF Init, StoreInit, Places, Acts, Draft
<1>3. ASSUME NEW a \in Actors PROVE Walk(a)
  <2>1. pc[a] = "idle" /\ act[a] = "none" /\ frow[a].status = "draft"
    BY DEF Init, StoreInit, Draft
  <2>2. QED
    BY <2>1 DEF Walk, Job, Stage, Copies
<1>4. QED
  BY <1>1, <1>2, <1>3 DEF TypeInv

(* A step that moves one actor leaves the others where they are. *)
Kept(b) ==
  /\ pc'[b] = pc[b] /\ act'[b] = act[b] /\ on'[b] = on[b]
  /\ row'[b] = row[b] /\ frow'[b] = frow[b]

LEMMA KeptWalks ==
  ASSUME NEW b \in Actors, Walk(b), Kept(b)
  PROVE  Walk(b)'
  BY DEF Walk, Job, Stage, Copies, Kept

RowTypes ==
  /\ note \in [Notes -> NoteRows] /\ fup \in FupRows
  /\ consent \in [vendor : BOOLEAN, channel : BOOLEAN]
  /\ sends \in [Notes -> Nat] /\ wins \in [Notes -> Nat]
  /\ receipts \subseteq Notes \X ReceiptKinds
  /\ fup.status # "draft" => fup.note \in Notes

LineTypes == noteLine \in [Notes -> Seq(Actors)] /\ fupLine \in Seq(Actors)

ActorTypes ==
  /\ pc \in [Actors -> Places] /\ act \in [Actors -> Acts]
  /\ on \in [Actors -> Notes \cup {None}]
  /\ row \in [Actors -> NoteRows] /\ frow \in [Actors -> FupRows]

BatchTypes == batch \in [Workers -> SUBSET Notes] /\ late \in [Workers -> Nat]

LEMMA Parts == TypeInv <=> /\ RowTypes /\ LineTypes /\ ActorTypes /\ BatchTypes
                           /\ \A a \in Actors : Walk(a)
  BY DEF TypeInv, QueueTypeOk, RowTypes, LineTypes, ActorTypes, BatchTypes

(* What remains to be shown of the step of one actor. *)
LEMMA OneActor ==
  ASSUME TypeInv, NEW a \in Actors, RowTypes', LineTypes', ActorTypes', BatchTypes', Walk(a)',
         \A b \in Actors \ {a} : Kept(b)
  PROVE  TypeInv'
<1>1. \A b \in Actors : Walk(b)'
  BY KeptWalks, Parts
<1>2. QED
  BY <1>1 DEF TypeInv, QueueTypeOk, RowTypes, LineTypes, ActorTypes, BatchTypes

LEMMA LeaveTypes ==
  ASSUME TypeInv, NEW a \in Actors, NEW l \in {"idle", "pick"}, Leave(a, l)
  PROVE  ActorTypes' /\ Walk(a)' /\ \A b \in Actors \ {a} : Kept(b)
<1> USE DEF Leave, Goto
<1>1. NoNote \in NoteRows /\ Draft \in FupRows
  BY DEF NoNote, Draft, NoteRows, FupRows, NoteStatuses, FupStatuses
<1>2. ActorTypes'
  BY <1>1, Parts DEF ActorTypes, Places, Acts
<1>3. pc'[a] \in {"idle", "pick"} /\ act'[a] = "none" /\ frow'[a].status = "draft"
  BY Parts DEF ActorTypes, Draft
<1>4. Walk(a)'
  BY <1>3 DEF Walk, Job, Stage, Copies
<1>5. QED
  BY <1>2, <1>4, Parts DEF ActorTypes, Kept

LEMMA ReleaseTypes ==
  ASSUME TypeInv, NEW a \in Actors, Release(a)
  PROVE  LineTypes'
<1>1. \A n \in Notes : Without(noteLine[n], a) \in Seq(Actors)
  BY WithoutFacts, Parts DEF LineTypes
<1>2. Without(fupLine, a) \in Seq(Actors)
  BY WithoutFacts, Parts DEF LineTypes
<1>3. QED
  BY <1>1, <1>2 DEF Release, LineTypes

LEMMA JoinTypes ==
  ASSUME NEW a \in Actors, NEW line \in Seq(Actors)
  PROVE  Joined(line, a) \in Seq(Actors)
  BY DEF Joined

LEMMA TypeEnds ==
  ASSUME TypeInv, NEW a \in Actors, Ends(a)
  PROVE  TypeInv'
<1>1. Leave(a, "idle") /\ Release(a) /\ UNCHANGED <<note, fup>>
  BY DEF Ends, Rollback
<1>2. RowTypes' /\ BatchTypes'
  BY <1>1, Parts DEF Ends, RowTypes, BatchTypes
<1>3. QED
  BY <1>1, <1>2, LeaveTypes, ReleaseTypes, OneActor

(* The row that a completion or another handler writes. *)
LEMMA CompletedTypes ==
  ASSUME NEW r \in NoteRows, NEW outcome \in Outcomes
  PROVE  /\ Completed(r, outcome) \in NoteRows
         /\ Completed(r, outcome).status \in {"queued", "sent", "failed"}
         /\ Completed(r, outcome).status = "sent" <=> outcome = "sent"
         /\ Completed(r, outcome).spent => /\ Completed(r, outcome).tries >= MaxAttempts
                                           /\ Completed(r, outcome).status = "failed"
<1> DEFINE s == IF outcome # "temporary_failure" THEN outcome
                ELSE IF Exhausted(r) THEN "failed" ELSE "queued"
           e == outcome = "temporary_failure" /\ Exhausted(r)
           d == outcome # "temporary_failure" \/ Exhausted(r)
<1>1. Completed(r, outcome) = [status |-> s, tries |-> r.tries + 1, spent |-> e, due |-> d]
  BY DEF Completed, Ended, Afterwards
<1>2. Exhausted(r) \in BOOLEAN /\ (Exhausted(r) => r.tries + 1 >= MaxAttempts)
  BY StoreAssumption DEF Exhausted
<1>3. /\ s \in {"queued", "sent", "failed"} /\ (s = "sent" <=> outcome = "sent")
      /\ e \in BOOLEAN /\ d \in BOOLEAN
      /\ e => s = "failed" /\ r.tries + 1 >= MaxAttempts
  BY <1>2 DEF Outcomes
<1> HIDE DEF s, e, d
<1>4. r.tries + 1 \in Nat
  BY DEF NoteRows
<1>5. QED
  BY <1>1, <1>3, <1>4 DEF NoteRows, NoteStatuses

LEMMA WrittenTypes ==
  ASSUME NEW r \in NoteRows, NEW k \in {"send"} \cup RequeueActs \cup CancelActs \cup ConsentActs
  PROVE  /\ Written(k, r) \in NoteRows
         /\ Written(k, r).status = "sending" <=> k = "send"
         /\ Written(k, r).status \in {"sending", "queued", "cancelled"}
         /\ Written(k, r).tries = r.tries
         /\ Written(k, r).spent => r.spent /\ Written(k, r).status # "queued"
  BY DEF Written, RequeueActs, CancelActs, ConsentActs, NoteRows, NoteStatuses

LEMMA CommitTypes ==
  ASSUME TypeInv, NEW a \in Actors, NEW l \in {"idle", "pick"}, on[a] \in Notes,
         NEW r \in NoteRows, NEW f \in FupRows, f.status # "draft" => f.note \in Notes,
         Commit(a, l, r, f), UNCHANGED <<workerVars, receipts>>,
         consent' \in [vendor : BOOLEAN, channel : BOOLEAN]
  PROVE  TypeInv'
<1>1. Leave(a, l) /\ Release(a)
  BY DEF Commit
<1>2. RowTypes'
  <2>1. note' \in [Notes -> NoteRows]
    BY Parts DEF Commit, RowTypes
  <2>2. wins' \in [Notes -> Nat]
    BY Parts DEF Commit, RowTypes
  <2>3. QED
    BY <2>1, <2>2, Parts DEF Commit, RowTypes
<1>3. BatchTypes'
  BY Parts DEF BatchTypes, workerVars
<1>4. QED
  BY <1>1, <1>2, <1>3, LeaveTypes, ReleaseTypes, OneActor

LEMMA TypeTransacting ==
  ASSUME TypeInv, NEW a \in Actors, Transacting(a)
  PROVE  TypeInv'
<1> USE Parts, OneActor DEF Goto
<1>0. Walk(a) /\ BatchTypes'
  BY DEF BatchTypes, Transacting, workerVars
<1>1. CASE LoadNote(a)
  <2>1. pc[a] = "load" /\ on[a] \in Notes /\ note[on[a]] \in NoteRows
    BY <1>0, <1>1 DEF LoadNote, Walk, Stage, RowTypes
  <2>2. ActorTypes' /\ RowTypes' /\ LineTypes'
    BY <1>1, <2>1 DEF LoadNote, Transacting, ActorTypes, RowTypes, LineTypes, rowVars, Places
  <2>3. Walk(a)'
    BY <1>0, <1>1, <2>1 DEF LoadNote, Walk, Job, Stage, Copies, ActorTypes
  <2>4. QED
    BY <1>0, <1>1, <2>2, <2>3 DEF LoadNote, Kept, ActorTypes
<1>2. CASE Wait(a)
  <2>1. RowTypes' /\ ActorTypes' /\ Walk(a)'
    BY <1>0, <1>2 DEF Wait, Transacting, RowTypes, ActorTypes, actorVars, Walk, Job, Stage, Copies
  <2>2. LineTypes'
    <3>1. CASE pc[a] = "nwrite"
      <4>1. on[a] \in Notes /\ Joined(noteLine[on[a]], a) \in Seq(Actors)
        BY <1>0, <3>1, JoinTypes DEF Walk, Stage, LineTypes
      <4>2. QED
        BY <1>2, <3>1, <4>1 DEF Wait, LineTypes
    <3>2. CASE pc[a] = "fwrite"
      BY <1>2, <3>2, JoinTypes DEF Wait, LineTypes
    <3>3. QED
      BY <1>2, <3>1, <3>2 DEF Wait
  <2>3. QED
    BY <1>0, <1>2, <2>1, <2>2 DEF Wait, actorVars, Kept
<1>3. CASE WriteNote(a)
  <2>1. /\ pc[a] = "nwrite" /\ on[a] \in Notes
        /\ act[a] \in {"send"} \cup RequeueActs \cup CancelActs
    BY <1>0, <1>3, ActorAssumption
    DEF WriteNote, NoteFree, Walk, Job, Stage, ActorTypes, Acts, CancelActs, ConsentActs
  <2>2. /\ Written(act[a], row[a]) \in NoteRows
        /\ act[a] # "send" => Written(act[a], row[a]).status \in {"queued", "cancelled"}
    BY <2>1, WrittenTypes DEF ActorTypes
  <2>3. LineTypes'
    BY <1>3, <2>1, JoinTypes DEF WriteNote, LineTypes
  <2>4. ActorTypes' /\ RowTypes'
    BY <1>3, <2>2 DEF WriteNote, Transacting, ActorTypes, RowTypes, Places
  <2>5. Walk(a)'
    BY <1>0, <1>3, <2>1, <2>2
    DEF WriteNote, Walk, Job, Stage, Copies, ActorTypes, RequeueActs, CancelActs
  <2>6. QED
    BY <1>0, <1>3, <2>3, <2>4, <2>5 DEF WriteNote, Kept, ActorTypes
<1>4. CASE LoadFup(a)
  <2>1. pc[a] = "fload" /\ on[a] \in Notes
    BY <1>0, <1>4 DEF LoadFup, Walk, Stage
  <2>2. ActorTypes' /\ RowTypes' /\ LineTypes'
    BY <1>4 DEF LoadFup, Transacting, ActorTypes, RowTypes, LineTypes, rowVars, Places
  <2>3. Walk(a)'
    BY <1>0, <1>4, <2>1 DEF LoadFup, Walk, Job, Stage, Copies, ActorTypes
  <2>4. QED
    BY <1>0, <1>4, <2>2, <2>3 DEF LoadFup, Kept, ActorTypes
<1>5. ASSUME NEW l \in {"idle", "pick"}, CommitAlone(a, l)
      PROVE  TypeInv'
  <2>1. on[a] \in Notes
    BY <1>0, <1>5 DEF CommitAlone, Walk, Stage
  <2>2. QED
    BY <1>5, <2>1, CommitTypes DEF CommitAlone, Transacting, RowTypes, ActorTypes
<1>6. ASSUME NEW l \in {"idle", "pick"}, WriteFup(a, l)
      PROVE  TypeInv'
  <2> DEFINE f == [status |-> FollowupStatus(a), note |-> IF act[a] = "queue" THEN on[a] ELSE frow[a].note]
  <2>1. pc[a] = "fwrite" /\ on[a] \in Notes
    BY <1>0, <1>6 DEF WriteFup, FupFree, Walk, Stage
  <2>2. f \in FupRows /\ f.note \in Notes
    BY <1>0, <1>6, <2>1 DEF WriteFup, FollowupStatus, Walk, Copies, NewNote, NoNote, FupRows, FupStatuses
  <2> HIDE DEF f
  <2>3. Commit(a, l, row[a], f) /\ UNCHANGED consent
    BY <1>6 DEF WriteFup, f
  <2>4. QED
    BY <2>1, <2>2, <2>3, CommitTypes DEF Transacting, RowTypes, ActorTypes
<1>7. QED
  BY <1>1, <1>2, <1>3, <1>4, <1>5, <1>6 DEF Transacting

LEMMA TypeWorker ==
  ASSUME TypeInv, NEW w \in Workers, UNCHANGED receipts,
         List(w) \/ Pick(w) \/ EndBatch(w) \/ Look(w) \/ Send(w)
  PROVE  TypeInv'
<1> USE Parts, ActorAssumption DEF Goto
<1>0. w \in Actors /\ Walk(w)
  OBVIOUS
<1>1. CASE List(w)
  <2>1. RowTypes' /\ LineTypes' /\ ActorTypes' /\ BatchTypes'
    BY <1>1 DEF List, RowTypes, LineTypes, ActorTypes, BatchTypes, rowVars, Places, Ready
  <2>2. Walk(w)'
    BY <1>0, <1>1 DEF List, Walk, Job, Stage, Copies, ActorTypes
  <2>3. QED
    BY <1>0, <1>1, <2>1, <2>2, OneActor DEF List, Kept, ActorTypes
<1>2. CASE Pick(w)
  <2>1. PICK n \in batch[w] :
          /\ batch' = [batch EXCEPT ![w] = @ \ {n}]
          /\ IF note[n].status \in Final THEN UNCHANGED <<pc, on>>
             ELSE pc' = [pc EXCEPT ![w] = "look"] /\ on' = [on EXCEPT ![w] = n]
    BY <1>2 DEF Pick
  <2>2. n \in Notes /\ pc[w] = "pick"
    BY <1>2 DEF Pick, BatchTypes
  <2>3. RowTypes' /\ LineTypes' /\ ActorTypes' /\ BatchTypes'
    <3>1. RowTypes' /\ LineTypes'
      BY <1>2 DEF Pick, RowTypes, LineTypes, rowVars
    <3>2. BatchTypes'
      BY <1>2, <2>1 DEF Pick, BatchTypes
    <3>3. ActorTypes'
      BY <1>2, <2>1, <2>2 DEF Pick, ActorTypes, Places
    <3>4. QED
      BY <3>1, <3>2, <3>3
  <2>4. Walk(w)'
    BY <1>0, <1>2, <2>1, <2>2 DEF Pick, Walk, Job, Stage, Copies, ActorTypes
  <2>5. QED
    BY <1>0, <1>2, <2>1, <2>3, <2>4, OneActor DEF Pick, Kept, ActorTypes
<1>3. CASE EndBatch(w)
  <2>1. RowTypes' /\ LineTypes' /\ ActorTypes' /\ BatchTypes'
    BY <1>3 DEF EndBatch, RowTypes, LineTypes, ActorTypes, BatchTypes, rowVars, workerVars, Places
  <2>2. Walk(w)'
    BY <1>0, <1>3 DEF EndBatch, Walk, Job, Stage, Copies, ActorTypes
  <2>3. QED
    BY <1>0, <1>3, <2>1, <2>2, OneActor DEF EndBatch, Kept, ActorTypes
<1>4. CASE Look(w)
  <2>1. RowTypes' /\ LineTypes' /\ ActorTypes' /\ BatchTypes'
    BY <1>4 DEF Look, RowTypes, LineTypes, ActorTypes, BatchTypes, rowVars, workerVars, Places, Acts
  <2>2. Walk(w)'
    BY <1>0, <1>4 DEF Look, Walk, Job, Stage, Copies, ActorTypes
  <2>3. QED
    BY <1>0, <1>4, <2>1, <2>2, OneActor DEF Look, Kept, ActorTypes
<1>5. CASE Send(w)
  <2>1. PICK outcome \in Outcomes :
          /\ row' = [row EXCEPT ![w] = Completed(@, outcome)]
          /\ IF outcome = "sent"
               THEN /\ sends' = [sends EXCEPT ![on[w]] = @ + 1]
                    /\ late'  = [late EXCEPT ![w] = IF Valid THEN @ ELSE @ + 1]
               ELSE UNCHANGED <<sends, late>>
    BY <1>5 DEF Send
  <2>2. /\ Completed(row[w], outcome) \in NoteRows
        /\ Completed(row[w], outcome).status \in {"queued", "sent", "failed"}
    BY <1>0, CompletedTypes DEF ActorTypes
  <2>3. RowTypes'
    BY <1>5, <2>1 DEF Send, RowTypes, rowVars
  <2>4. BatchTypes'
    BY <1>5, <2>1 DEF Send, BatchTypes
  <2>5. LineTypes' /\ ActorTypes'
    BY <1>5, <2>1, <2>2 DEF Send, LineTypes, ActorTypes, rowVars, Places
  <2>6. Walk(w)'
    BY <1>0, <1>5, <2>1, <2>2 DEF Send, Walk, Job, Stage, Copies, ActorTypes
  <2>7. QED
    BY <1>0, <1>5, <2>1, <2>3, <2>4, <2>5, <2>6, OneActor DEF Send, Kept, ActorTypes
<1>6. QED
  BY <1>1, <1>2, <1>3, <1>4, <1>5

LEMMA TypeQueueing ==
  ASSUME TypeInv, NEW q \in Notes, UNCHANGED <<workerVars, receipts>>,
         StartQueue(q) \/ CreateNotification(q)
  PROVE  TypeInv'
<1> USE Parts, ActorAssumption DEF Goto
<1>0. q \in Actors /\ Walk(q) /\ BatchTypes'
  BY DEF BatchTypes, workerVars
<1>1. CASE StartQueue(q)
  <2>1. RowTypes' /\ LineTypes' /\ ActorTypes'
    BY <1>1 DEF StartQueue, RowTypes, LineTypes, ActorTypes, rowVars, Places, Acts
  <2>2. Walk(q)'
    BY <1>0, <1>1 DEF StartQueue, Walk, Job, Stage, Copies, ActorTypes
  <2>3. QED
    BY <1>0, <1>1, <2>1, <2>2, OneActor DEF StartQueue, Kept, ActorTypes
<1>2. CASE CreateNotification(q)
  <2>1. NewNote \in NoteRows
    BY DEF NewNote, NoNote, NoteRows, NoteStatuses
  <2>2. act[q] = "queue"
    BY <1>0, <1>2 DEF CreateNotification, Walk, Job, Stage
  <2>3. RowTypes' /\ LineTypes' /\ ActorTypes'
    BY <1>2, <2>1 DEF CreateNotification, RowTypes, LineTypes, ActorTypes, rowVars, Places
  <2>4. Walk(q)'
    <3>1. /\ pc'[q] = "fwrite" /\ act'[q] = "queue" /\ on'[q] = on[q]
          /\ row'[q] = NewNote /\ frow'[q] = fup
      BY <1>0, <1>2, <2>2 DEF CreateNotification, ActorTypes
    <3>2. on[q] \in Notes
      BY <1>0, <1>2, <2>2 DEF CreateNotification, Walk, Stage, ConsentActs
    <3>3. fup.status = "draft"
      BY <1>2 DEF CreateNotification, Queueable
    <3>4. QED
      BY <1>0, <2>2, <3>1, <3>2, <3>3 DEF Walk, Job, Stage, Copies
  <2>5. QED
    BY <1>0, <1>2, <2>3, <2>4, OneActor DEF CreateNotification, Kept, ActorTypes
<1>3. QED
  BY <1>1, <1>2

LEMMA TypeOperation ==
  ASSUME TypeInv, NEW o \in Organizers, UNCHANGED <<workerVars, receipts>>,
         StartOperation(o) \/ Check(o) \/ RefuseOperation(o) \/ Record(o)
  PROVE  TypeInv'
<1> USE Parts, ActorAssumption DEF Goto
<1>0. o \in Actors /\ Walk(o) /\ BatchTypes'
  BY DEF BatchTypes, workerVars
<1>1. CASE StartOperation(o)
  <2>1. PICK n \in Notes, k \in RequeueActs \cup {"cancel", "record"} :
          /\ act' = [act EXCEPT ![o] = k]
          /\ on'  = [on EXCEPT ![o] = n]
          /\ row' = [row EXCEPT ![o] = note[n]]
    BY <1>1 DEF StartOperation
  <2>2. RowTypes' /\ LineTypes' /\ ActorTypes'
    BY <1>1, <2>1 DEF StartOperation, RowTypes, LineTypes, ActorTypes, rowVars, Places, Acts
  <2>3. Walk(o)'
    BY <1>0, <1>1, <2>1
    DEF StartOperation, Walk, Job, Stage, Copies, ActorTypes, RequeueActs
  <2>4. QED
    BY <1>0, <1>1, <2>1, <2>2, <2>3, OneActor DEF StartOperation, Kept, ActorTypes
<1>2. CASE Check(o)
  <2>1. RowTypes' /\ LineTypes' /\ ActorTypes'
    BY <1>2 DEF Check, RowTypes, LineTypes, ActorTypes, rowVars, Places
  <2>2. Walk(o)'
    BY <1>0, <1>2 DEF Check, Walk, Job, Stage, Copies, ActorTypes, RequeueActs
  <2>3. QED
    BY <1>0, <1>2, <2>1, <2>2, OneActor DEF Check, Kept, ActorTypes
<1>3. CASE RefuseOperation(o)
  <2>1. RowTypes' /\ LineTypes'
    BY <1>3 DEF RefuseOperation, RowTypes, LineTypes, rowVars
  <2>2. QED
    BY <1>0, <1>3, <2>1, LeaveTypes, OneActor DEF RefuseOperation
<1>4. CASE Record(o)
  <2>1. PICK outcome \in Outcomes :
          /\ row' = [row EXCEPT ![o] = Completed(@, outcome)]
          /\ sends' = IF outcome = "sent" THEN [sends EXCEPT ![on[o]] = @ + 1] ELSE sends
    BY <1>4 DEF Record
  <2>2. pc[o] = "nwrite" /\ on[o] \in Notes
    BY <1>0, <1>4 DEF Record, NoteFree, Walk, Stage
  <2>3. /\ Completed(row[o], outcome) \in NoteRows
        /\ Completed(row[o], outcome).status \in {"queued", "sent", "failed"}
    BY <1>0, CompletedTypes DEF ActorTypes
  <2>4. RowTypes'
    <3>1. sends' \in [Notes -> Nat]
      BY <2>1, <2>2 DEF RowTypes
    <3>2. QED
      BY <1>4, <3>1 DEF Record, RowTypes
  <2>5. LineTypes'
    BY <1>0, <1>4, <2>2, JoinTypes DEF Record, LineTypes
  <2>6. ActorTypes'
    BY <1>4, <2>1, <2>3 DEF Record, ActorTypes, Places
  <2>7. Walk(o)'
    BY <1>0, <1>4, <2>1, <2>2, <2>3 DEF Record, Walk, Job, Stage, Copies, ActorTypes
  <2>8. QED
    BY <1>0, <1>4, <2>1, <2>4, <2>5, <2>6, <2>7, OneActor DEF Record, Kept, ActorTypes
<1>5. QED
  BY <1>1, <1>2, <1>3, <1>4

LEMMA ReconciledTypes ==
  ASSUME NEW p \in Receivers, row[p] \in NoteRows
  PROVE  /\ Reconciled(p) \in NoteRows
         /\ Reconciled(p).status \in {"sent", "failed", "cancelled"}
         /\ Reconciled(p).spent => row[p].spent
         /\ Reconciled(p).tries = row[p].tries
         /\ Reconciled(p).status = "sent" => Reported(p) = "sent"
<1> DEFINE s == IF row[p].status = "cancelled" THEN row[p].status ELSE Reported(p)
           e == row[p].spent /\ act[p] = "delivered"
           d == row[p].due \/ act[p] # "delivered"
<1>1. Reconciled(p) = [row[p] EXCEPT !.status = s, !.spent = e, !.due = d]
  BY DEF Reconciled
<1>2. s \in {"sent", "failed", "cancelled"} /\ (s = "sent" => Reported(p) = "sent")
  BY DEF Reported
<1>3. e \in BOOLEAN /\ d \in BOOLEAN /\ (e => row[p].spent)
  OBVIOUS
<1> HIDE DEF s, e, d
<1>4. QED
  BY <1>1, <1>2, <1>3 DEF NoteRows, NoteStatuses

LEMMA TypeReceiving ==
  ASSUME TypeInv, NEW p \in Receivers, UNCHANGED workerVars,
         \/ StartReceipt(p) \/ FindFollowup(p) \/ ReconcileNotification(p)
         \/ ReconcileFollowup(p) \/ Suppress(p)
  PROVE  TypeInv'
<1> USE Parts, ActorAssumption DEF Goto
<1>0. p \in Actors /\ Walk(p) /\ BatchTypes'
  BY DEF BatchTypes, workerVars
<1>1. CASE StartReceipt(p)
  <2>1. PICK n \in Notes, k \in ReceiptKinds :
          /\ receipts' = receipts \cup {<<n, k>>}
          /\ act' = [act EXCEPT ![p] = k]
          /\ on'  = [on EXCEPT ![p] = n]
          /\ row' = [row EXCEPT ![p] = note[n]]
    BY <1>1 DEF StartReceipt
  <2>2. k \in {"delivered", "bounced", "complained"}
    BY <2>1, ReceiptAssumption
  <2>3. RowTypes'
    BY <1>1, <2>1 DEF StartReceipt, RowTypes, rowVars
  <2>4. LineTypes' /\ ActorTypes'
    BY <1>1, <2>1, <2>2 DEF StartReceipt, RowTypes, LineTypes, ActorTypes, rowVars, Places, Acts
  <2>5. Walk(p)'
    BY <1>0, <1>1, <2>1, <2>2 DEF StartReceipt, Walk, Job, Stage, Copies, ActorTypes
  <2>6. QED
    BY <1>0, <1>1, <2>1, <2>3, <2>4, <2>5, OneActor DEF StartReceipt, Kept, ActorTypes
<1>2. CASE FindFollowup(p)
  <2>1. Draft \in FupRows /\ Draft.status = "draft"
    BY DEF Draft, FupRows, FupStatuses
  <2>2. RowTypes' /\ LineTypes' /\ ActorTypes'
    BY <1>2, <2>1 DEF FindFollowup, RowTypes, LineTypes, ActorTypes, rowVars, Places
  <2>3. Walk(p)'
    <3>1. /\ pc'[p] = "rwrite" /\ act'[p] = act[p] /\ on'[p] = on[p] /\ row'[p] = row[p]
          /\ frow'[p] = fup \/ frow'[p] = Draft
      BY <1>0, <1>2 DEF FindFollowup, ActorTypes
    <3>2. frow'[p].status # "draft" => frow'[p].note \in Notes
      BY <2>1, <3>1 DEF RowTypes
    <3>3. QED
      BY <1>0, <1>2, <3>1, <3>2 DEF FindFollowup, Walk, Job, Stage, Copies
  <2>4. QED
    BY <1>0, <1>2, <2>2, <2>3, OneActor DEF FindFollowup, Kept, ActorTypes
<1>3. CASE ReconcileNotification(p)
  <2>1. RowTypes'
    BY <1>0, <1>3, ReconciledTypes DEF ReconcileNotification, RowTypes, ActorTypes
  <2>2. LineTypes' /\ ActorTypes'
    BY <1>3 DEF ReconcileNotification, LineTypes, ActorTypes, Places
  <2>3. Walk(p)'
    BY <1>0, <1>3 DEF ReconcileNotification, Walk, Job, Stage, Copies, ActorTypes
  <2>4. QED
    BY <1>0, <1>3, <2>1, <2>2, <2>3, OneActor DEF ReconcileNotification, Kept, ActorTypes
<1>4. CASE ReconcileFollowup(p)
  <2>1. fup' \in FupRows /\ (fup'.status # "draft" => fup'.note \in Notes)
    <3>1. CASE UNCHANGED fup
      BY <3>1 DEF RowTypes
    <3>2. CASE frow[p] # Draft /\ fup' = [frow[p] EXCEPT !.status = Reported(p)]
      <4>1. frow[p] \in FupRows /\ Reported(p) \in FupStatuses
        BY <1>0 DEF ActorTypes, Reported, FupStatuses
      <4>2. fup' \in FupRows /\ fup'.note = frow[p].note /\ fup'.status = Reported(p)
        BY <3>2, <4>1 DEF FupRows
      <4>3. frow[p].status # "draft" => frow[p].note \in Notes
        BY <1>0 DEF Walk, Copies
      <4>4. frow[p].status = "draft" => frow[p].note \in Notes
        BY <3>2, <4>1 DEF Draft, FupRows
      <4>5. QED
        BY <4>2, <4>3, <4>4
    <3>3. QED
      BY <1>4, <3>1, <3>2 DEF ReconcileFollowup
  <2>2. RowTypes' /\ LineTypes'
    BY <1>4, <2>1 DEF ReconcileFollowup, RowTypes, LineTypes
  <2>3. CASE act[p] = "complained"
    <3>1. ActorTypes' /\ Walk(p)'
      BY <1>0, <1>4, <2>3 DEF ReconcileFollowup, Walk, Job, Stage, Copies, ActorTypes, Places
    <3>2. QED
      BY <1>0, <1>4, <2>2, <2>3, <3>1, OneActor DEF ReconcileFollowup, Kept, ActorTypes
  <2>4. CASE act[p] # "complained"
    BY <1>0, <1>4, <2>2, <2>4, LeaveTypes, OneActor DEF ReconcileFollowup
  <2>5. QED
    BY <2>3, <2>4
<1>5. CASE Suppress(p)
  <2>1. RowTypes' /\ LineTypes'
    BY <1>5 DEF Suppress, RowTypes, LineTypes, rowVars
  <2>2. QED
    BY <1>0, <1>5, <2>1, LeaveTypes, OneActor DEF Suppress
<1>6. QED
  BY <1>1, <1>2, <1>3, <1>4, <1>5

LEMMA TypeRevoking ==
  ASSUME TypeInv, UNCHANGED <<workerVars, receipts>>,
         \/ StartRevocation \/ WithdrawOnly \/ ListFollowups \/ CancelFollowup
         \/ LeaveFinalNote \/ CancelNote
  PROVE  TypeInv'
<1> DEFINE a == Attendee
<1> USE Parts, ActorAssumption DEF Goto
<1>0. a \in Actors /\ Walk(a) /\ BatchTypes'
  BY DEF BatchTypes, workerVars
<1> HIDE DEF a
<1>a. a = Attendee
  BY DEF a
<1>1. CASE StartRevocation
  <2>1. PICK k \in ConsentActs : act' = [act EXCEPT ![a] = k]
    BY <1>1, <1>a DEF StartRevocation
  <2>2. RowTypes' /\ LineTypes' /\ ActorTypes'
    BY <1>1, <1>a, <2>1 DEF StartRevocation, RowTypes, LineTypes, ActorTypes, rowVars, Places, Acts
  <2>3. Walk(a)'
    BY <1>0, <1>1, <1>a, <2>1 DEF StartRevocation, Walk, Job, Stage, Copies, ActorTypes, ConsentActs
  <2>4. QED
    BY <1>0, <1>1, <1>a, <2>1, <2>2, <2>3, OneActor DEF StartRevocation, Kept, ActorTypes
<1>b. Withdrawals \subseteq [vendor : BOOLEAN, channel : BOOLEAN]
  BY DEF Withdrawals
<1>2. CASE WithdrawOnly
  <2>1. RowTypes' /\ LineTypes'
    BY <1>2, <1>b DEF WithdrawOnly, RowTypes, LineTypes, rowVars
  <2>2. QED
    BY <1>0, <1>2, <1>a, <2>1, LeaveTypes, OneActor DEF WithdrawOnly
<1>3. CASE ListFollowups
  <2>1. act[a] \in ConsentActs
    BY <1>0, <1>3, <1>a DEF ListFollowups, Walk, Job, Stage
  <2>2. /\ fup.note \in Notes
        /\ [fup EXCEPT !.status = "cancelled"] \in FupRows
        /\ [fup EXCEPT !.status = "cancelled"].note = fup.note
    BY <1>3 DEF ListFollowups, RowTypes, FupRows, FupStatuses
  <2>3. RowTypes' /\ LineTypes' /\ ActorTypes'
    BY <1>3, <2>2 DEF ListFollowups, RowTypes, LineTypes, ActorTypes, rowVars, Places
  <2>4. Walk(a)'
    <3>1. /\ pc'[a] = "fwrite" /\ act'[a] = act[a] /\ on'[a] = fup.note /\ row'[a] = row[a]
          /\ frow'[a] = [fup EXCEPT !.status = "cancelled"]
      BY <1>0, <1>3, <1>a DEF ListFollowups, ActorTypes
    <3>2. QED
      BY <1>0, <2>1, <2>2, <3>1 DEF Walk, Job, Stage, Copies, ConsentActs
  <2>5. QED
    BY <1>0, <1>3, <1>a, <2>3, <2>4, OneActor DEF ListFollowups, Kept, ActorTypes
<1>4. CASE CancelFollowup
  <2>1. LineTypes'
    BY <1>0, <1>4, <1>a, JoinTypes DEF CancelFollowup, LineTypes
  <2>2. RowTypes' /\ ActorTypes'
    BY <1>4 DEF CancelFollowup, RowTypes, ActorTypes, Places
  <2>3. pc[a] = "fwrite" /\ act[a] \in ConsentActs
    BY <1>0, <1>4, <1>a DEF CancelFollowup, FupFree, Walk, Job, Stage
  <2>4. Walk(a)'
    BY <1>0, <1>4, <1>a, <2>3 DEF CancelFollowup, Walk, Job, Stage, Copies, ActorTypes, ConsentActs
  <2>5. QED
    BY <1>0, <1>4, <1>a, <2>1, <2>2, <2>4, OneActor DEF CancelFollowup, Kept, ActorTypes
<1>5. CASE LeaveFinalNote
  <2>1. pc[a] = "load" /\ on[a] \in Notes
    BY <1>0, <1>5, <1>a DEF LeaveFinalNote, Walk, Stage
  <2>2. frow[a].status # "draft" => frow[a].note \in Notes
    BY <1>0 DEF Walk, Copies
  <2>3. QED
    BY <1>0, <1>5, <1>a, <1>b, <2>1, <2>2, CommitTypes DEF LeaveFinalNote, ActorTypes, RowTypes
<1>6. CASE CancelNote
  <2>1. pc[a] = "nwrite" /\ on[a] \in Notes /\ act[a] \in ConsentActs
    BY <1>0, <1>6, <1>a DEF CancelNote, NoteFree, Walk, Job, Stage
  <2>2. frow[a].status # "draft" => frow[a].note \in Notes
    BY <1>0 DEF Walk, Copies
  <2>3. Written(act[a], row[a]) \in NoteRows
    BY <1>0, <2>1, WrittenTypes DEF ActorTypes
  <2>4. QED
    BY <1>0, <1>6, <1>a, <1>b, <2>1, <2>2, <2>3, CommitTypes DEF CancelNote, ActorTypes
<1>7. QED
  BY <1>1, <1>2, <1>3, <1>4, <1>5, <1>6

(* Steps that move no actor. *)
LEMMA TypeRest ==
  ASSUME TypeInv, Consenting \/ Waiting \/ UNCHANGED vars
  PROVE  TypeInv'
<1> USE Parts
<1>1. CASE Consenting
  <2>1. consent' \in [vendor : BOOLEAN, channel : BOOLEAN]
    BY <1>1 DEF Consenting, CaptureConsent, RowTypes
  <2>2. late' \in [Workers -> Nat]
    BY <1>1 DEF Consenting, BatchTypes
  <2>3. UNCHANGED <<rowVars, actorVars, sends, wins, batch, receipts>>
    BY <1>1 DEF Consenting, CaptureConsent
  <2>4. QED
    BY <2>1, <2>2, <2>3 DEF TypeInv, QueueTypeOk, rowVars, actorVars, Walk, Job, Stage, Copies
<1>2. CASE Waiting
  <2>1. /\ note' = [n \in Notes |-> [note[n] EXCEPT !.due = TRUE]]
        /\ row'  = [b \in Actors |-> [row[b] EXCEPT !.due = TRUE]]
        /\ UNCHANGED <<fup, noteLine, fupLine, consent, pc, act, on, frow, sends, wins,
                       workerVars, receipts>>
    BY <1>2 DEF Waiting, TimePasses
  <2>2. note' \in [Notes -> NoteRows] /\ row' \in [Actors -> NoteRows]
    BY <2>1 DEF RowTypes, ActorTypes, NoteRows
  <2>3. ASSUME NEW b \in Actors PROVE Walk(b)'
    <3>1. row'[b].status = row[b].status /\ (row[b] = NewNote => row'[b] = NewNote)
      BY <2>1 DEF ActorTypes, NoteRows, NewNote, NoNote
    <3>2. QED
      BY <2>1, <3>1 DEF Walk, Job, Stage, Copies
  <2>4. QED
    BY <2>1, <2>2, <2>3 DEF TypeInv, QueueTypeOk, workerVars
<1>3. CASE UNCHANGED vars
  BY <1>3 DEF vars, storeVars, rowVars, actorVars, workerVars, TypeInv, QueueTypeOk, Walk, Job,
     Stage, Copies
<1>4. QED
  BY <1>1, <1>2, <1>3

LEMMA TypeStep == TypeInv /\ [Next]_vars => TypeInv'
  BY StepCases, TypeEnds, TypeTransacting, TypeWorker, TypeQueueing, TypeOperation, TypeReceiving,
     TypeRevoking, TypeRest

(* The variables keep their types, and every actor is where its request    *)
(* lets it be.                                                             *)
THEOREM QueueTypeCorrect == Spec => []QueueTypeOk
<1>1. TypeInv => QueueTypeOk
  BY DEF TypeInv
<1>2. QED
  BY <1>1, TypeInit, TypeStep, PTL DEF Spec

-----------------------------------------------------------------------------
(* What the dead-letter list shows, and that no committed row is sending.  *)
(* Both are about the copies, too, that actors are going to write.         *)
Sane(r) == r.spent => r.tries >= MaxAttempts /\ r.status # "queued"

RowInv ==
  /\ \A n \in Notes : Sane(note[n]) /\ note[n].status # "sending"
  /\ \A a \in Actors : Sane(row[a])

LEMMA RowInit == Init => RowInv
  BY StoreAssumption DEF Init, StoreInit, RowInv, Sane, NoNote

(* A step writes an actor's copy, or changes the copy as its handler does. *)
NoteChange(n, r) ==
  \/ r = note[n]
  \/ r = [note[n] EXCEPT !.due = TRUE]
  \/ \E a \in Actors : r = row[a] /\ row[a].status # "sending"
  \/ \E k \in ConsentActs, a \in Actors : r = Written(k, row[a])
  \/ \E p \in Receivers : r = Reconciled(p)

CopyChange(a, r) ==
  \/ r \in {row[a], NoNote, NewNote}
  \/ r = [row[a] EXCEPT !.due = TRUE]
  \/ \E n \in Notes : r = note[n]
  \/ \E k \in {"send"} \cup RequeueActs \cup CancelActs : r = Written(k, row[a])
  \/ \E outcome \in Outcomes : r = Completed(row[a], outcome)

LEMMA SaneChanges ==
  ASSUME TypeInv, RowInv
  PROVE  /\ \A n \in Notes, r \in NoteRows : NoteChange(n, r) => Sane(r) /\ r.status # "sending"
         /\ \A a \in Actors, r \in NoteRows : CopyChange(a, r) => Sane(r)
<1> USE Parts, ActorAssumption DEF RowTypes, ActorTypes
<1>1. ASSUME NEW n \in Notes, NEW r \in NoteRows, NoteChange(n, r)
      PROVE  Sane(r) /\ r.status # "sending"
  <2>1. CASE r = note[n] \/ r = [note[n] EXCEPT !.due = TRUE]
    BY <2>1 DEF RowInv, Sane, NoteRows
  <2>2. CASE \E a \in Actors : r = row[a] /\ row[a].status # "sending"
    BY <2>2 DEF RowInv
  <2>3. CASE \E k \in ConsentActs, a \in Actors : r = Written(k, row[a])
    <3>1. PICK k \in ConsentActs, a \in Actors : r = Written(k, row[a])
      BY <2>3
    <3>2. k # "send"
      BY DEF ConsentActs
    <3>3. k \in {"send"} \cup RequeueActs \cup CancelActs \cup ConsentActs /\ row[a] \in NoteRows
      OBVIOUS
    <3>4. /\ Written(k, row[a]).status # "sending"
          /\ Written(k, row[a]).tries = row[a].tries
          /\ Written(k, row[a]).spent => row[a].spent /\ Written(k, row[a]).status # "queued"
      BY <3>2, <3>3, WrittenTypes
    <3>5. QED
      BY <3>1, <3>4 DEF RowInv, Sane
  <2>4. CASE \E p \in Receivers : r = Reconciled(p)
    BY <2>4, ReconciledTypes, StoreAssumption DEF RowInv, Sane
  <2>5. QED
    BY <1>1, <2>1, <2>2, <2>3, <2>4 DEF NoteChange
<1>2. ASSUME NEW a \in Actors, NEW r \in NoteRows, CopyChange(a, r)
      PROVE  Sane(r)
  <2>1. CASE r \in {row[a], NoNote, NewNote}
    BY <2>1 DEF RowInv, Sane, NewNote, NoNote
  <2>2. CASE r = [row[a] EXCEPT !.due = TRUE]
    BY <2>2 DEF RowInv, Sane, NoteRows
  <2>3. CASE \E n \in Notes : r = note[n]
    BY <2>3 DEF RowInv
  <2>4. CASE \E k \in {"send"} \cup RequeueActs \cup CancelActs : r = Written(k, row[a])
    BY <2>4, WrittenTypes DEF RowInv, Sane
  <2>5. CASE \E outcome \in Outcomes : r = Completed(row[a], outcome)
    <3>1. PICK outcome \in Outcomes : r = Completed(row[a], outcome)
      BY <2>5
    <3>2. QED
      BY <3>1, CompletedTypes DEF Sane
  <2>6. QED
    BY <1>2, <2>1, <2>2, <2>3, <2>4, <2>5 DEF CopyChange
<1>3. QED
  BY <1>1, <1>2

Changes ==
  /\ \A n \in Notes : NoteChange(n, note'[n])
  /\ \A a \in Actors : CopyChange(a, row'[a])

LEMMA ChangesTransacting ==
  ASSUME TypeInv, NEW a \in Actors, Ends(a) \/ Transacting(a)
  PROVE  Changes
<1> USE Parts, ActorAssumption DEF RowTypes, ActorTypes, Goto
<1>0. Walk(a)
  OBVIOUS
<1>1. CASE Ends(a)
  BY <1>1 DEF Ends, Rollback, Leave, Changes, NoteChange, CopyChange
<1>2. CASE LoadNote(a)
  <2>1. on[a] \in Notes
    BY <1>0, <1>2 DEF LoadNote, Walk, Stage
  <2>2. QED
    BY <1>2, <2>1 DEF LoadNote, rowVars, Changes, NoteChange, CopyChange
<1>3. CASE Wait(a)
  BY <1>3 DEF Wait, actorVars, Changes, NoteChange, CopyChange
<1>4. CASE WriteNote(a)
  <2>1. act[a] \in {"send"} \cup RequeueActs \cup CancelActs
    BY <1>0, <1>4 DEF WriteNote, NoteFree, Walk, Job, Stage, Acts, CancelActs, ConsentActs
  <2>2. /\ UNCHANGED note
        /\ row' = [row EXCEPT ![a] = Written(act[a], row[a])]
    BY <1>4 DEF WriteNote
  <2>3. CopyChange(a, row'[a])
    BY <2>1, <2>2 DEF CopyChange
  <2>4. QED
    BY <2>2, <2>3 DEF Changes, NoteChange, CopyChange
<1>5. CASE LoadFup(a)
  BY <1>5 DEF LoadFup, rowVars, Changes, NoteChange, CopyChange
<1>6. ASSUME NEW l \in {"idle", "pick"}, CommitAlone(a, l) \/ WriteFup(a, l)
      PROVE  Changes
  <2>1. row[a].status # "sending"
    BY <1>0, <1>6 DEF CommitAlone, WriteFup, FupFree, Walk, Copies, NewNote, NoNote
  <2>2. /\ note' = [note EXCEPT ![on[a]] = row[a]]
        /\ row' = [row EXCEPT ![a] = NoNote]
    BY <1>6 DEF CommitAlone, WriteFup, Commit, Leave
  <2>3. QED
    BY <2>1, <2>2 DEF Changes, NoteChange, CopyChange
<1>7. QED
  BY <1>1, <1>2, <1>3, <1>4, <1>5, <1>6 DEF Transacting

LEMMA ChangesElse ==
  ASSUME TypeInv, [Next]_vars, ~ \E a \in Actors : Ends(a) \/ Transacting(a)
  PROVE  Changes
<1> USE Parts, ActorAssumption DEF RowTypes, ActorTypes, Goto
<1>1. ASSUME NEW w \in Workers, List(w) \/ Pick(w) \/ EndBatch(w) \/ Look(w)
      PROVE  Changes
  BY <1>1 DEF List, Pick, EndBatch, Look, rowVars, Changes, NoteChange, CopyChange
<1>2. ASSUME NEW w \in Workers, Send(w)
      PROVE  Changes
  <2>1. PICK outcome \in Outcomes : row' = [row EXCEPT ![w] = Completed(@, outcome)]
    BY <1>2 DEF Send
  <2>2. CopyChange(w, row'[w])
    BY <2>1 DEF CopyChange
  <2>3. QED
    BY <1>2, <2>1, <2>2 DEF Send, rowVars, Changes, NoteChange, CopyChange
<1>3. ASSUME NEW q \in Notes, StartQueue(q) \/ CreateNotification(q)
      PROVE  Changes
  BY <1>3 DEF StartQueue, CreateNotification, rowVars, Changes, NoteChange, CopyChange
<1>4. ASSUME NEW o \in Organizers, StartOperation(o) \/ Check(o) \/ RefuseOperation(o)
      PROVE  Changes
  BY <1>4 DEF StartOperation, Check, RefuseOperation, Leave, rowVars, Changes, NoteChange, CopyChange
<1>5. ASSUME NEW o \in Organizers, Record(o)
      PROVE  Changes
  <2>1. PICK outcome \in Outcomes : row' = [row EXCEPT ![o] = Completed(@, outcome)]
    BY <1>5 DEF Record
  <2>2. CopyChange(o, row'[o])
    BY <2>1 DEF CopyChange
  <2>3. QED
    BY <1>5, <2>1, <2>2 DEF Record, Changes, NoteChange, CopyChange
<1>6. ASSUME NEW p \in Receivers, StartReceipt(p) \/ FindFollowup(p) \/ Suppress(p)
      PROVE  Changes
  BY <1>6 DEF StartReceipt, FindFollowup, Suppress, Leave, rowVars, Changes, NoteChange, CopyChange
<1>7. ASSUME NEW p \in Receivers, ReconcileNotification(p) \/ ReconcileFollowup(p)
      PROVE  Changes
  BY <1>7 DEF ReconcileNotification, ReconcileFollowup, Leave, Changes, NoteChange, CopyChange
<1>8. ASSUME StartRevocation \/ WithdrawOnly \/ ListFollowups \/ CancelFollowup
      PROVE  Changes
  BY <1>8 DEF StartRevocation, WithdrawOnly, ListFollowups, CancelFollowup, Leave, rowVars, Changes,
     NoteChange, CopyChange
<1>9. ASSUME LeaveFinalNote
      PROVE  Changes
  BY <1>9 DEF LeaveFinalNote, Commit, Leave, Changes, NoteChange, CopyChange
<1>10. ASSUME CancelNote
       PROVE  Changes
  <2>1. act[Attendee] \in ConsentActs
    BY <1>10 DEF CancelNote, NoteFree, Walk, Job, Stage
  <2>2. /\ note' = [note EXCEPT ![on[Attendee]] = Written(act[Attendee], row[Attendee])]
        /\ row' = [row EXCEPT ![Attendee] = NoNote]
    BY <1>10 DEF CancelNote, Commit, Leave
  <2>3. QED
    BY <2>1, <2>2 DEF Changes, NoteChange, CopyChange
<1>11. ASSUME Consenting \/ Waiting \/ UNCHANGED vars
       PROVE  Changes
  BY <1>11 DEF Consenting, CaptureConsent, Waiting, TimePasses, vars, storeVars, rowVars, actorVars,
     Changes, NoteChange, CopyChange
<1>12. QED
  BY StepCases, <1>1, <1>2, <1>3, <1>4, <1>5, <1>6, <1>7, <1>8, <1>9, <1>10, <1>11

LEMMA RowStep == TypeInv /\ RowInv /\ [Next]_vars => RowInv'
<1> SUFFICES ASSUME TypeInv, RowInv, [Next]_vars PROVE RowInv'
  OBVIOUS
<1>1. Changes
  BY ChangesTransacting, ChangesElse
<1>2. note' \in [Notes -> NoteRows] /\ row' \in [Actors -> NoteRows]
  BY TypeStep DEF TypeInv, QueueTypeOk
<1>3. QED
  BY <1>1, <1>2, SaneChanges DEF Changes, RowInv, Sane

(* A dead letter has used up its attempts and is not waiting to be sent,   *)
(* and no crash, deadlock or overlap leaves a notification in sending.     *)
THEOREM DeadLettersExhausted == Spec => []DeadLettersAreExhausted /\ []NeverStranded
<1>1. RowInv => DeadLettersAreExhausted /\ NeverStranded
  BY DEF RowInv, Sane, DeadLettersAreExhausted, NeverStranded
<1>2. QED
  BY <1>1, TypeInit, TypeStep, RowInit, RowStep, PTL DEF Spec

-----------------------------------------------------------------------------
(* A worker looks the consent up before it claims: it has sent no message  *)
(* since the consent is gone, unless it is past the provider.              *)
Sending(w) == act[w] = "send" /\ pc[w] \in {"load", "nwrite", "send"}

LateInv ==
  \A w \in Workers : /\ late[w] <= 1
                     /\ Valid \/ Sending(w) => late[w] = 0

LEMMA LateInit == Init => LateInv
  BY DEF Init, StoreInit, WorkerInit, LateInv, Sending

(* Consent comes back in Consenting only, and only a look with consent     *)
(* makes a worker send.                                                    *)
NoLater ==
  /\ Valid' => Valid
  /\ UNCHANGED late
  /\ \A w \in Workers : Sending(w)' => Sending(w) \/ Valid

LEMMA NoLaterTransacting ==
  ASSUME TypeInv, NEW a \in Actors, Ends(a) \/ Transacting(a)
  PROVE  NoLater
<1> USE Parts, ActorAssumption DEF ActorTypes, Goto
<1>1. UNCHANGED <<consent, late>>
  BY DEF Ends, Transacting, workerVars, LoadNote, Wait, WriteNote, LoadFup, CommitAlone, WriteFup
<1>2. ASSUME NEW w \in Workers \ {a} PROVE pc'[w] = pc[w] /\ act'[w] = act[w]
  BY DEF Ends, Rollback, Transacting, LoadNote, Wait, actorVars, WriteNote, LoadFup, CommitAlone,
     WriteFup, Commit, Leave
<1>3. \/ pc'[a] \in {"idle", "pick", "fload", "fwrite"}
      \/ act'[a] = act[a] /\ pc'[a] = pc[a]
      \/ act'[a] = act[a] /\ pc[a] = "load"
      \/ act'[a] = act[a] /\ pc[a] = "nwrite"
  BY DEF Ends, Rollback, Transacting, LoadNote, Wait, actorVars, WriteNote, NoteFree, LoadFup,
     CommitAlone, WriteFup, Commit, Leave
<1>4. QED
  BY <1>1, <1>2, <1>3 DEF NoLater, Valid, Sending

LEMMA LateStep == TypeInv /\ LateInv /\ [Next]_vars => LateInv'
<1> SUFFICES ASSUME TypeInv, LateInv, [Next]_vars PROVE LateInv'
  OBVIOUS
<1> USE Parts, ActorAssumption DEF ActorTypes, BatchTypes, Goto
<1>a. ASSUME NoLater PROVE LateInv'
  BY <1>a DEF NoLater, LateInv
<1>1. ASSUME NEW a \in Actors, Ends(a) \/ Transacting(a)
      PROVE  LateInv'
  BY <1>1, <1>a, NoLaterTransacting
<1>2. ASSUME NEW w \in Workers, List(w) \/ Pick(w) \/ EndBatch(w) \/ Look(w)
      PROVE  LateInv'
  <2>1. UNCHANGED <<consent, late>>
    BY <1>2 DEF List, Pick, EndBatch, Look, workerVars
  <2>2. ASSUME NEW v \in Workers \ {w} PROVE pc'[v] = pc[v] /\ act'[v] = act[v]
    BY <1>2 DEF List, Pick, EndBatch, Look
  <2>3. Sending(w)' => Valid
    BY <1>2 DEF List, Pick, EndBatch, Look, Sending, Deliverable
  <2>4. QED
    BY <2>1, <2>2, <2>3, <1>a DEF NoLater, Valid, Sending
<1>3. ASSUME NEW w \in Workers, Send(w)
      PROVE  LateInv'
  <2>1. Sending(w) /\ late[w] = 0
    BY <1>3 DEF Send, Sending, Walk, Stage, LateInv
  <2>2. UNCHANGED consent /\ ~Sending(w)'
    BY <1>3 DEF Send, Sending
  <2>3. ASSUME NEW v \in Workers \ {w}
        PROVE  pc'[v] = pc[v] /\ act'[v] = act[v] /\ late'[v] = late[v]
    BY <1>3 DEF Send
  <2>4. late'[w] = late[w] \/ (~Valid /\ late'[w] = late[w] + 1)
    BY <1>3 DEF Send
  <2>5. QED
    BY <2>1, <2>2, <2>3, <2>4 DEF LateInv, Valid, Sending
<1>4. ASSUME NEW q \in Notes, StartQueue(q) \/ CreateNotification(q), UNCHANGED <<workerVars, receipts>>
      PROVE  LateInv'
  BY <1>4, <1>a DEF StartQueue, CreateNotification, workerVars, NoLater, Valid, Sending
<1>5. ASSUME NEW o \in Organizers, UNCHANGED <<workerVars, receipts>>,
             StartOperation(o) \/ Check(o) \/ RefuseOperation(o) \/ Record(o)
      PROVE  LateInv'
  BY <1>5, <1>a DEF StartOperation, Check, RefuseOperation, Record, Leave, workerVars, NoLater, Valid,
     Sending
<1>6. ASSUME NEW p \in Receivers, UNCHANGED workerVars,
             \/ StartReceipt(p) \/ FindFollowup(p) \/ ReconcileNotification(p)
             \/ ReconcileFollowup(p) \/ Suppress(p)
      PROVE  LateInv'
  <2>1. Valid' => Valid
    <3>1. CASE Suppress(p)
      <4>1. ~consent'.channel
        BY <3>1 DEF Suppress, RowTypes
      <4>2. QED
        BY <4>1 DEF Valid
    <3>2. CASE ~Suppress(p)
      <4>1. UNCHANGED consent
        BY <1>6, <3>2 DEF StartReceipt, FindFollowup, ReconcileNotification, ReconcileFollowup
      <4>2. QED
        BY <4>1 DEF Valid
    <3>3. QED
      BY <3>1, <3>2
  <2>2. ASSUME NEW w \in Workers PROVE pc'[w] = pc[w] /\ act'[w] = act[w]
    <3>1. w # p
      OBVIOUS
    <3>2. CASE StartReceipt(p) \/ FindFollowup(p) \/ ReconcileNotification(p)
      BY <3>1, <3>2 DEF StartReceipt, FindFollowup, ReconcileNotification
    <3>3. CASE ReconcileFollowup(p) \/ Suppress(p)
      BY <3>1, <3>3 DEF ReconcileFollowup, Suppress, Leave
    <3>4. QED
      BY <1>6, <3>2, <3>3
  <2>3. QED
    BY <1>6, <2>1, <2>2, <1>a DEF workerVars, NoLater, Sending
<1>7. ASSUME UNCHANGED <<workerVars, receipts>>,
             \/ StartRevocation \/ WithdrawOnly \/ ListFollowups \/ CancelFollowup
             \/ LeaveFinalNote \/ CancelNote
      PROVE  LateInv'
  <2>1. Valid' => Valid
    <3>1. UNCHANGED consent \/ consent' \in Withdrawals
      BY <1>7 DEF StartRevocation, WithdrawOnly, ListFollowups, CancelFollowup, LeaveFinalNote,
         CancelNote
    <3>2. consent' \in Withdrawals => ~consent'.channel
      BY DEF Withdrawals
    <3>3. QED
      BY <3>1, <3>2 DEF Valid
  <2>2. ASSUME NEW w \in Workers PROVE pc'[w] = pc[w] /\ act'[w] = act[w]
    BY <1>7 DEF StartRevocation, WithdrawOnly, ListFollowups, CancelFollowup, LeaveFinalNote,
       CancelNote, Commit, Leave
  <2>3. QED
    BY <1>7, <2>1, <2>2, <1>a DEF workerVars, NoLater, Sending
<1>8. ASSUME Consenting
      PROVE  LateInv'
  <2>1. UNCHANGED <<pc, act>> /\ late' = IF Valid' THEN [w \in Workers |-> 0] ELSE late
    BY <1>8 DEF Consenting, CaptureConsent, actorVars
  <2>2. QED
    BY <2>1 DEF LateInv, Sending
<1>9. ASSUME Waiting \/ UNCHANGED vars
      PROVE  LateInv'
  BY <1>9, <1>a DEF Waiting, TimePasses, vars, storeVars, actorVars, workerVars, NoLater, Valid, Sending
<1>10. QED
  BY StepCases, <1>1, <1>2, <1>3, <1>4, <1>5, <1>6, <1>7, <1>8, <1>9

(* However consent goes - revoked, declined or withdrawn by a complaint -  *)
(* every worker sends at most the one message it had looked up before.     *)
THEOREM ConsentIsRespected == Spec => []LateSends
<1>1. LateInv => LateSends
  BY DEF LateInv, LateSends
<1>2. QED
  BY <1>1, TypeInit, TypeStep, LateInit, LateStep, PTL DEF Spec

-----------------------------------------------------------------------------
(* What is shown as sent has been sent.  The copies an actor holds must be *)
(* true, too, and a receipt is about a message that has left.              *)
Bare(a) == pc[a] \in {"idle", "pick"} \/ (pc[a] = "fload" /\ act[a] \in ConsentActs)

Told(a) ==
  /\ row[a].status = "sent" => on[a] \in Notes /\ sends[on[a]] > 0
  /\ Bare(a) => row[a].status # "sent"
  /\ frow[a].status = "sent" => sends[frow[a].note] > 0
  /\ pc[a] = "fwrite" /\ act[a] # "queue" => frow[a].note = on[a]
  /\ pc[a] \in {"rwrite", "rfup"} => frow[a] = Draft \/ frow[a].note = on[a]
  /\ act[a] \in {"delivered", "bounced", "complained"} => sends[on[a]] > 0

(* A message that has left and is not yet counted is in the hands of the   *)
(* transaction that holds the row, and so the only one.                    *)
Delivering(a) == act[a] \in {"send", "record"} /\ pc[a] \in {"send", "fload", "fwrite"}

Counting(a) ==
  Delivering(a) => /\ HeldBy(noteLine[on[a]], a)
                   /\ pc[a] # "send" /\ row[a].status = "sent" => wins[on[a]] < sends[on[a]]

SentInv ==
  /\ NothingClaimedUnsent
  /\ \A a \in Actors : Told(a) /\ Counting(a)

LEMMA SentInit == Init => SentInv
<1> SUFFICES ASSUME Init PROVE SentInv
  OBVIOUS
<1> USE DEF Init, StoreInit
<1>1. NothingClaimedUnsent
  BY DEF NothingClaimedUnsent, NoNote, Draft
<1>2. ASSUME NEW a \in Actors PROVE Told(a) /\ Counting(a)
  BY DEF Told, Counting, Delivering, Bare, NoNote, Draft, ReceiptInit
<1>3. QED
  BY <1>1, <1>2 DEF SentInv

(* Of the others, only those that deliver the notification whose counts    *)
(* the step changes have to be looked at.                                  *)
LEMMA OthersTold ==
  ASSUME TypeInv, NEW b \in Actors, Told(b), Kept(b), \A n \in Notes : sends'[n] >= sends[n],
         RowTypes'
  PROVE  Told(b)'
<1>1. Walk(b) /\ sends \in [Notes -> Nat] /\ sends' \in [Notes -> Nat]
  BY Parts DEF RowTypes
<1>2. act[b] \in {"delivered", "bounced", "complained"} => on[b] \in Notes
  BY <1>1 DEF Walk, Stage, ConsentActs
<1>3. frow[b].status = "sent" => frow[b].note \in Notes
  BY <1>1 DEF Walk, Copies
<1>4. QED
  BY <1>1, <1>2, <1>3 DEF Told, Kept, Bare

LEMMA OthersCounting ==
  ASSUME TypeInv, NEW b \in Actors, Counting(b), Kept(b),
         \A n \in Notes : HeldBy(noteLine[n], b) =>
            /\ HeldBy(noteLine'[n], b)
            /\ wins'[n] = wins[n] /\ sends'[n] = sends[n]
  PROVE  Counting(b)'
<1>1. Walk(b)
  BY Parts
<1>2. Delivering(b) => on[b] \in Notes
  BY <1>1 DEF Walk, Stage, Delivering, ConsentActs
<1>3. QED
  BY <1>2 DEF Counting, Delivering, Kept

LEMMA HeadReleased ==
  ASSUME TypeInv, NEW a \in Actors, Release(a), NEW b \in Actors \ {a}, NEW n \in Notes,
         HeldBy(noteLine[n], b)
  PROVE  HeldBy(noteLine'[n], b)
<1>1. noteLine[n] \in Seq(Actors) /\ noteLine'[n] = Without(noteLine[n], a)
  BY Parts DEF LineTypes, Release
<1>2. QED
  BY <1>1, WithoutFacts DEF HeldBy

LEMMA HeadJoined ==
  ASSUME NEW a \in Actors, NEW b \in Actors, NEW line \in Seq(Actors)
  PROVE  /\ HeldBy(line, b) => HeldBy(Joined(line, a), b)
         /\ Free(line, a) => HeldBy(Joined(line, a), a)
<1>1. CASE Contains(line, a)
  <2>1. line # <<>> /\ Head(line) \in Actors
    BY <1>1 DEF Contains
  <2>2. QED
    BY <1>1, <2>1 DEF Joined, HeldBy, Free
<1>2. CASE ~Contains(line, a)
  <2>1. Joined(line, a) = Append(line, a)
    BY <1>2 DEF Joined
  <2>2. CASE line = <<>>
    BY <2>1, <2>2 DEF HeldBy
  <2>3. CASE line # <<>>
    <3>1. Head(line) \in Actors /\ Append(line, a) # <<>> /\ Head(Append(line, a)) = Head(line)
      BY <2>3
    <3>2. Head(line) # a
      BY <1>2, <2>3 DEF Contains
    <3>3. QED
      BY <2>1, <2>3, <3>1, <3>2 DEF HeldBy, Free
  <2>4. QED
    BY <2>2, <2>3
<1>3. QED
  BY <1>1, <1>2

(* What remains to be shown of the step of one actor. *)
LEMMA SentOne ==
  ASSUME TypeInv, TypeInv', SentInv, NEW a \in Actors, \A b \in Actors \ {a} : Kept(b),
         Told(a)', Counting(a)', NothingClaimedUnsent',
         \A n \in Notes : sends'[n] >= sends[n],
         \A b \in Actors \ {a}, n \in Notes : HeldBy(noteLine[n], b) =>
            HeldBy(noteLine'[n], b) /\ wins'[n] = wins[n] /\ sends'[n] = sends[n]
  PROVE  SentInv'
<1>1. RowTypes'
  BY DEF TypeInv, QueueTypeOk, RowTypes
<1>2. ASSUME NEW b \in Actors \ {a} PROVE Told(b)' /\ Counting(b)'
  BY <1>1, OthersTold, OthersCounting DEF SentInv
<1>3. QED
  BY <1>2 DEF SentInv

LEMMA SentStill ==
  ASSUME TypeInv, UNCHANGED <<note, fup, sends, wins>>, SentInv
  PROVE  NothingClaimedUnsent' /\ \A n \in Notes : sends'[n] >= sends[n]
<1>1. NothingClaimedUnsent'
  BY DEF SentInv, NothingClaimedUnsent
<1>2. QED
  BY <1>1, Parts DEF RowTypes

LEMMA LeaveTold ==
  ASSUME TypeInv, NEW a \in Actors, NEW l \in {"idle", "pick"}, Leave(a, l)
  PROVE  Told(a)' /\ Counting(a)'
<1>1. /\ pc'[a] \in {"idle", "pick"} /\ act'[a] = "none"
      /\ row'[a].status = "none" /\ frow'[a].status = "draft"
  BY Parts DEF ActorTypes, Leave, Goto, NoNote, Draft
<1>2. QED
  BY <1>1 DEF Told, Counting, Delivering, Bare

LEMMA SentEnds ==
  ASSUME TypeInv, TypeInv', SentInv, NEW a \in Actors, Ends(a)
  PROVE  SentInv'
<1>1. Leave(a, "idle") /\ Release(a) /\ UNCHANGED <<note, fup, sends, wins>>
  BY DEF Ends, Rollback
<1>2. QED
  BY <1>1, LeaveTypes, LeaveTold, SentStill, HeadReleased, SentOne

LEMMA SentCommit ==
  ASSUME TypeInv, TypeInv', SentInv, NEW a \in Actors, NEW l \in {"idle", "pick"},
         on[a] \in Notes, NEW r, NEW f, Commit(a, l, r, f),
         r.status = "sent" => sends[on[a]] > 0,
         f.status = "sent" => sends[f.note] > 0,
         act[a] \in {"send", "record"} => pc[a] \in {"fload", "fwrite"} /\ r = row[a]
  PROVE  SentInv'
<1> DEFINE counted == act[a] \in {"send", "record"} /\ r.status = "sent"
<1>1. /\ Leave(a, l) /\ Release(a) /\ UNCHANGED sends
      /\ note' = [note EXCEPT ![on[a]] = r] /\ fup' = f
      /\ wins' = IF counted THEN [wins EXCEPT ![on[a]] = @ + 1] ELSE wins
  BY DEF Commit
<1>2. counted => wins[on[a]] < sends[on[a]] /\ HeldBy(noteLine[on[a]], a)
  BY DEF SentInv, Counting, Delivering
<1> HIDE DEF counted
<1>3. NothingClaimedUnsent'
  <2>1. \A n \in Notes : note'[n].status = "sent" => sends'[n] > 0
    BY <1>1, Parts DEF RowTypes, SentInv, NothingClaimedUnsent
  <2>2. \A n \in Notes : wins'[n] <= sends'[n]
    BY <1>1, <1>2, Parts DEF RowTypes, SentInv, NothingClaimedUnsent
  <2>3. QED
    BY <1>1, <2>1, <2>2 DEF NothingClaimedUnsent
<1>4. \A n \in Notes : sends'[n] >= sends[n]
  BY <1>1, Parts DEF RowTypes
<1>5. ASSUME NEW b \in Actors \ {a}, NEW n \in Notes, HeldBy(noteLine[n], b)
      PROVE  HeldBy(noteLine'[n], b) /\ wins'[n] = wins[n] /\ sends'[n] = sends[n]
  <2>1. HeldBy(noteLine'[n], b)
    BY <1>1, <1>5, HeadReleased
  <2>2. counted => n # on[a]
    BY <1>2, <1>5 DEF HeldBy
  <2>3. QED
    BY <1>1, <2>1, <2>2, Parts DEF RowTypes
<1>6. QED
  BY <1>1, <1>3, <1>4, <1>5, LeaveTypes, LeaveTold, SentOne

LEMMA SentTransacting ==
  ASSUME TypeInv, TypeInv', SentInv, NEW a \in Actors, Transacting(a)
  PROVE  SentInv'
<1> USE Parts DEF Goto
<1>0. Walk(a) /\ Told(a) /\ Counting(a)
  BY DEF SentInv
<1>1. CASE LoadNote(a)
  <2>1. on[a] \in Notes /\ pc[a] = "load"
    BY <1>0, <1>1 DEF LoadNote, Walk, Stage
  <2>2. /\ UNCHANGED <<note, fup, sends, wins, noteLine>>
        /\ pc'[a] = "nwrite" /\ act'[a] = act[a] /\ on'[a] = on[a]
        /\ row'[a] = note[on[a]] /\ frow'[a] = frow[a]
    BY <1>1 DEF LoadNote, rowVars, ActorTypes
  <2>3. Told(a)' /\ Counting(a)'
    BY <1>0, <2>1, <2>2 DEF Told, Counting, Delivering, Bare, SentInv, NothingClaimedUnsent
  <2>4. \A b \in Actors \ {a} : Kept(b)
    BY <1>1 DEF LoadNote, Kept, ActorTypes
  <2>5. QED
    BY <2>2, <2>3, <2>4, SentStill, SentOne
<1>2. CASE Wait(a)
  <2>1. UNCHANGED <<note, fup, sends, wins, actorVars>>
    BY <1>2 DEF Wait
  <2>2. \A b \in Actors : Kept(b)
    BY <2>1 DEF actorVars, Kept
  <2>3. ASSUME NEW b \in Actors, NEW n \in Notes, HeldBy(noteLine[n], b)
        PROVE  HeldBy(noteLine'[n], b)
    BY <1>2, <2>3, HeadJoined DEF Wait, LineTypes
  <2>4. Told(a)'
    BY <1>0, <2>1 DEF Told, Bare, actorVars
  <2>5. Counting(a)'
    BY <1>0, <2>1, <2>2, <2>3, OthersCounting
  <2>6. QED
    BY <2>1, <2>2, <2>3, <2>4, <2>5, SentStill, SentOne
<1>3. CASE WriteNote(a)
  <2>1. /\ pc[a] = "nwrite" /\ on[a] \in Notes /\ Free(noteLine[on[a]], a)
        /\ act[a] \in {"send"} \cup RequeueActs \cup CancelActs
    BY <1>0, <1>3, ActorAssumption
    DEF WriteNote, NoteFree, Walk, Job, Stage, ActorTypes, Acts, CancelActs, ConsentActs
  <2>2. /\ UNCHANGED <<note, fup, sends, wins>>
        /\ noteLine' = [noteLine EXCEPT ![on[a]] = Joined(@, a)]
        /\ pc'[a] = IF act[a] = "send" THEN "send" ELSE "fload"
        /\ act'[a] = act[a] /\ on'[a] = on[a]
        /\ row'[a] = Written(act[a], row[a]) /\ frow'[a] = frow[a]
        /\ \A b \in Actors \ {a} : Kept(b)
    BY <1>3 DEF WriteNote, ActorTypes, Kept
  <2>3. row'[a].status # "sent"
    <3>1. Written(act[a], row[a]).status \in {"sending", "queued", "cancelled"}
      BY <2>1, WrittenTypes DEF ActorTypes
    <3>2. QED
      BY <2>2, <3>1
  <2>4. /\ HeldBy(noteLine'[on[a]], a)
        /\ \A b \in Actors, n \in Notes : HeldBy(noteLine[n], b) => HeldBy(noteLine'[n], b)
    BY <2>1, <2>2, HeadJoined DEF LineTypes
  <2>5. Told(a)'
    BY <1>0, <2>1, <2>2, <2>3 DEF Told, Bare
  <2>6. Counting(a)'
    BY <2>2, <2>3, <2>4 DEF Counting, Delivering
  <2>7. QED
    BY <2>2, <2>4, <2>5, <2>6, SentStill, SentOne
<1>4. CASE LoadFup(a)
  <2>1. pc[a] = "fload" /\ fup.note = on[a] /\ on[a] \in Notes
    BY <1>0, <1>4 DEF LoadFup, Walk, Stage
  <2>2. /\ UNCHANGED <<note, fup, sends, wins, noteLine>>
        /\ pc'[a] = "fwrite" /\ act'[a] = act[a] /\ on'[a] = on[a]
        /\ row'[a] = row[a] /\ frow'[a] = fup
        /\ \A b \in Actors \ {a} : Kept(b)
    BY <1>4 DEF LoadFup, rowVars, ActorTypes, Kept
  <2>3. Told(a)' /\ Counting(a)'
    BY <1>0, <2>1, <2>2 DEF Told, Counting, Delivering, Bare, SentInv, NothingClaimedUnsent
  <2>4. QED
    BY <2>2, <2>3, SentStill, SentOne
<1>5. ASSUME NEW l \in {"idle", "pick"}, CommitAlone(a, l)
      PROVE  SentInv'
  <2>1. pc[a] = "fload" /\ on[a] \in Notes /\ Commit(a, l, row[a], fup)
    BY <1>0, <1>5 DEF CommitAlone, Walk, Stage
  <2>2. QED
    BY <1>0, <2>1, SentCommit DEF Told, SentInv, NothingClaimedUnsent
<1>6. ASSUME NEW l \in {"idle", "pick"}, WriteFup(a, l)
      PROVE  SentInv'
  <2> DEFINE f == [status |-> FollowupStatus(a), note |-> IF act[a] = "queue" THEN on[a] ELSE frow[a].note]
  <2>1. pc[a] = "fwrite" /\ on[a] \in Notes /\ Commit(a, l, row[a], f)
    BY <1>0, <1>6 DEF WriteFup, FupFree, Walk, Stage
  <2>2. f.status = row[a].status /\ f.note = on[a]
    BY <1>0, <2>1 DEF FollowupStatus, Told
  <2> HIDE DEF f
  <2>3. QED
    BY <1>0, <2>1, <2>2, SentCommit DEF Told
<1>7. QED
  BY <1>1, <1>2, <1>3, <1>4, <1>5, <1>6 DEF Transacting

LEMMA SentWorker ==
  ASSUME TypeInv, TypeInv', SentInv, NEW w \in Workers,
         List(w) \/ Pick(w) \/ EndBatch(w) \/ Look(w) \/ Send(w)
  PROVE  SentInv'
<1> USE Parts, ActorAssumption DEF Goto
<1>0. w \in Actors /\ Walk(w) /\ Told(w) /\ Counting(w)
  BY DEF SentInv
<1>1. CASE List(w) \/ Pick(w) \/ EndBatch(w) \/ Look(w)
  <2>1. /\ UNCHANGED <<note, fup, sends, wins, noteLine>>
        /\ pc[w] \in {"idle", "pick", "look"} /\ pc'[w] \in {"idle", "pick", "look", "load"}
        /\ act'[w] \in {act[w], "send", "void"}
        /\ pc[w] \in {"idle", "pick"} \/ on'[w] = on[w]
        /\ row'[w] = row[w] /\ frow'[w] = frow[w]
    BY <1>1 DEF List, Pick, EndBatch, Look, rowVars, ActorTypes
  <2>2. \A b \in Actors \ {w} : Kept(b)
    BY <1>1 DEF List, Pick, EndBatch, Look, ActorTypes, Kept
  <2>3. /\ pc'[w] \in {"idle", "pick"} => pc[w] \in {"idle", "pick"}
        /\ act[w] = "none" \/ pc[w] \notin {"idle", "pick", "look"}
    BY <1>0, <1>1 DEF List, Pick, EndBatch, Look, ActorTypes, Walk, Stage
  <2>4. Told(w)'
    BY <1>0, <2>1, <2>3 DEF Told, Bare
  <2>5. Counting(w)'
    BY <2>1 DEF Counting, Delivering
  <2>6. QED
    BY <1>0, <2>1, <2>2, <2>4, <2>5, SentStill, SentOne
<1>2. CASE Send(w)
  <2>1. PICK outcome \in Outcomes :
          /\ row' = [row EXCEPT ![w] = Completed(@, outcome)]
          /\ IF outcome = "sent"
               THEN /\ sends' = [sends EXCEPT ![on[w]] = @ + 1]
                    /\ late'  = [late EXCEPT ![w] = IF Valid THEN @ ELSE @ + 1]
               ELSE UNCHANGED <<sends, late>>
    BY <1>2 DEF Send
  <2>2. /\ pc[w] = "send" /\ act[w] = "send" /\ on[w] \in Notes
        /\ HeldBy(noteLine[on[w]], w)
    BY <1>0, <1>2 DEF Send, Walk, Stage, ConsentActs, Counting, Delivering
  <2>3. /\ UNCHANGED <<note, fup, wins, noteLine>>
        /\ pc'[w] = "fload" /\ act'[w] = "send" /\ on'[w] = on[w] /\ frow'[w] = frow[w]
        /\ \A b \in Actors \ {w} : Kept(b)
    BY <1>2, <2>1, <2>2 DEF Send, rowVars, ActorTypes, Kept
  <2>4. row'[w].status = "sent" <=> outcome = "sent"
    BY <1>0, <2>1, CompletedTypes DEF ActorTypes
  <2>5. /\ \A n \in Notes : sends'[n] >= sends[n] /\ sends'[n] \in Nat
        /\ \A n \in Notes : n # on[w] => sends'[n] = sends[n]
        /\ outcome = "sent" => sends'[on[w]] = sends[on[w]] + 1
    BY <2>1, <2>2 DEF RowTypes
  <2>6. NothingClaimedUnsent'
    <3>1. \A n \in Notes : wins'[n] \in Nat /\ wins'[n] = wins[n] /\ sends[n] \in Nat
      BY <2>3 DEF RowTypes
    <3>2. fup.status = "sent" => fup.note \in Notes
      BY DEF RowTypes
    <3>3. QED
      BY <2>3, <2>5, <3>1, <3>2 DEF SentInv, NothingClaimedUnsent
  <2>7. Told(w)'
    <3>1. row'[w].status = "sent" => sends'[on[w]] > 0
      BY <2>2, <2>4, <2>5 DEF RowTypes
    <3>2. frow[w].status = "sent" => sends'[frow[w].note] > 0
      BY <1>0, <2>5 DEF Told, Walk, Copies, RowTypes
    <3>3. QED
      BY <2>2, <2>3, <3>1, <3>2 DEF Told, Bare, ConsentActs
  <2>8. Counting(w)'
    <3>1. outcome = "sent" => wins[on[w]] < sends'[on[w]]
      BY <2>2, <2>5 DEF SentInv, NothingClaimedUnsent, RowTypes
    <3>2. QED
      BY <2>2, <2>3, <2>4, <3>1 DEF Counting, Delivering
  <2>9. ASSUME NEW b \in Actors \ {w}, NEW n \in Notes, HeldBy(noteLine[n], b)
        PROVE  HeldBy(noteLine'[n], b) /\ wins'[n] = wins[n] /\ sends'[n] = sends[n]
    BY <2>2, <2>3, <2>5, <2>9 DEF HeldBy
  <2>10. QED
    BY <1>0, <2>3, <2>5, <2>6, <2>7, <2>8, <2>9, SentOne
<1>3. QED
  BY <1>1, <1>2

LEMMA SentQueueing ==
  ASSUME TypeInv, TypeInv', SentInv, NEW q \in Notes, StartQueue(q) \/ CreateNotification(q)
  PROVE  SentInv'
<1> USE Parts, ActorAssumption DEF Goto
<1>0. q \in Actors /\ Walk(q) /\ Told(q)
  BY DEF SentInv
<1>1. /\ UNCHANGED <<note, fup, sends, wins, noteLine>>
      /\ \A b \in Actors \ {q} : Kept(b)
  BY DEF StartQueue, CreateNotification, rowVars, ActorTypes, Kept
<1>2. CASE StartQueue(q)
  <2>1. /\ pc[q] = "idle" /\ pc'[q] = "fload" /\ act'[q] = "queue" /\ on'[q] = q
        /\ row'[q] = row[q] /\ frow'[q] = frow[q]
    BY <1>0, <1>2 DEF StartQueue, ActorTypes
  <2>2. Told(q)' /\ Counting(q)'
    BY <1>0, <1>1, <2>1 DEF Told, Bare, Counting, Delivering
  <2>3. QED
    BY <1>0, <1>1, <2>2, SentStill, SentOne
<1>3. CASE CreateNotification(q)
  <2>1. act[q] = "queue" /\ fup.status = "draft"
    BY <1>0, <1>3 DEF CreateNotification, Queueable, Walk, Job, Stage
  <2>2. /\ pc'[q] = "fwrite" /\ act'[q] = "queue"
        /\ row'[q] = NewNote /\ frow'[q] = fup
    BY <1>0, <1>3, <2>1 DEF CreateNotification, ActorTypes
  <2>3. Told(q)' /\ Counting(q)'
    BY <2>1, <2>2 DEF Told, Bare, Counting, Delivering, NewNote, NoNote
  <2>4. QED
    BY <1>0, <1>1, <2>3, SentStill, SentOne
<1>4. QED
  BY <1>2, <1>3

LEMMA SentOperation ==
  ASSUME TypeInv, TypeInv', SentInv, NEW o \in Organizers,
         StartOperation(o) \/ Check(o) \/ RefuseOperation(o) \/ Record(o)
  PROVE  SentInv'
<1> USE Parts, ActorAssumption DEF Goto
<1>0. o \in Actors /\ Walk(o) /\ Told(o) /\ Counting(o)
  BY DEF SentInv
<1>1. CASE StartOperation(o)
  <2>1. PICK n \in Notes, k \in RequeueActs \cup {"cancel", "record"} :
          /\ act' = [act EXCEPT ![o] = k]
          /\ on'  = [on EXCEPT ![o] = n]
          /\ row' = [row EXCEPT ![o] = note[n]]
    BY <1>1 DEF StartOperation
  <2>2. /\ UNCHANGED <<note, fup, sends, wins, noteLine>>
        /\ pc'[o] = "check" /\ act'[o] = k /\ on'[o] = n /\ row'[o] = note[n] /\ frow'[o] = frow[o]
        /\ \A b \in Actors \ {o} : Kept(b)
    BY <1>0, <1>1, <2>1 DEF StartOperation, rowVars, ActorTypes, Kept
  <2>3. k \notin {"delivered", "bounced", "complained"}
    BY DEF RequeueActs
  <2>4. Told(o)' /\ Counting(o)'
    BY <1>0, <2>2, <2>3 DEF Told, Bare, Counting, Delivering, SentInv, NothingClaimedUnsent
  <2>5. QED
    BY <1>0, <2>2, <2>4, SentStill, SentOne
<1>2. CASE Check(o)
  <2>1. /\ UNCHANGED <<note, fup, sends, wins, noteLine>>
        /\ pc'[o] = "load" /\ act'[o] = act[o] /\ on'[o] = on[o]
        /\ row'[o] = row[o] /\ frow'[o] = frow[o]
        /\ \A b \in Actors \ {o} : Kept(b)
    BY <1>0, <1>2 DEF Check, rowVars, ActorTypes, Kept
  <2>2. Told(o)' /\ Counting(o)'
    BY <1>0, <2>1 DEF Told, Bare, Counting, Delivering
  <2>3. QED
    BY <1>0, <2>1, <2>2, SentStill, SentOne
<1>3. CASE RefuseOperation(o)
  <2>1. Leave(o, "idle") /\ UNCHANGED <<note, fup, sends, wins, noteLine>>
    BY <1>3 DEF RefuseOperation, rowVars
  <2>2. QED
    BY <1>0, <2>1, LeaveTypes, LeaveTold, SentStill, SentOne
<1>4. CASE Record(o)
  <2>1. PICK outcome \in Outcomes :
          /\ row' = [row EXCEPT ![o] = Completed(@, outcome)]
          /\ sends' = IF outcome = "sent" THEN [sends EXCEPT ![on[o]] = @ + 1] ELSE sends
    BY <1>4 DEF Record
  <2>2. /\ pc[o] = "nwrite" /\ act[o] = "record" /\ on[o] \in Notes
        /\ Free(noteLine[on[o]], o)
    BY <1>0, <1>4 DEF Record, NoteFree, Walk, Stage
  <2>3. /\ UNCHANGED <<note, fup, wins>>
        /\ noteLine' = [noteLine EXCEPT ![on[o]] = Joined(@, o)]
        /\ pc'[o] = "fload" /\ act'[o] = "record" /\ on'[o] = on[o] /\ frow'[o] = frow[o]
        /\ \A b \in Actors \ {o} : Kept(b)
    BY <1>0, <1>4, <2>1, <2>2 DEF Record, ActorTypes, Kept
  <2>4. row'[o].status = "sent" <=> outcome = "sent"
    BY <1>0, <2>1, CompletedTypes DEF ActorTypes
  <2>5. /\ \A n \in Notes : sends'[n] >= sends[n] /\ sends'[n] \in Nat
        /\ \A n \in Notes : n # on[o] => sends'[n] = sends[n]
        /\ outcome = "sent" => sends'[on[o]] = sends[on[o]] + 1
    BY <2>1, <2>2 DEF RowTypes
  <2>6. NothingClaimedUnsent'
    <3>1. \A n \in Notes : wins'[n] \in Nat /\ wins'[n] = wins[n] /\ sends[n] \in Nat
      BY <2>3 DEF RowTypes
    <3>2. fup.status = "sent" => fup.note \in Notes
      BY DEF RowTypes
    <3>3. QED
      BY <2>3, <2>5, <3>1, <3>2 DEF SentInv, NothingClaimedUnsent
  <2>7. Told(o)'
    <3>1. row'[o].status = "sent" => sends'[on[o]] > 0
      BY <2>2, <2>4, <2>5 DEF RowTypes
    <3>2. frow[o].status = "sent" => sends'[frow[o].note] > 0
      BY <1>0, <2>5 DEF Told, Walk, Copies, RowTypes
    <3>3. QED
      BY <2>2, <2>3, <3>1, <3>2 DEF Told, Bare, ConsentActs
  <2>8. /\ HeldBy(noteLine'[on[o]], o)
        /\ \A b \in Actors, n \in Notes : HeldBy(noteLine[n], b) => HeldBy(noteLine'[n], b)
    BY <1>0, <2>2, <2>3, HeadJoined DEF LineTypes
  <2>9. Counting(o)'
    <3>1. outcome = "sent" => wins[on[o]] < sends'[on[o]]
      BY <2>2, <2>5 DEF SentInv, NothingClaimedUnsent, RowTypes
    <3>2. QED
      BY <2>2, <2>3, <2>4, <2>8, <3>1 DEF Counting, Delivering
  <2>10. ASSUME NEW b \in Actors \ {o}, NEW n \in Notes, HeldBy(noteLine[n], b)
         PROVE  HeldBy(noteLine'[n], b) /\ wins'[n] = wins[n] /\ sends'[n] = sends[n]
    BY <2>2, <2>3, <2>5, <2>8, <2>10 DEF Free
  <2>11. QED
    BY <1>0, <2>3, <2>5, <2>6, <2>7, <2>9, <2>10, SentOne
<1>5. QED
  BY <1>1, <1>2, <1>3, <1>4

LEMMA SentReceiving ==
  ASSUME TypeInv, TypeInv', SentInv, NEW p \in Receivers,
         \/ StartReceipt(p) \/ FindFollowup(p) \/ ReconcileNotification(p)
         \/ ReconcileFollowup(p) \/ Suppress(p)
  PROVE  SentInv'
<1> USE Parts, ActorAssumption DEF Goto
<1>0. p \in Actors /\ Walk(p) /\ Told(p)
  BY DEF SentInv
<1>a. UNCHANGED <<sends, wins, noteLine>>
  BY DEF StartReceipt, FindFollowup, ReconcileNotification, ReconcileFollowup, Suppress, rowVars
<1>b. pc[p] \in {"rwrite", "rfup"} => sends[on[p]] > 0 /\ on[p] \in Notes
  BY <1>0 DEF Walk, Stage, Told, ConsentActs
<1>1. CASE StartReceipt(p)
  <2>1. PICK n \in Notes, k \in ReceiptKinds :
          /\ sends[n] > 0
          /\ act' = [act EXCEPT ![p] = k]
          /\ on'  = [on EXCEPT ![p] = n]
          /\ row' = [row EXCEPT ![p] = note[n]]
    BY <1>1 DEF StartReceipt
  <2>2. k \in {"delivered", "bounced", "complained"}
    BY <2>1, ReceiptAssumption
  <2>3. /\ UNCHANGED <<note, fup>>
        /\ pc'[p] = "rload" /\ act'[p] = k /\ on'[p] = n /\ row'[p] = note[n] /\ frow'[p] = frow[p]
        /\ \A b \in Actors \ {p} : Kept(b)
    BY <1>0, <1>1, <2>1 DEF StartReceipt, rowVars, ActorTypes, Kept
  <2>4. Told(p)' /\ Counting(p)'
    BY <1>0, <1>a, <2>1, <2>2, <2>3 DEF Told, Bare, Counting, Delivering
  <2>5. QED
    BY <1>0, <1>a, <2>3, <2>4, SentStill, SentOne
<1>2. CASE FindFollowup(p)
  <2>1. /\ UNCHANGED <<note, fup>>
        /\ pc'[p] = "rwrite" /\ act'[p] = act[p] /\ on'[p] = on[p] /\ row'[p] = row[p]
        /\ (frow'[p] = fup /\ fup.note = on[p]) \/ frow'[p] = Draft
        /\ \A b \in Actors \ {p} : Kept(b)
    BY <1>0, <1>2 DEF FindFollowup, rowVars, ActorTypes, Kept
  <2>2. act[p] \in {"delivered", "bounced", "complained"}
    BY <1>0, <1>2 DEF FindFollowup, Walk, Stage
  <2>3. frow'[p].status = "sent" => sends[frow'[p].note] > 0
    BY <2>1 DEF Draft, SentInv, NothingClaimedUnsent
  <2>4. Told(p)' /\ Counting(p)'
    BY <1>0, <1>a, <2>1, <2>2, <2>3 DEF Told, Bare, Counting, Delivering
  <2>5. QED
    BY <1>0, <1>a, <2>1, <2>4, SentStill, SentOne
<1>3. CASE ReconcileNotification(p)
  <2>1. /\ UNCHANGED fup /\ note' = [note EXCEPT ![on[p]] = Reconciled(p)]
        /\ pc[p] = "rwrite" /\ pc'[p] = "rfup"
        /\ act'[p] = act[p] /\ on'[p] = on[p] /\ row'[p] = row[p] /\ frow'[p] = frow[p]
        /\ \A b \in Actors \ {p} : Kept(b)
    BY <1>0, <1>3 DEF ReconcileNotification, ActorTypes, Kept
  <2>2. NothingClaimedUnsent'
    BY <1>a, <1>b, <2>1 DEF RowTypes, SentInv, NothingClaimedUnsent
  <2>3. act[p] \in {"delivered", "bounced", "complained"}
    BY <1>0, <2>1 DEF Walk, Stage
  <2>4. Told(p)' /\ Counting(p)'
    BY <1>0, <1>a, <2>1, <2>3 DEF Told, Bare, Counting, Delivering
  <2>5. QED
    BY <1>0, <1>a, <2>1, <2>2, <2>4, SentOne DEF RowTypes
<1>4. CASE ReconcileFollowup(p)
  <2>1. pc[p] = "rfup" /\ UNCHANGED note
    BY <1>4 DEF ReconcileFollowup
  <2>2. fup'.status = "sent" => sends[fup'.note] > 0
    <3>1. CASE UNCHANGED fup
      BY <3>1 DEF SentInv, NothingClaimedUnsent
    <3>2. CASE frow[p] # Draft /\ fup' = [frow[p] EXCEPT !.status = Reported(p)]
      <4>1. fup'.note = on[p]
        BY <1>0, <2>1, <3>2 DEF Told, ActorTypes, FupRows
      <4>2. QED
        BY <1>b, <2>1, <4>1
    <3>3. QED
      BY <1>4, <3>1, <3>2 DEF ReconcileFollowup
  <2>3. NothingClaimedUnsent'
    BY <1>a, <2>1, <2>2 DEF SentInv, NothingClaimedUnsent
  <2>4. CASE act[p] = "complained"
    <3>1. /\ pc'[p] = "suppress" /\ act'[p] = act[p] /\ on'[p] = on[p]
          /\ row'[p] = row[p] /\ frow'[p] = frow[p]
          /\ \A b \in Actors \ {p} : Kept(b)
      BY <1>0, <1>4, <2>4 DEF ReconcileFollowup, ActorTypes, Kept
    <3>2. Told(p)' /\ Counting(p)'
      BY <1>0, <1>a, <2>4, <3>1 DEF Told, Bare, Counting, Delivering
    <3>3. QED
      BY <1>0, <1>a, <2>3, <3>1, <3>2, SentOne DEF RowTypes
  <2>5. CASE act[p] # "complained"
    <3>1. Leave(p, "idle")
      BY <1>4, <2>5 DEF ReconcileFollowup
    <3>2. QED
      BY <1>0, <1>a, <2>3, <3>1, LeaveTypes, LeaveTold, SentOne DEF RowTypes
  <2>6. QED
    BY <2>4, <2>5
<1>5. CASE Suppress(p)
  <2>1. Leave(p, "idle") /\ UNCHANGED <<note, fup>>
    BY <1>5 DEF Suppress, rowVars
  <2>2. QED
    BY <1>0, <1>a, <2>1, LeaveTypes, LeaveTold, SentStill, SentOne
<1>6. QED
  BY <1>1, <1>2, <1>3, <1>4, <1>5

LEMMA SentRevoking ==
  ASSUME TypeInv, TypeInv', SentInv,
         \/ StartRevocation \/ WithdrawOnly \/ ListFollowups \/ CancelFollowup
         \/ LeaveFinalNote \/ CancelNote
  PROVE  SentInv'
<1> DEFINE a == Attendee
<1> USE Parts, ActorAssumption DEF Goto
<1>0. a \in Actors /\ Walk(a) /\ Told(a)
  BY DEF SentInv
<1> HIDE DEF a
<1>a. a = Attendee
  BY DEF a
<1>b. pc[a] \in {"fload", "fwrite", "load", "nwrite"} => act[a] \in ConsentActs
  BY <1>0, <1>a DEF Walk, Job, Stage
<1>1. CASE StartRevocation
  <2>1. /\ UNCHANGED <<note, fup, sends, wins, noteLine>>
        /\ pc[a] = "idle" /\ pc'[a] = "fload" /\ act'[a] \in ConsentActs
        /\ on'[a] = on[a] /\ row'[a] = row[a] /\ frow'[a] = frow[a]
        /\ \A b \in Actors \ {a} : Kept(b)
    BY <1>0, <1>1, <1>a DEF StartRevocation, rowVars, ActorTypes, Kept
  <2>2. Told(a)' /\ Counting(a)'
    BY <1>0, <2>1 DEF Told, Bare, Counting, Delivering, ConsentActs
  <2>3. QED
    BY <1>0, <2>1, <2>2, SentStill, SentOne
<1>2. CASE WithdrawOnly
  <2>1. Leave(a, "idle") /\ UNCHANGED <<note, fup, sends, wins, noteLine>>
    BY <1>2, <1>a DEF WithdrawOnly, rowVars
  <2>2. QED
    BY <1>0, <2>1, LeaveTypes, LeaveTold, SentStill, SentOne
<1>3. CASE ListFollowups
  <2>1. /\ UNCHANGED <<note, fup, sends, wins, noteLine>>
        /\ pc[a] = "fload" /\ pc'[a] = "fwrite" /\ act'[a] = act[a] /\ on'[a] = fup.note
        /\ row'[a] = row[a] /\ frow'[a] = [fup EXCEPT !.status = "cancelled"]
        /\ \A b \in Actors \ {a} : Kept(b)
    BY <1>0, <1>3, <1>a DEF ListFollowups, rowVars, ActorTypes, Kept
  <2>2. frow'[a].status = "cancelled" /\ frow'[a].note = on'[a]
    BY <2>1 DEF RowTypes, FupRows
  <2>3. Told(a)' /\ Counting(a)'
    BY <1>0, <1>b, <2>1, <2>2 DEF Told, Bare, Counting, Delivering, ConsentActs
  <2>4. QED
    BY <1>0, <2>1, <2>3, SentStill, SentOne
<1>4. CASE CancelFollowup
  <2>1. /\ UNCHANGED <<note, fup, sends, wins, noteLine>>
        /\ pc[a] = "fwrite" /\ pc'[a] = "load" /\ act'[a] = act[a] /\ on'[a] = on[a]
        /\ row'[a] = row[a] /\ frow'[a] = frow[a]
        /\ \A b \in Actors \ {a} : Kept(b)
    BY <1>0, <1>4, <1>a DEF CancelFollowup, FupFree, ActorTypes, Kept
  <2>2. Told(a)' /\ Counting(a)'
    BY <1>0, <1>b, <2>1 DEF Told, Bare, Counting, Delivering, ConsentActs
  <2>3. QED
    BY <1>0, <2>1, <2>2, SentStill, SentOne
<1>5. CASE LeaveFinalNote
  <2>1. /\ pc[a] = "load" /\ on[a] \in Notes /\ act[a] \notin {"send", "record"}
        /\ Commit(a, "idle", note[on[a]], frow[a])
    BY <1>0, <1>5, <1>a, <1>b DEF LeaveFinalNote, Walk, Stage, ConsentActs
  <2>2. QED
    BY <1>0, <2>1, SentCommit DEF Told, SentInv, NothingClaimedUnsent
<1>6. CASE CancelNote
  <2>1. /\ pc[a] = "nwrite" /\ on[a] \in Notes /\ act[a] \in ConsentActs
        /\ Commit(a, "idle", Written(act[a], row[a]), frow[a])
    BY <1>0, <1>6, <1>a, <1>b DEF CancelNote, NoteFree, Walk, Stage
  <2>2. act[a] \notin {"send", "record"} /\ Written(act[a], row[a]).status # "sent"
    BY <1>0, <2>1, WrittenTypes DEF ActorTypes, ConsentActs
  <2>3. QED
    BY <1>0, <2>1, <2>2, SentCommit DEF Told
<1>7. QED
  BY <1>1, <1>2, <1>3, <1>4, <1>5, <1>6

(* Steps that move no actor. *)
LEMMA SentRest ==
  ASSUME TypeInv, SentInv, Consenting \/ Waiting \/ UNCHANGED vars
  PROVE  SentInv'
<1> USE Parts
<1>1. UNCHANGED <<fup, sends, wins, noteLine, pc, act, on, frow>>
  BY DEF Consenting, CaptureConsent, Waiting, TimePasses, vars, storeVars, rowVars, actorVars
<1>2. /\ \A n \in Notes : note'[n].status = note[n].status
      /\ \A b \in Actors : row'[b].status = row[b].status
  <2>1. CASE UNCHANGED <<note, row>>
    BY <2>1
  <2>2. CASE /\ note' = [n \in Notes |-> [note[n] EXCEPT !.due = TRUE]]
             /\ row'  = [b \in Actors |-> [row[b] EXCEPT !.due = TRUE]]
    BY <2>2 DEF RowTypes, ActorTypes, NoteRows
  <2>3. QED
    BY <2>1, <2>2 DEF Consenting, CaptureConsent, Waiting, TimePasses, vars, storeVars, rowVars, actorVars
<1>3. NothingClaimedUnsent'
  BY <1>1, <1>2 DEF SentInv, NothingClaimedUnsent
<1>4. ASSUME NEW b \in Actors PROVE Told(b)' /\ Counting(b)'
  BY <1>1, <1>2 DEF SentInv, Told, Bare, Counting, Delivering
<1>5. QED
  BY <1>3, <1>4 DEF SentInv

LEMMA SentStep == TypeInv /\ SentInv /\ [Next]_vars => SentInv'
<1> SUFFICES ASSUME TypeInv, SentInv, [Next]_vars PROVE SentInv'
  OBVIOUS
<1>1. TypeInv'
  BY TypeStep
<1>2. QED
  BY <1>1, StepCases, SentEnds, SentTransacting, SentWorker, SentQueueing, SentOperation,
     SentReceiving, SentRevoking, SentRest

(* Whatever overlaps, crashes or is written back from an old copy, what is *)
(* shown as sent has been sent, and no sending is counted twice.           *)
THEOREM SentMeansSent == Spec => []NothingClaimedUnsent
<1>1. SentInv => NothingClaimedUnsent
  BY DEF SentInv
<1>2. QED
  BY <1>1, TypeInit, TypeStep, SentInit, SentStep, PTL DEF Spec


-----------------------------------------------------------------------------
(* The two rows of a message.  A transaction that writes a notification    *)
(* alone has found that the follow-up does not point to it; every other    *)
(* one writes both rows at once, and a revocation has the follow-up in     *)
(* hand while it looks at the notification.                                *)
Matches(f, n) == /\ f.status \in {"queued", "sent"} => n.status = f.status
                 /\ f.status \in {"sent", "failed", "cancelled"} => n.status # "queued"

Pointing == fup.note # None => Matches(fup, note[fup.note])

Withdrawing ==
  pc[Attendee] \in {"fwrite", "load", "nwrite"} =>
    frow[Attendee].status = "cancelled" /\ frow[Attendee].note = on[Attendee]

PairInv ==
  receipts = {} =>
    /\ Pointing /\ Withdrawing
    /\ \A a \in Actors : act[a] \notin {"delivered", "bounced", "complained"}

LEMMA PairInit == Init => PairInv
  BY RouteAssumption DEF Init, StoreInit, Draft, PairInv, Pointing, Withdrawing

(* What a step may do to the rows.                                         *)
Paired ==
  \/ fup' = fup /\ \A n \in Notes : note'[n].status = note[n].status
  \/ \E n \in Notes : /\ fup' = fup /\ fup.note # n
                      /\ \A m \in Notes \ {n} : note'[m] = note[m]
  \/ fup'.note \in Notes /\ Matches(fup', note'[fup'.note])

LEMMA PairedPoints ==
  ASSUME TypeInv, Pointing, Paired
  PROVE  Pointing'
<1>1. fup.note \in Notes \cup {None}
  BY Parts DEF RowTypes, FupRows
<1>2. CASE fup' = fup /\ \A n \in Notes : note'[n].status = note[n].status
  BY <1>1, <1>2 DEF Pointing, Matches
<1>3. CASE \E n \in Notes : /\ fup' = fup /\ fup.note # n
                            /\ \A m \in Notes \ {n} : note'[m] = note[m]
  BY <1>1, <1>3 DEF Pointing, Matches
<1>4. CASE fup'.note \in Notes /\ Matches(fup', note'[fup'.note])
  BY <1>4 DEF Pointing
<1>5. QED
  BY <1>2, <1>3, <1>4 DEF Paired

(* Nothing of what the attendee and the receivers are doing changes, but   *)
(* that an actor leaves.                                                   *)
Elsewhere(a) ==
  /\ receipts' = receipts
  /\ \A b \in Actors \ {a} : Kept(b)
  /\ act'[a] \notin {"delivered", "bounced", "complained"} \/ act'[a] = act[a]
  /\ a # Attendee \/ pc'[a] \in {"idle", "pick", "fload"}

LEMMA PairOne ==
  ASSUME TypeInv, PairInv, NEW a \in Actors, Elsewhere(a), Paired
  PROVE  PairInv'
<1> SUFFICES ASSUME receipts' = {}
             PROVE  /\ Pointing' /\ Withdrawing'
                    /\ \A b \in Actors : act'[b] \notin {"delivered", "bounced", "complained"}
  BY DEF PairInv
<1>1. /\ Pointing /\ Withdrawing
      /\ \A b \in Actors : act[b] \notin {"delivered", "bounced", "complained"}
  BY DEF PairInv, Elsewhere
<1>2. \A b \in Actors : act'[b] \notin {"delivered", "bounced", "complained"}
  BY <1>1 DEF Elsewhere, Kept
<1>3. Withdrawing'
  <2>1. Attendee \in Actors
    BY RouteAssumption
  <2>2. CASE a = Attendee
    BY <2>2 DEF Elsewhere, Withdrawing
  <2>3. CASE a # Attendee
    BY <1>1, <2>1, <2>3 DEF Elsewhere, Withdrawing, Kept
  <2>4. QED
    BY <2>2, <2>3
<1>4. QED
  BY <1>1, <1>2, <1>3, PairedPoints

LEMMA PairTransacting ==
  ASSUME TypeInv, SentInv, PairInv, NEW a \in Actors, Ends(a) \/ Transacting(a)
  PROVE  PairInv'
<1> USE Parts, ActorAssumption, RouteAssumption DEF Goto
<1>0. Walk(a) /\ Told(a) /\ receipts' = receipts
  BY DEF SentInv, Ends, Transacting
<1>1. CASE Ends(a)
  <2>1. Leave(a, "idle") /\ UNCHANGED <<note, fup>>
    BY <1>1 DEF Ends, Rollback
  <2>2. Elsewhere(a)
    BY <1>0, <2>1, LeaveTypes DEF Elsewhere, Leave, ActorTypes
  <2>3. QED
    BY <2>1, <2>2, PairOne DEF Paired
<1>2. ASSUME LoadNote(a) \/ Wait(a) \/ WriteNote(a) \/ LoadFup(a)
      PROVE  PairInv'
  <2>1. UNCHANGED <<note, fup>> /\ \A b \in Actors \ {a} : Kept(b) /\ act' = act /\ on' = on
    BY <1>2 DEF LoadNote, Wait, WriteNote, LoadFup, Kept, ActorTypes, rowVars, actorVars
  <2>2. CASE a # Attendee
    <3>1. Elsewhere(a)
      BY <1>0, <2>1, <2>2 DEF Elsewhere
    <3>2. QED
      BY <2>1, <3>1, PairOne DEF Paired
  <2>3. CASE a = Attendee
    <3>1. act' = act /\ on' = on
      BY <1>2 DEF LoadNote, Wait, WriteNote, LoadFup, actorVars
    <3>2. act[a] \in {"none"} \cup ConsentActs
      BY <1>0, <2>3 DEF Walk, Job
    <3>3. LoadNote(a) \/ Wait(a)
      <4>1. CASE WriteNote(a)
        <5>1. pc[a] = "nwrite" /\ act[a] \notin ConsentActs
          BY <4>1 DEF WriteNote, NoteFree
        <5>2. QED
          BY <1>0, <3>2, <5>1 DEF Walk, Stage
      <4>2. CASE LoadFup(a)
        <5>1. pc[a] = "fload" /\ act[a] \notin ConsentActs
          BY <4>2 DEF LoadFup
        <5>2. QED
          BY <1>0, <3>2, <5>1 DEF Walk, Stage
      <4>3. QED
        BY <1>2, <4>1, <4>2
    <3>4. /\ frow' = frow
          /\ pc'[a] = pc[a] \/ (pc[a] = "load" /\ pc'[a] = "nwrite")
      BY <3>3 DEF LoadNote, Wait, actorVars, ActorTypes
    <3>5. QED
      BY <1>0, <2>1, <2>3, <3>1, <3>4 DEF PairInv, Pointing, Withdrawing
  <2>4. QED
    BY <2>2, <2>3
<1>3. ASSUME NEW l \in {"idle", "pick"}, NEW r, NEW f, Commit(a, l, r, f)
      PROVE  Elsewhere(a)
  BY <1>0, <1>3, LeaveTypes DEF Elsewhere, Commit, Leave, ActorTypes
<1>4. ASSUME NEW l \in {"idle", "pick"}, CommitAlone(a, l)
      PROVE  PairInv'
  <2>1. on[a] \in Notes /\ Commit(a, l, row[a], fup) /\ fup.note # on[a]
    BY <1>0, <1>4 DEF CommitAlone, Walk, Stage
  <2>2. fup' = fup /\ \A m \in Notes \ {on[a]} : note'[m] = note[m]
    BY <2>1 DEF Commit, RowTypes
  <2>3. QED
    BY <1>3, <2>1, <2>2, PairOne DEF Paired
<1>5. ASSUME NEW l \in {"idle", "pick"}, WriteFup(a, l)
      PROVE  PairInv'
  <2> DEFINE f == [status |-> FollowupStatus(a), note |-> IF act[a] = "queue" THEN on[a] ELSE frow[a].note]
  <2>1. pc[a] = "fwrite" /\ act[a] \notin ConsentActs /\ on[a] \in Notes /\ Commit(a, l, row[a], f)
    BY <1>0, <1>5 DEF WriteFup, FupFree, Walk, Stage
  <2>2. f.status = row[a].status /\ f.note = on[a]
    BY <1>0, <2>1 DEF FollowupStatus, Told
  <2>3. row[a].status \in {"queued", "sent", "failed", "cancelled"}
    BY <1>0, <2>1 DEF Walk, Copies, NewNote, NoNote
  <2> HIDE DEF f
  <2>4. fup' = f /\ note'[on[a]] = row[a]
    BY <2>1 DEF Commit, RowTypes
  <2>5. Paired
    BY <2>1, <2>2, <2>3, <2>4 DEF Paired, Matches
  <2>6. QED
    BY <1>3, <2>1, <2>5, PairOne
<1>6. QED
  BY <1>1, <1>2, <1>4, <1>5 DEF Transacting

LEMMA PairRevoking ==
  ASSUME TypeInv, SentInv, PairInv,
         \/ StartRevocation \/ WithdrawOnly \/ ListFollowups \/ CancelFollowup
         \/ LeaveFinalNote \/ CancelNote,
         UNCHANGED receipts
  PROVE  PairInv'
<1> USE Parts, ActorAssumption, RouteAssumption DEF Goto
<1>0. Walk(Attendee) /\ Told(Attendee) /\ act[Attendee] \in {"none"} \cup ConsentActs
  BY DEF SentInv, Walk, Job
<1>1. CASE StartRevocation
  <2>1. Elsewhere(Attendee) /\ UNCHANGED <<note, fup>>
    BY <1>1 DEF StartRevocation, Elsewhere, Kept, ActorTypes, ConsentActs, rowVars
  <2>2. QED
    BY <2>1, PairOne DEF Paired
<1>2. CASE WithdrawOnly
  <2>1. Elsewhere(Attendee) /\ UNCHANGED <<note, fup>>
    BY <1>2, LeaveTypes DEF WithdrawOnly, Elsewhere, Leave, ActorTypes, rowVars
  <2>2. QED
    BY <2>1, PairOne DEF Paired
<1>3. CASE ListFollowups
  <2>1. /\ UNCHANGED <<note, fup, act>>
        /\ frow'[Attendee] = [fup EXCEPT !.status = "cancelled"] /\ on'[Attendee] = fup.note
    BY <1>3 DEF ListFollowups, rowVars, ActorTypes
  <2>2. frow'[Attendee].status = "cancelled" /\ frow'[Attendee].note = on'[Attendee]
    BY <2>1 DEF RowTypes, FupRows
  <2>3. QED
    BY <2>1, <2>2 DEF PairInv, Pointing, Withdrawing
<1>4. CASE CancelFollowup
  <2>1. UNCHANGED <<note, fup, act, on, frow>> /\ pc[Attendee] = "fwrite"
    BY <1>4 DEF CancelFollowup, FupFree
  <2>2. QED
    BY <2>1 DEF PairInv, Pointing, Withdrawing
<1>5. CASE LeaveFinalNote \/ CancelNote
  <2>1. /\ pc[Attendee] \in {"load", "nwrite"} /\ on[Attendee] \in Notes
        /\ act[Attendee] \in ConsentActs
    BY <1>0, <1>5 DEF LeaveFinalNote, CancelNote, NoteFree, Walk, Stage
  <2>2. PICK r : Commit(Attendee, "idle", r, frow[Attendee]) /\ r.status # "queued"
    <3>1. CASE LeaveFinalNote
      BY <3>1 DEF LeaveFinalNote
    <3>2. CASE CancelNote
      <4>1. Written(act[Attendee], row[Attendee]).status # "queued"
        BY <2>1 DEF Written, ConsentActs, RequeueActs, CancelActs, ActorTypes, NoteRows
      <4>2. QED
        BY <3>2, <4>1 DEF CancelNote
    <3>3. QED
      BY <1>5, <3>1, <3>2
  <2>3. Elsewhere(Attendee)
    BY <2>2, LeaveTypes DEF Elsewhere, Commit, Leave, ActorTypes
  <2>4. fup' = frow[Attendee] /\ note'[on[Attendee]] = r
    BY <2>1, <2>2 DEF Commit, RowTypes
  <2>5. CASE receipts = {}
    <3>1. Withdrawing
      BY <2>5 DEF PairInv
    <3>2. Paired
      BY <2>1, <2>2, <2>4, <3>1 DEF Paired, Matches, Withdrawing
    <3>3. QED
      BY <2>3, <3>2, PairOne
  <2>6. CASE receipts # {}
    BY <2>6 DEF PairInv
  <2>7. QED
    BY <2>5, <2>6
<1>6. QED
  BY <1>1, <1>2, <1>3, <1>4, <1>5

LEMMA PairStep == TypeInv /\ SentInv /\ PairInv /\ [Next]_vars => PairInv'
<1> SUFFICES ASSUME TypeInv, SentInv, PairInv, [Next]_vars PROVE PairInv'
  OBVIOUS
<1> USE Parts, ActorAssumption, RouteAssumption DEF Goto
<1>1. ASSUME NEW a \in Actors, Ends(a) \/ Transacting(a)
      PROVE  PairInv'
  BY <1>1, PairTransacting
<1>2. ASSUME NEW w \in Workers, List(w) \/ Pick(w) \/ EndBatch(w) \/ Look(w) \/ Send(w),
             UNCHANGED receipts
      PROVE  PairInv'
  <2>1. Elsewhere(w) /\ UNCHANGED <<note, fup>>
    BY <1>2 DEF List, Pick, EndBatch, Look, Send, Elsewhere, Kept, ActorTypes, rowVars
  <2>2. QED
    BY <2>1, PairOne DEF Paired
<1>3. ASSUME NEW q \in Notes, StartQueue(q) \/ CreateNotification(q), UNCHANGED receipts
      PROVE  PairInv'
  <2>1. Elsewhere(q) /\ UNCHANGED <<note, fup>>
    BY <1>3 DEF StartQueue, CreateNotification, Elsewhere, Kept, ActorTypes, rowVars
  <2>2. QED
    BY <2>1, PairOne DEF Paired
<1>4. ASSUME NEW o \in Organizers, StartOperation(o) \/ Check(o) \/ RefuseOperation(o) \/ Record(o),
             UNCHANGED receipts
      PROVE  PairInv'
  <2>1. UNCHANGED <<note, fup>>
    BY <1>4 DEF StartOperation, Check, RefuseOperation, Record, rowVars
  <2>2. Elsewhere(o)
    <3>1. CASE StartOperation(o)
      BY <1>4, <3>1 DEF StartOperation, Elsewhere, Kept, ActorTypes, RequeueActs
    <3>2. CASE Check(o) \/ Record(o)
      BY <1>4, <3>2 DEF Check, Record, Elsewhere, Kept, ActorTypes
    <3>3. CASE RefuseOperation(o)
      BY <1>4, <3>3, LeaveTypes DEF RefuseOperation, Leave, Elsewhere, ActorTypes
    <3>4. QED
      BY <1>4, <3>1, <3>2, <3>3
  <2>3. QED
    BY <2>1, <2>2, PairOne DEF Paired
<1>5. ASSUME NEW p \in Receivers,
             \/ StartReceipt(p) \/ FindFollowup(p) \/ ReconcileNotification(p)
             \/ ReconcileFollowup(p) \/ Suppress(p)
      PROVE  PairInv'
  <2>1. CASE StartReceipt(p)
    BY <2>1 DEF StartReceipt, PairInv
  <2>2. CASE ~StartReceipt(p)
    <3>1. pc[p] \in {"rload", "rwrite", "rfup", "suppress"} /\ receipts' = receipts /\ Walk(p)
      BY <1>5, <2>2 DEF FindFollowup, ReconcileNotification, ReconcileFollowup, Suppress
    <3>2. receipts # {}
      BY <3>1 DEF Walk, Stage, PairInv
    <3>3. QED
      BY <3>1, <3>2 DEF PairInv
  <2>3. QED
    BY <2>1, <2>2
<1>6. CASE Consenting \/ UNCHANGED vars
  BY <1>6 DEF Consenting, CaptureConsent, vars, storeVars, rowVars, actorVars, PairInv, Pointing,
     Withdrawing
<1>7. CASE Waiting
  <2>1. /\ UNCHANGED <<fup, pc, act, on, frow, receipts>>
        /\ \A n \in Notes : note'[n].status = note[n].status
    BY <1>7 DEF Waiting, TimePasses, RowTypes, NoteRows
  <2>2. fup.note \in Notes \cup {None}
    BY DEF RowTypes, FupRows
  <2>3. QED
    BY <2>1, <2>2 DEF PairInv, Pointing, Withdrawing, Matches
<1>8. QED
  BY StepCases, <1>1, <1>2, <1>3, <1>4, <1>5, <1>6, <1>7, PairRevoking

(* The rows of a message are in step until the first receipt, at every     *)
(* moment and not only when nothing is under way.                          *)
THEOREM RowsInStep == Spec => []FollowupInStep
<1>1. TypeInv /\ PairInv => FollowupInStep
  BY DEF PairInv, Pointing, Matches, FollowupInStep
<1>2. QED
  BY <1>1, TypeInit, TypeStep, SentInit, SentStep, PairInit, PairStep, PTL DEF Spec
=============================================================================

---------------------------- MODULE Builds_proofs ----------------------------
(***************************************************************************)
(* What the steps of a process keep, whatever the process does: the lemmas *)
(* that the theorems about the back office and the event's data share.     *)
(***************************************************************************)
EXTENDS Builds, TLAPS

(* Every process has a place and a copy.                                   *)
ProcOk ==
  /\ build \in Backends /\ cast \in Casts /\ restarts \in 0 .. MaxRestarts
  /\ DOMAIN pc = cast /\ DOMAIN copy = cast

(* The memory build has one thread: of two processes that are under way    *)
(* and do not wait for the outside world, both are workers of one poll.    *)
Together(p, q) == {Op(p), Op(q)} \subseteq Immediate

Thread ==
  build = "memory" =>
    \A p, q \in cast : p = q \/ pc[p] \in Outside \/ pc[q] \in Outside \/ Together(p, q)

(* Only p takes a step; it may take the next one from where it is.         *)
Acts(p) == At(p, Op(p), pc[p]) /\ \E l, c : Go(p, l, c)

Spawns(p) == At(p, Op(p), pc[p]) /\ \E l, qs : l \in Outside /\ Spawn(p, l, qs)

(* What is at hand at an operation of p. *)
LEMMA AtFacts ==
  ASSUME NEW p, NEW op, NEW l, At(p, op, l)
  PROVE  Op(p) = op /\ pc[p] = l /\ At(p, Op(p), pc[p])
BY DEF At

(* A step of p moves p alone, and gives it the copy it names.              *)
LEMMA GoFacts ==
  ASSUME NEW p \in cast, NEW l, NEW c, ProcOk, Go(p, l, c)
  PROVE  /\ ProcOk'
         /\ pc'[p] = l /\ copy'[p] = c
         /\ \A q \in cast : q # p => pc'[q] = pc[q] /\ copy'[q] = copy[q]
         /\ build' = build /\ cast' = cast /\ restarts' = restarts
BY DEF Go, ProcOk

(* The same of a step that starts other processes: those it starts are at  *)
(* their start.                                                            *)
LEMMA SpawnFacts ==
  ASSUME NEW p \in cast, NEW l, NEW qs, ProcOk, Spawn(p, l, qs)
  PROVE  /\ ProcOk'
         /\ pc'[p] = l /\ copy'[p] = Nothing
         /\ \A q \in cast : q # p =>
              /\ pc'[q] = pc[q] \/ (q \in qs /\ pc'[q] = "start" /\ pc[q] \in {"asleep", "done"})
              /\ copy'[q] = copy[q]
         /\ build' = build /\ cast' = cast /\ restarts' = restarts
BY DEF Spawn, ProcOk

(* In the memory build nobody but the workers of one poll is under way     *)
(* when a process takes a step.                                            *)
LEMMA NobodyElse ==
  ASSUME NEW p, NEW q \in cast, At(p, Op(p), pc[p]), build = "memory", q # p
  PROVE  pc[q] \in Outside \/ Together(p, q)
BY DEF At, Together

(* The processes at the start of the system. *)
LEMMA ProcStart ==
  ASSUME NEW Workers, ProcInit(Workers)
  PROVE  /\ ProcOk /\ Thread
         /\ \A p \in cast : /\ pc[p] \in {"asleep", "start"} /\ copy[p] = Nothing
                            /\ pc[p] = "asleep" <=> Op(p) \in Workers
BY BuildsAssumption DEF ProcInit, ProcOk, Thread, Outside

(* A restart happens over Postgres, and leaves no copies. *)
LEMMA RestartFacts ==
  ASSUME NEW Pollers, NEW Workers, ProcOk, Restart(Pollers, Workers)
  PROVE  /\ ProcOk' /\ Thread'
         /\ \A q \in cast : /\ pc'[q] \in {"asleep", "start", "done"} /\ copy'[q] = Nothing
                            /\ Op(q) \notin Pollers /\ pc'[q] = "start" => pc[q] = "start"
         /\ build = "postgres" /\ build' = build /\ cast' = cast /\ restarts' # 0
BY BuildsAssumption DEF Restart, ProcOk, Thread, Outside

(* No step makes two processes share the thread.                           *)
LEMMA ThreadKept ==
  ASSUME NEW p \in cast, ProcOk, Thread, Acts(p) \/ Spawns(p)
  PROVE  ProcOk' /\ Thread'
<1> DEFINE Moves == /\ ProcOk'
                    /\ \A q \in cast : q # p => pc'[q] = pc[q] \/ pc'[q] = "start"
                    /\ build' = build /\ cast' = cast
<1>1. Moves
  <2>1. CASE Acts(p)
    <3>1. PICK l, c : Go(p, l, c)
      BY <2>1 DEF Acts
    <3>2. QED
      BY <3>1, GoFacts
  <2>2. CASE Spawns(p)
    <3>1. PICK l, qs : Spawn(p, l, qs)
      BY <2>2 DEF Spawns
    <3>2. QED
      BY <3>1, SpawnFacts
  <2>3. QED
    BY <2>1, <2>2
<1>2. At(p, Op(p), pc[p])
  BY DEF Acts, Spawns
<1>3. ASSUME build' = "memory", NEW q \in cast', NEW r \in cast', q # r
      PROVE  pc'[q] \in Outside \/ pc'[r] \in Outside \/ Together(q, r)
  <2>1. build = "memory" /\ q \in cast /\ r \in cast
    BY <1>1, <1>3
  <2>2. CASE q = p
    <3>1. pc[r] \in Outside \/ Together(p, r)
      BY <1>2, <1>3, <2>1, <2>2, NobodyElse
    <3>2. QED
      BY <1>1, <1>3, <2>1, <2>2, <3>1 DEF Outside
  <2>3. CASE r = p
    <3>1. pc[q] \in Outside \/ Together(p, q)
      BY <1>2, <1>3, <2>1, <2>3, NobodyElse
    <3>2. QED
      BY <1>1, <1>3, <2>1, <2>3, <3>1 DEF Outside, Together
  <2>4. CASE q # p /\ r # p
    BY <1>1, <1>3, <2>1, <2>4 DEF Thread, Outside
  <2>5. QED
    BY <2>2, <2>3, <2>4
<1>4. QED
  BY <1>1, <1>3 DEF Thread, Together, Op
=============================================================================

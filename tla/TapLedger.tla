----------------------------- MODULE TapLedger -----------------------------
(***************************************************************************)
(* What tap delivery promises, whoever delivers and however often: a tap   *)
(* becomes at most one lead (baseline_master_spec.md:184), the device is   *)
(* told that a tap is synced only when its lead exists, and the checkpoint *)
(* of the stream never gets past a tap that has no lead.                   *)
(***************************************************************************)
EXTENDS Naturals, Sequences

CONSTANTS Keys, Feed

VARIABLES
  leads,   \* the number of leads of each tap
  synced,  \* the taps the device has been told are synced
  cursor   \* the checkpoint of the stream

Recorded == {k \in Keys : leads[k] > 0}

Init ==
  /\ leads = [k \in Keys |-> 0]
  /\ synced = {}
  /\ cursor = 0

Record(k) ==
  /\ leads[k] = 0
  /\ leads' = [leads EXCEPT ![k] = 1]
  /\ UNCHANGED <<synced, cursor>>

Acknowledge ==
  /\ synced' \in SUBSET Recorded
  /\ UNCHANGED <<leads, cursor>>

MoveCursor ==
  /\ cursor' \in 0 .. Len(Feed)
  /\ \A i \in 1 .. cursor' : Feed[i] \in Recorded
  /\ UNCHANGED <<leads, synced>>

Next == (\E k \in Keys : Record(k)) \/ Acknowledge \/ MoveCursor

Spec == Init /\ [][Next]_<<leads, synced, cursor>>
=============================================================================

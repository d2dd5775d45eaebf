---------------------------- MODULE MCTapApart ----------------------------
EXTENDS MCTapPlatform

(* Two instances in one run: either the requests of the kiosks are at      *)
(* work, or the runs of the sync.                                          *)
VARIABLE acting

AtWork == IF acting = Requests THEN UNCHANGED iotVars ELSE UNCHANGED deviceVars

ApartNext == Next /\ AtWork /\ UNCHANGED acting

Pairs == {<<q1, r1>>, <<q2, r2>>}

Turn(p) == IF acting = Requests THEN RequestStep(p[1]) /\ UNCHANGED <<iotVars, acting>>
                                ELSE RunStep(p[2]) /\ UNCHANGED <<deviceVars, acting>>

ApartFairness == \A p \in Pairs : WF_<<vars, acting>>(Turn(p))

ApartSpec ==
  /\ Init /\ acting \in {Requests, Runs}
  /\ [][ApartNext]_<<vars, acting>>
  /\ ApartFairness
=============================================================================

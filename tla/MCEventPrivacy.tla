-------------------------- MODULE MCEventPrivacy --------------------------
(* Two attendees with a lead each, and the casts of processes that race. *)
EXTENDS EventPrivacy

LeadsHere     == {"l1", "l2"}
AttendeesHere == {"a1", "a2"}
OwnerHere     == [l \in LeadsHere |-> IF l = "l1" THEN "a1" ELSE "a2"]
SharedHere    == {"a2"}
RequestsHere  == {"d1", "d2"}
SubjectHere   == [d \in RequestsHere |-> "a1"]
ExportsHere   == {"x1", "x2", "x3"}

DsrWorkers(d)    == {<<"dsr-worker", d, 1>>, <<"dsr-worker", d, 2>>, <<"dsr-poll", "", 1>>}
ExportWorkers(x) == {<<"export-worker", x, 1>>, <<"export-worker", x, 2>>,
                     <<"export-poll", "", 1>>}

(* A deletion by the worker, while the subject's lead is written. *)
Deletion    == DsrWorkers("d1") \cup {<<"privacy-dsr", "d1", 1>>, <<"classify", "l1", 1>>}
(* A request of the older routes, met by the poller and the organizer. *)
Completion  == {<<"session-dsr", "d1", 1>>, <<"complete", "d1", 1>>, <<"reject", "d1", 1>>,
                <<"dsr-poll", "", 1>>, <<"dsr-worker", "d1", 2>>}
(* The organizer completes a request while its subject consents again. *)
Consenting  == {<<"session-dsr", "d1", 1>>, <<"complete", "d1", 1>>, <<"capture", "l1", 1>>,
                <<"revoke", "l1", 1>>}
(* Two requests of one subject, and two downloads of the first. *)
TwoRequests == {<<"privacy-dsr", "d1", 1>>, <<"privacy-dsr", "d2", 1>>,
                <<"dsr-worker", "d1", 1>>, <<"dsr-worker", "d2", 1>>}
Downloads   == DsrWorkers("d1") \cup
               {<<"privacy-dsr", "d1", 1>>, <<"dsr-download", "d1", 1>>,
                <<"dsr-download", "d1", 2>>}
FullExports == ExportWorkers("x1") \cup
               {<<"full-export", "x1", 1>>, <<"full-export", "x2", 1>>,
                <<"full-download", "", 1>>, <<"full-download", "", 2>>}
LeadLists   == {<<"request", "x3", 1>>, <<"approve", "x3", 1>>, <<"reject-export", "x3", 1>>,
                <<"download", "x3", 1>>, <<"retention-run", "", 1>>, <<"revoke", "l1", 1>>}
Opening     == {<<op, "", 1>> : op \in {"patch", "publish", "go-live", "freeze"}}
Closing     == {<<op, "", 1>> : op \in {"close", "archive", "freeze"}} \cup {<<"freeze", "", 2>>}
Purges      == {<<"purge", "event", 1>>, <<"countdown", "", 1>>, <<"tap", "l1", 1>>,
                <<"patch", "", 1>>, <<"close", "", 1>>}
ForcedPurge == {<<"purge", "event", 1>>, <<"purge", "event", 2>>, <<"force-purge", "", 1>>}
Departure   == {<<"offboard", "j1", 1>>, <<"approve-offboard", "j1", 1>>,
                <<"approve-offboard", "j1", 2>>, <<"offboard-worker", "j1", 2>>,
                <<"offboard-worker", "j1", 3>>, <<"classify", "l1", 1>>}

(* Several endings of the same data at once. *)
Endings     == {<<"purge", "event", 1>>, <<"retention-run", "", 1>>, <<"classify", "l2", 1>>}

(* A purge and a request whose session is of an interaction it erases. *)
HalfPurged  == {<<"purge", "event", 1>>, <<"session-dsr", "d1", 1>>, <<"complete", "d1", 1>>}

GraceCasts  == {Departure}
AllCasts    == {Deletion, Completion, Consenting, TwoRequests, Downloads, FullExports,
                LeadLists, Opening, Closing, Purges, ForcedPurge, Departure,
                Endings, HalfPurged}
=============================================================================

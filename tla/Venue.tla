-------------------------------- MODULE Venue --------------------------------
(***************************************************************************)
(* The venue of an event and its hardware: halls, the stalls in them,      *)
(* sponsor packages, and the devices that are assigned to stalls.          *)
(*                                                                         *)
(* The routes keep these rows in step by looking before they write.  Over  *)
(* Postgres only the foreign keys and one unique index (an active          *)
(* assignment per device) stand behind that.                               *)
(***************************************************************************)
EXTENDS Builds

CONSTANTS
  Halls,      \* rows of halls
  Stalls,     \* rows of stalls, each of which asks for a code of its own
  Packages,   \* rows of sponsor_packages
  Devices,    \* rows of devices
  Members     \* rows of user_role_assignments that name a package

ASSUME VenueAssumption ==
  /\ Halls # {} /\ Stalls # {} /\ Devices # {} /\ Nothing \notin Halls
  /\ \A p \in UNION Casts :
       /\ Op(p) = "hall-create" => Row(p) \in Halls
       /\ Op(p) \in {"stall-create", "stall-patch"} => Row(p) \in Stalls \X Halls
       /\ Op(p) = "stall-delete" => Row(p) \in Stalls
       /\ Op(p) = "package-create" => Row(p) \in Packages
       /\ Op(p) = "role-assign" => Row(p) \in Members \X Packages
       /\ Op(p) \in {"device-create", "device-patch", "device-retire", "unassign"}
            => Row(p) \in Devices
       /\ Op(p) = "assign" => Row(p) \in Devices \X Stalls

VARIABLES
  stage,      \* status of the event: what may be edited
  halls,      \* the halls there are
  stalls,     \* the hall of each stall, or Nothing
  packages,   \* the packages there are
  members,    \* the package of each role assignment, or Nothing
  devices,    \* status of each device, or "absent"
  placed,     \* active assignments <<device, stall>>
  former      \* assignments that have ended

venueVars == <<stage, halls, stalls, packages, members, devices, placed, former>>
venueRows == <<halls, stalls, packages, members>>

Hardware == {"absent", "inventory", "assigned", "live", "repair", "retired"}

(* A device that is "live" comes with the data: no route makes it so.      *)
VenueInit ==
  /\ stage \in {"draft", "published", "live"}
  /\ \E built \in {TRUE, FALSE} :
       /\ halls = IF built THEN Halls ELSE {}
       /\ stalls = [s \in Stalls |-> IF built THEN CHOOSE h \in Halls : TRUE ELSE Nothing]
  /\ packages = {} /\ members = [a \in Members |-> Nothing]
  /\ \E d \in Devices, s \in Stalls :
       \/ /\ devices \in {[e \in Devices |-> status] : status \in {"absent", "inventory"}}
          /\ placed = {}
       \/ /\ stalls[s] # Nothing
          /\ devices = [e \in Devices |-> IF e = d THEN "live" ELSE "inventory"]
          /\ placed = {<<d, s>>}
  /\ former = {}

InUse(s) == \E d \in Devices : <<d, s>> \in placed

(* What the foreign keys and the index of Postgres refuse. *)
Free(s) == \A d \in Devices : <<d, s>> \notin placed \cup former

(* p looks, and returns unless ok; ...                                     *)
Look(p, op, ok) ==
  /\ At(p, op, "start")
  /\ IF ok THEN Go(p, "write", Nothing) ELSE Return(p)
  /\ UNCHANGED venueVars

(* ... its write takes effect unless the database refuses it.              *)
Write(p, op, allowed, effect) ==
  /\ At(p, op, "write")
  /\ IF build = "memory" \/ allowed THEN effect ELSE UNCHANGED venueVars
  /\ Return(p)

CreateHall(p) ==
  \/ Look(p, "hall-create", stage # "live")
  \/ Write(p, "hall-create", TRUE,
           halls' = halls \cup {Row(p)}
             /\ UNCHANGED <<stage, stalls, packages, members, devices, placed, former>>)

DeleteHall(p) ==
  LET h == Row(p)
      empty == \A s \in Stalls : stalls[s] # h
  IN  \/ Look(p, "hall-delete", h \in halls /\ stage = "draft" /\ empty)
      \/ Write(p, "hall-delete", empty,
               halls' = halls \ {h}
                 /\ UNCHANGED <<stage, stalls, packages, members, devices, placed, former>>)

(* stalls-create and stalls-patch put a stall into a hall.                 *)
Put(s, h) == /\ stalls' = [stalls EXCEPT ![s] = h]
             /\ UNCHANGED <<stage, halls, packages, members, devices, placed, former>>

PutStall(p) ==
  LET s == Row(p)[1]
      h == Row(p)[2]
  IN  \/ Look(p, "stall-create", stage # "live" /\ h \in halls /\ stalls[s] = Nothing)
      \/ Write(p, "stall-create", h \in halls, Put(s, h))
      \/ Look(p, "stall-patch", h \in halls /\ stalls[s] # Nothing)
      \/ Write(p, "stall-patch", h \in halls /\ stalls[s] # Nothing, Put(s, h))

(* Deleting looks for active assignments; the ended ones keep the row in   *)
(* Postgres.                                                               *)
DeleteStall(p) ==
  LET s == Row(p)
  IN  \/ Look(p, "stall-delete", stalls[s] # Nothing /\ stage = "draft" /\ ~InUse(s))
      \/ Write(p, "stall-delete", Free(s), Put(s, Nothing))

CreatePackage(p) ==
  /\ At(p, "package-create", "start")
  /\ packages' = packages \cup {Row(p)}
  /\ Return(p)
  /\ UNCHANGED <<stage, halls, stalls, members, devices, placed, former>>

DeletePackage(p) ==
  LET k == Row(p)
      unused == \A a \in Members : members[a] # k
  IN  \/ Look(p, "package-delete", k \in packages /\ unused)
      \/ Write(p, "package-delete", unused,
               packages' = packages \ {k}
                 /\ UNCHANGED <<stage, halls, stalls, members, devices, placed, former>>)

(* users-roles-assign does not look whether the package is there.          *)
AssignRole(p) ==
  /\ At(p, "role-assign", "start")
  /\ IF build = "memory" \/ Row(p)[2] \in packages
     THEN members' = [members EXCEPT ![Row(p)[1]] = Row(p)[2]] ELSE UNCHANGED members
  /\ Return(p)
  /\ UNCHANGED <<stage, halls, stalls, packages, devices, placed, former>>

(* users-roles-delete deletes the row before it compares the user.         *)
DeleteRole(p) ==
  /\ At(p, "role-delete", "start")
  /\ members' = [members EXCEPT ![Row(p)] = Nothing]
  /\ Return(p)
  /\ UNCHANGED <<stage, halls, stalls, packages, devices, placed, former>>

WriteDevice(d, status) ==
  /\ devices' = [devices EXCEPT ![d] = status]
  /\ UNCHANGED <<stage, venueRows>>

RegisterDevice(p) ==
  /\ At(p, "device-create", "start") /\ devices[Row(p)] = "absent"
  /\ WriteDevice(Row(p), "inventory")
  /\ Return(p)
  /\ UNCHANGED <<placed, former>>

(* devices-patch and devices-retire.                                       *)
Repaired(status) == CASE status = "inventory" -> "repair" [] status = "repair" -> "inventory"
                      [] OTHER -> "refused"

Retired_Assigned(status) == IF status \in {"absent", "live"} THEN "refused" ELSE "retired"

Retired(status) == IF status \in {"absent", "live", "assigned"} THEN "refused" ELSE "retired"

ReadDevice(p) ==
  /\ At(p, "device-patch", "start") \/ At(p, "device-retire", "start")
  /\ LET next == IF Op(p) = "device-patch" THEN Repaired(devices[Row(p)]) ELSE Retired(devices[Row(p)])
     IN  IF next = "refused" THEN Return(p) ELSE Go(p, "write", next)
  /\ UNCHANGED venueVars

ChangeDevice(p) ==
  /\ At(p, "device-patch", "write") \/ At(p, "device-retire", "write")
  /\ WriteDevice(Row(p), copy[p])
  /\ Return(p)
  /\ UNCHANGED <<placed, former>>

(* devices-assign: a device that is retired or in repair will do.          *)
AssignDevice(p) ==
  LET d == Row(p)[1]
      s == Row(p)[2]
  IN  \/ Look(p, "assign", devices[d] \notin {"absent", "assigned", "live"}
                           /\ stalls[s] # Nothing /\ ~InUse(s))
      \/ /\ At(p, "assign", "write")
         /\ IF build = "postgres" /\ (stalls[s] = Nothing \/ \E t \in Stalls : <<d, t>> \in placed)
            THEN Return(p) /\ UNCHANGED venueVars
            ELSE /\ placed' = placed \cup {<<d, s>>}
                 /\ Go(p, "mark", Nothing)
                 /\ UNCHANGED <<stage, venueRows, devices, former>>
      \/ /\ At(p, "assign", "mark")
         /\ WriteDevice(d, "assigned")
         /\ Return(p)
         /\ UNCHANGED <<placed, former>>

(* devices-unassign ends the active assignment, if there is one.           *)
UnassignDevice(p) ==
  LET d == Row(p)
      mine == {a \in placed : a[1] = d}
  IN  \/ Look(p, "unassign", devices[d] = "assigned")
      \/ /\ At(p, "unassign", "write")
         /\ placed' = placed \ mine
         /\ former' = former \cup mine
         /\ Go(p, "mark", Nothing)
         /\ UNCHANGED <<stage, venueRows, devices>>
      \/ /\ At(p, "unassign", "mark")
         /\ WriteDevice(d, "inventory")
         /\ Return(p)
         /\ UNCHANGED <<placed, former>>

VenueStep(p) ==
  \/ CreateHall(p) \/ DeleteHall(p) \/ PutStall(p) \/ DeleteStall(p)
  \/ CreatePackage(p) \/ DeletePackage(p) \/ AssignRole(p) \/ DeleteRole(p)
  \/ RegisterDevice(p) \/ ReadDevice(p) \/ ChangeDevice(p) \/ AssignDevice(p) \/ UnassignDevice(p)
=============================================================================

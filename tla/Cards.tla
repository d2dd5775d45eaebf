-------------------------------- MODULE Cards --------------------------------
(***************************************************************************)
(* The attendees of an event and the NFC cards they carry: registration,   *)
(* pass types, the card of an attendee, and the tap of a card.  A card     *)
(* that nobody holds gets an attendee of its own at its first tap.         *)
(*                                                                         *)
(* Over Postgres a partial unique index keeps a card from two holders; the *)
(* memory build has no such thing.  Over Postgres no route makes an        *)
(* attendee: the INSERT names an event_id that no migration gives to the   *)
(* table, and the request ends with a 500.  What else a tap stores is the  *)
(* matter of TapIngest; here it leaves the attendee it was recorded on.    *)
(***************************************************************************)
EXTENDS Builds, Sequences

CONSTANTS
  Cards,       \* NFC cards, by the hash of their uid
  PassTypes    \* codes of pass types

(* The routes refuse a pass type with any other behaviour.                 *)
ASSUME CardsAssumption ==
  /\ Nothing \notin Cards
  /\ \A c \in Casts : \A p \in c :
       /\ Op(p) = "pass-create" => Row(p)[2] \in {"consent", "skip", "access_only"}
       /\ Op(p) = "register" => Row(p) \in Seq(PassTypes \cup {Nothing})
       /\ Op(p) \in {"nfc-tap", "card-set", "card-force"} => Row(p)[2] \in Cards

VARIABLES
  attendees,   \* rows of attendees, in order: the card and the pass type of each
  passes,      \* pass_types: nfc_behaviour of each code, or "absent"
  cardTaps     \* recorded taps: local id, card, attendee, consent_status

cardVars == <<attendees, passes, cardTaps>>

Behaviours == {"consent", "skip", "access_only"}

(* Two attendees come with the data.                                       *)
CardsInit ==
  /\ attendees = <<[card |-> Nothing, pass |-> Nothing], [card |-> Nothing, pass |-> Nothing]>>
  /\ passes = [t \in PassTypes |-> "absent"]
  /\ cardTaps = {}

NewAttendee(pass) == [card |-> Nothing, pass |-> pass]

HoldersOf(card) == {i \in DOMAIN attendees : attendees[i].card = card}

(* findByNfcUidHash: the first in the order of the rows, or Nothing.       *)
HolderOf(card) ==
  IF HoldersOf(card) = {} THEN Nothing
  ELSE CHOOSE i \in HoldersOf(card) : \A j \in HoldersOf(card) : i <= j

(* What the unique index refuses. *)
Clash_Unindexed(i, card) == FALSE

Clash(i, card) == build = "postgres" /\ HoldersOf(card) \ {i} # {}

SetCard(i, card) ==
  /\ attendees' = [attendees EXCEPT ![i].card = card]
  /\ UNCHANGED <<passes, cardTaps>>

(* organizer-pass-types-create: the code is new to the event.              *)
CreatePass(p) ==
  LET code == Row(p)[1]
  IN  /\ At(p, "pass-create", "start")
      /\ IF passes[code] = "absent" THEN passes' = [passes EXCEPT ![code] = Row(p)[2]]
         ELSE UNCHANGED passes
      /\ Return(p)
      /\ UNCHANGED <<attendees, cardTaps>>

(* attendees.create of the memory build; over Postgres it throws.          *)
MayCreate == build = "memory"

(* organizer-attendees-create, and organizer-attendees-import with all its *)
(* rows; nobody asks whether there is such a pass type.                    *)
Register(p) ==
  /\ At(p, "register", "start")
  /\ attendees' = IF MayCreate THEN attendees \o [i \in DOMAIN Row(p) |-> NewAttendee(Row(p)[i])]
                  ELSE attendees
  /\ Return(p)
  /\ UNCHANGED <<passes, cardTaps>>

(* interactions-nfc-tap: looks the card up, ...                            *)
ReadCard(p) ==
  /\ At(p, "nfc-tap", "start")
  /\ LET i == HolderOf(Row(p)[2])
     IN  IF i = Nothing THEN Go(p, "enrol", Nothing)
         ELSE Go(p, "pass", [holder |-> i, pass |-> attendees[i].pass])
  /\ UNCHANGED cardVars

(* ... makes an attendee for it if there is none, ...                      *)
Enrol(p) ==
  /\ At(p, "nfc-tap", "enrol")
  /\ IF MayCreate
     THEN /\ attendees' = Append(attendees, [card |-> Row(p)[2], pass |-> Nothing])
          /\ Go(p, "pass", [holder |-> Len(attendees) + 1, pass |-> Nothing])
     ELSE Return(p) /\ UNCHANGED attendees
  /\ UNCHANGED <<passes, cardTaps>>

(* ... asks what the pass is for, ...                                      *)
Behaviour(pass) ==
  IF pass = Nothing \/ passes[pass] = "absent" THEN "consent" ELSE passes[pass]

ReadPass(p) ==
  /\ At(p, "nfc-tap", "pass")
  /\ LET what == Behaviour(copy[p].pass)
     IN  IF what = "skip" THEN Return(p)
         ELSE Go(p, "record", [holder |-> copy[p].holder,
                               consent |-> IF what = "access_only" THEN "staff_exempt" ELSE "pending"])
  /\ UNCHANGED cardVars

(* ... and records the tap, unless an attempt before has.                  *)
Recorded(tap) == \E t \in cardTaps : t.tap = tap

RecordTap(p) ==
  /\ At(p, "nfc-tap", "record")
  /\ cardTaps' = IF Recorded(Row(p)[1]) THEN cardTaps
                 ELSE cardTaps \cup {[tap |-> Row(p)[1], card |-> Row(p)[2],
                                      holder |-> copy[p].holder, consent |-> copy[p].consent]}
  /\ Return(p)
  /\ UNCHANGED <<attendees, passes>>

(* attendees-set-nfc-tag gives a card to an attendee; with force it looks  *)
(* for the holder first ...                                                *)
FindAttendee(p) ==
  /\ \E op \in {"card-set", "card-force"} : At(p, op, "start")
  /\ LET i == Row(p)[1]
         holder == HolderOf(Row(p)[2])
     IN  IF i \notin DOMAIN attendees THEN Return(p)
         ELSE IF Op(p) = "card-force" /\ holder \notin {Nothing, i} THEN Go(p, "clear", holder)
         ELSE Go(p, "write", i)
  /\ UNCHANGED cardVars

(* ... and takes from him what he has by then.                             *)
TakeCard(p) ==
  /\ At(p, "card-force", "clear")
  /\ SetCard(copy[p], Nothing)
  /\ Go(p, "write", Row(p)[1])

GiveCard(p) ==
  /\ \E op \in {"card-set", "card-force"} : At(p, op, "write")
  /\ IF Clash(Row(p)[1], Row(p)[2]) THEN UNCHANGED cardVars ELSE SetCard(Row(p)[1], Row(p)[2])
  /\ Return(p)

(* attendees-clear-nfc-tag. *)
ClearCard(p) ==
  \/ /\ At(p, "card-clear", "start")
     /\ IF Row(p) \in DOMAIN attendees THEN Go(p, "write", Nothing) ELSE Return(p)
     /\ UNCHANGED cardVars
  \/ /\ At(p, "card-clear", "write")
     /\ SetCard(Row(p), Nothing)
     /\ Return(p)

CardStep(p) ==
  \/ CreatePass(p) \/ Register(p)
  \/ ReadCard(p) \/ Enrol(p) \/ ReadPass(p) \/ RecordTap(p)
  \/ FindAttendee(p) \/ TakeCard(p) \/ GiveCard(p) \/ ClearCard(p)
=============================================================================

------------------------- MODULE OfficeGround_proofs -------------------------
(***************************************************************************)
(* Theorems about BackOffice on the ground and at work: short links,       *)
(* cards, incidents, the operations of the IoT integration and e-mail, and *)
(* the types of all of it, for every value of the constants.               *)
(***************************************************************************)
EXTENDS OfficeContent_proofs, WellFoundedInduction

-----------------------------------------------------------------------------
(* Short links.  A link is written back from a row that was one, with a    *)
(* status that is not active.                                              *)
Link == [status : LinkStatuses, target : Wallets \cup {Row(p) : p \in UNION Casts}, over : BOOLEAN]

Wallet == [status : WalletStatuses, link : 0 .. Len(shortLinks)]

WalletProc(p) ==
  /\ Op(p) = "link-open" /\ pc[p] = "open" => copy[p].link \in Link
  /\ Op(p) = "link-revoke" /\ pc[p] = "write" => copy[p] \in Link
  /\ Op(p) = "wallet-mark" /\ pc[p] = "write" /\ Row(p)[1] \in Wallets => copy[p] \in Wallet

WalletInv ==
  /\ Office /\ shortLinks \in Seq(Link) /\ wallets \in [Wallets -> Wallet]
  /\ walletMode \in {"disabled", "failed", "generated"}
  /\ \A p \in cast : WalletProc(p)

LEMMA WalletCases ==
  ASSUME [Next]_vars
  PROVE  \/ \E p \in cast : WalletStep(p) /\ Op(p) \in PassOps /\ Acts(p)
         \/ \E i \in DOMAIN shortLinks : LinkLapses(i)
         \/ UNCHANGED walletVars /\ Elsewhere(PassOps)
BY StepCases DEF Mine, Next, SessionsEnd, OtherClocks, Restarted, EndPasses, Lapse, GoStale,
   vars, groundVars, Elsewhere

LEMMA WalletStart == Init => WalletInv
<1> SUFFICES ASSUME Init PROVE WalletInv
  OBVIOUS
<1>1. Office /\ \A p \in cast : pc[p] \in {"asleep", "start"}
  BY ThreadInit, ProcStart DEF Init
<1>2. shortLinks = <<>> /\ wallets \in [Wallets -> Wallet]
      /\ walletMode \in {"disabled", "failed", "generated"}
  BY DEF Init, WalletInit, Wallet, WalletStatuses
<1>3. QED
  BY <1>1, <1>2 DEF WalletInv, WalletProc

(* No link that has ended works again.                                     *)
LinksEnd ==
  \A i \in DOMAIN shortLinks : shortLinks[i].status # "active" => shortLinks'[i].status # "active"

(* A link that is written changes alone.                                   *)
LEMMA WriteLinkFacts ==
  ASSUME NEW i, NEW row \in Link, row.status # "active", shortLinks \in Seq(Link), WriteLink(i, row)
  PROVE  /\ shortLinks' \in Seq(Link) /\ Len(shortLinks') = Len(shortLinks) /\ LinksEnd
         /\ UNCHANGED <<walletMode, wallets>>
<1>1. shortLinks' = [shortLinks EXCEPT ![i] = [row EXCEPT !.over = shortLinks[i].over]]
      /\ UNCHANGED <<walletMode, wallets>>
  BY DEF WriteLink
<1>2. CASE i \in DOMAIN shortLinks
  <2>1. shortLinks[i] \in Link
    BY <1>2
  <2>2. [row EXCEPT !.over = shortLinks[i].over] \in Link
        /\ [row EXCEPT !.over = shortLinks[i].over].status # "active"
    BY <2>1 DEF Link
  <2>3. /\ shortLinks' \in Seq(Link) /\ Len(shortLinks') = Len(shortLinks)
        /\ \A j \in 1 .. Len(shortLinks) :
             shortLinks'[j] = IF j = i THEN [row EXCEPT !.over = shortLinks[i].over] ELSE shortLinks[j]
    BY <1>1, <1>2, <2>2, ExceptSeq
  <2>4. QED
    BY <1>1, <2>2, <2>3 DEF LinksEnd
<1>3. CASE i \notin DOMAIN shortLinks
  <2>1. shortLinks' = shortLinks
    BY <1>1, <1>3
  <2>2. QED
    BY <1>1, <2>1 DEF LinksEnd
<1>4. QED
  BY <1>2, <1>3

(* The provider's answer makes at most one new link, behind the others.    *)
LEMMA OutcomeFacts ==
  ASSUME NEW p \in UNION Casts, WalletInv, ApplyOutcome(Row(p))
  PROVE  /\ shortLinks' \in Seq(Link) /\ Len(shortLinks') >= Len(shortLinks) /\ LinksEnd
         /\ wallets' \in [Wallets -> Wallet'] /\ walletMode' = walletMode
<1> DEFINE new  == [status |-> "active", target |-> Row(p), over |-> FALSE]
           pass == [status |-> walletMode,
                    link |-> IF walletMode = "generated" THEN Len(shortLinks) + 1 ELSE 0]
<1>1. new \in Link /\ shortLinks \in Seq(Link) /\ wallets \in [Wallets -> Wallet]
      /\ walletMode \in {"disabled", "failed", "generated"}
  BY DEF Link, LinkStatuses, WalletInv
<1>2. /\ wallets' = [wallets EXCEPT ![Row(p)] = pass] /\ walletMode' = walletMode
      /\ shortLinks' = IF walletMode = "generated" THEN Append(shortLinks, new) ELSE shortLinks
  BY DEF ApplyOutcome
<1>3. /\ shortLinks' \in Seq(Link)
      /\ Len(shortLinks') = IF walletMode = "generated" THEN Len(shortLinks) + 1 ELSE Len(shortLinks)
      /\ \A i \in 1 .. Len(shortLinks) : shortLinks'[i] = shortLinks[i]
  <2>1. CASE walletMode = "generated"
    BY <1>1, <1>2, <2>1, AppendProperties
  <2>2. CASE walletMode # "generated"
    BY <1>1, <1>2, <2>2
  <2>3. QED
    BY <2>1, <2>2
<1>4. Len(shortLinks) \in Nat
  BY <1>1
<1>5. pass \in Wallet' /\ Wallet \subseteq Wallet'
  BY <1>1, <1>3, <1>4 DEF Wallet, WalletStatuses
<1>6. LinksEnd /\ Len(shortLinks') >= Len(shortLinks)
  BY <1>1, <1>3, <1>4 DEF LinksEnd
<1>7. wallets' \in [Wallets -> Wallet']
  <2>1. wallets \in [Wallets -> Wallet']
    BY <1>1, <1>5
  <2>2. QED
    BY <1>2, <1>5, <2>1
<1>8. QED
  BY <1>2, <1>3, <1>6, <1>7


LEMMA WalletsStep == WalletInv /\ [Next]_vars => WalletInv' /\ (LinksEnd \/ UNCHANGED shortLinks)
<1> SUFFICES ASSUME WalletInv, [Next]_vars PROVE WalletInv' /\ (LinksEnd \/ UNCHANGED shortLinks)
  OBVIOUS
<1>1. ASSUME NEW p \in cast, WalletStep(p), Op(p) \in PassOps, Acts(p)
      PROVE  WalletInv' /\ (LinksEnd \/ UNCHANGED shortLinks)
  <2>1. /\ Office' /\ build' = build /\ cast' = cast /\ ProcOk /\ WalletProc(p) /\ p \in UNION Casts
        /\ \A q \in cast : q # p => pc'[q] = pc[q] /\ copy'[q] = copy[q]
    BY <1>1, ActsFacts DEF WalletInv, Office, ProcOk
  <2>2. shortLinks \in Seq(Link) /\ wallets \in [Wallets -> Wallet] /\ Len(shortLinks) \in Nat
    BY DEF WalletInv
  <2>3. ASSUME shortLinks' \in Seq(Link), Len(shortLinks') >= Len(shortLinks),
               wallets' \in [Wallets -> Wallet'], walletMode' = walletMode, WalletProc(p)'
        PROVE  WalletInv'
    <3>1. Len(shortLinks') \in Nat
      BY <2>3
    <3>2. Wallet \subseteq Wallet'
      BY <2>2, <2>3, <3>1 DEF Wallet
    <3>3. ASSUME NEW q \in cast, q # p PROVE WalletProc(q)'
      BY <2>1, <3>2, <3>3 DEF WalletProc, WalletInv, Op, Row
    <3>4. QED
      BY <2>1, <2>3, <3>3 DEF WalletInv
  <2>4. ASSUME UNCHANGED walletVars, WalletProc(p)'
        PROVE  WalletInv' /\ (LinksEnd \/ UNCHANGED shortLinks)
    <3>1. Wallet' = Wallet
      BY <2>4 DEF Wallet, walletVars
    <3>2. QED
      BY <2>2, <2>3, <2>4, <3>1 DEF walletVars
  <2>5. CASE CreateWallet(p) \/ RetryWallet(p)
    <3>1. ApplyOutcome(Row(p)) /\ pc'[p] = "done"
      BY <2>1, <2>5, GoFacts DEF CreateWallet, RetryWallet, Return
    <3>2. WalletProc(p)'
      BY <3>1 DEF WalletProc
    <3>3. QED
      BY <2>1, <2>3, <3>1, <3>2, OutcomeFacts
  <2>6. CASE ReadWallet(p)
    <3>1. UNCHANGED walletVars /\ Op(p) \in {"wallet-retry", "wallet-mark"}
      BY <2>6 DEF ReadWallet, At
    <3>2. pc'[p] = "done" \/ copy'[p] = wallets[WalletOf(p)]
      BY <2>1, <2>6, GoFacts DEF ReadWallet, Return
    <3>3. Wallet' = Wallet
      BY <3>1 DEF Wallet, walletVars
    <3>4. WalletProc(p)'
      BY <2>2, <3>1, <3>2, <3>3 DEF WalletProc, WalletOf, Op, Row
    <3>5. QED
      BY <2>4, <3>1, <3>4
  <2>7. CASE MarkWallet(p)
    <3>1. /\ Op(p) = "wallet-mark" /\ pc[p] = "write" /\ pc'[p] = "done"
          /\ wallets' = [wallets EXCEPT ![Row(p)[1]] = [copy[p] EXCEPT !.status = Row(p)[2]]]
          /\ UNCHANGED <<walletMode, shortLinks>>
      BY <2>1, <2>7, GoFacts DEF MarkWallet, Return, At
    <3>2. Row(p)[2] \in WalletStatuses
      BY <2>1, <3>1, WalletAssumption DEF WalletStatuses, ProcOk
    <3>3. Row(p)[1] \in Wallets => [copy[p] EXCEPT !.status = Row(p)[2]] \in Wallet
      BY <2>1, <3>1, <3>2 DEF WalletProc, Wallet
    <3>4. wallets' \in [Wallets -> Wallet]
      BY <2>2, <3>1, <3>3
    <3>5. Wallet' = Wallet
      BY <3>1 DEF Wallet
    <3>6. WalletProc(p)'
      BY <3>1 DEF WalletProc
    <3>7. QED
      BY <2>2, <2>3, <3>1, <3>4, <3>5, <3>6
  <2>8. CASE ReadLink(p)
    <3>1. UNCHANGED walletVars /\ Op(p) = "link-open"
      BY <2>8 DEF ReadLink, At
    <3>2. \/ pc'[p] = "done"
          \/ /\ Row(p) \in DOMAIN shortLinks
             /\ copy'[p] = [link |-> shortLinks[Row(p)],
                            wallet |-> wallets[shortLinks[Row(p)].target].status]
      BY <2>1, <2>8, GoFacts DEF ReadLink, Return
    <3>3. pc'[p] # "done" => copy'[p].link \in Link
      BY <2>2, <3>2
    <3>4. WalletProc(p)'
      BY <3>1, <3>3 DEF WalletProc, Op
    <3>5. QED
      BY <2>4, <3>1, <3>4
  <2>9. ASSUME NEW i, NEW row \in Link, row.status # "active", WriteLink(i, row), pc'[p] = "done"
        PROVE  WalletInv' /\ (LinksEnd \/ UNCHANGED shortLinks)
    <3>1. /\ shortLinks' \in Seq(Link) /\ Len(shortLinks') = Len(shortLinks) /\ LinksEnd
          /\ UNCHANGED <<walletMode, wallets>>
      BY <2>2, <2>9, WriteLinkFacts
    <3>2. Wallet' = Wallet /\ Len(shortLinks') >= Len(shortLinks)
      BY <2>2, <3>1 DEF Wallet
    <3>3. WalletProc(p)'
      BY <2>9 DEF WalletProc
    <3>4. QED
      BY <2>2, <2>3, <3>1, <3>2, <3>3
  <2>10. CASE OpenLink(p)
    <3>1. Op(p) = "link-open" /\ pc[p] = "open" /\ pc'[p] = "done"
      BY <2>1, <2>10, GoFacts DEF OpenLink, Return, At
    <3>2. copy[p].link \in Link /\ WalletProc(p)'
      BY <2>1, <3>1 DEF WalletProc
    <3>3. Lapsed(copy[p].link) \in Link /\ Lapsed(copy[p].link).status # "active"
      BY <3>2 DEF Lapsed, Link, LinkStatuses
    <3>4. \/ UNCHANGED <<walletMode, wallets, walletAttempts, shortLinks>>
          \/ WriteLink(Row(p), Lapsed(copy[p].link))
      BY <2>10 DEF OpenLink, walletVars
    <3>5. CASE UNCHANGED <<walletMode, wallets, walletAttempts, shortLinks>>
      <4>1. Wallet' = Wallet
        BY <3>5 DEF Wallet
      <4>2. QED
        BY <2>2, <2>3, <3>2, <3>5, <4>1
    <3>6. QED
      BY <2>9, <3>1, <3>3, <3>4, <3>5
  <2>11. CASE RevokeLink(p)
    <3>1. Op(p) = "link-revoke"
      BY <2>11 DEF RevokeLink, At
    <3>2. CASE pc[p] = "write" /\ WriteLink(Row(p), [copy[p] EXCEPT !.status = "revoked"]) /\ Return(p)
      <4>1. copy[p] \in Link /\ pc'[p] = "done"
        BY <2>1, <3>1, <3>2, GoFacts DEF WalletProc, Return
      <4>2. /\ [copy[p] EXCEPT !.status = "revoked"] \in Link
            /\ [copy[p] EXCEPT !.status = "revoked"].status # "active"
        BY <4>1 DEF Link, LinkStatuses
      <4>3. QED
        BY <2>9, <3>2, <4>1, <4>2
    <3>3. CASE /\ UNCHANGED walletVars
               /\ \/ Row(p) \in DOMAIN shortLinks /\ Go(p, "write", shortLinks[Row(p)])
                  \/ Return(p)
      <4>1. pc'[p] = "done" \/ (Row(p) \in DOMAIN shortLinks /\ copy'[p] = shortLinks[Row(p)])
        BY <2>1, <3>3, GoFacts DEF Return
      <4>2. WalletProc(p)'
        BY <2>2, <3>1, <4>1 DEF WalletProc, Op
      <4>3. QED
        BY <2>4, <3>3, <4>2
    <3>4. QED
      BY <2>11, <3>2, <3>3 DEF RevokeLink, At
  <2>12. QED
    BY <1>1, <2>5, <2>6, <2>7, <2>8, <2>10, <2>11 DEF WalletStep
<1>2. ASSUME NEW i \in DOMAIN shortLinks, LinkLapses(i)
      PROVE  WalletInv' /\ (LinksEnd \/ UNCHANGED shortLinks)
  <2> DEFINE row == [shortLinks[i] EXCEPT !.over = TRUE]
  <2>1. shortLinks \in Seq(Link) /\ Office /\ Office' /\ cast' = cast
    BY <1>2, Idle DEF WalletInv, LinkLapses
  <2>2. shortLinks[i] \in Link
    BY <2>1
  <2>3. row \in Link /\ row.status = shortLinks[i].status
    BY <2>2 DEF Link
  <2>4. shortLinks' = [shortLinks EXCEPT ![i] = row] /\ UNCHANGED <<procVars, walletMode, wallets>>
    BY <1>2 DEF LinkLapses
  <2>5. /\ shortLinks' \in Seq(Link) /\ Len(shortLinks') = Len(shortLinks)
        /\ \A j \in 1 .. Len(shortLinks) : shortLinks'[j] = IF j = i THEN row ELSE shortLinks[j]
    BY <2>1, <2>3, <2>4, ExceptSeq
  <2>6. LinksEnd /\ Wallet' = Wallet
    <3>1. DOMAIN shortLinks = 1 .. Len(shortLinks)
      BY <2>1
    <3>2. LinksEnd
      BY <2>3, <2>5, <3>1 DEF LinksEnd
    <3>3. QED
      BY <2>5, <3>2 DEF Wallet
  <2>7. QED
    BY <2>1, <2>4, <2>5, <2>6 DEF WalletInv, WalletProc, procVars, Op, Row
<1>3. CASE UNCHANGED walletVars /\ Elsewhere(PassOps)
  <2>1. Office' /\ build' = build /\ cast' = cast
    BY <1>3, ElsewhereOffice DEF WalletInv
  <2>2. Wallet' = Wallet
    BY <1>3 DEF Wallet, walletVars
  <2>3. ASSUME NEW p \in cast PROVE WalletProc(p)'
    BY <1>3, <2>1, <2>2, ElsewhereFacts DEF WalletInv, WalletProc, PassOps, Op, Row
  <2>4. QED
    BY <1>3, <2>1, <2>2, <2>3 DEF WalletInv, walletVars
<1>4. QED
  BY <1>1, <1>2, <1>3, WalletCases

(* A short link that is revoked, or whose time is over, never works again, *)
(* whichever stale row an opening or a revocation writes back.             *)
THEOREM EndedLinksStayEnded == Spec => LinksEndForGood
<1>1. WalletInv /\ [Next]_vars => [LinksEnd]_vars
  <2> SUFFICES ASSUME WalletInv, [Next]_vars PROVE [LinksEnd]_vars
    OBVIOUS
  <2>1. CASE UNCHANGED shortLinks
    BY <2>1 DEF LinksEnd
  <2>2. QED
    BY <2>1, WalletsStep
<1>2. QED
  BY <1>1, WalletStart, WalletsStep, PTL DEF Spec, LinksEndForGood, LinksEnd


-----------------------------------------------------------------------------
(* The least member of a set of numbers, which the first in the order of   *)
(* the rows is.                                                            *)
LEMMA Least ==
  ASSUME NEW S \in SUBSET Nat, S # {}
  PROVE  \E i \in S : \A j \in S : i <= j
<1> DEFINE R == {ss \in Nat \X Nat : ss[1] < ss[2]}
<1>1. IsWellFoundedOn(R, Nat)
  BY NatLessThanWellFounded DEF OpToRel
<1>2. PICK i \in S : \A j \in S : <<j, i>> \notin R
  <2> HIDE DEF R
  <2>1. QED
    BY <1>1, WFMin
<1>3. ASSUME NEW j \in S PROVE i <= j
  <2>1. <<j, i>> \in Nat \X Nat /\ <<j, i>>[1] = j /\ <<j, i>>[2] = i
    OBVIOUS
  <2>2. ~(j < i)
    BY <1>2, <2>1
  <2>3. QED
    BY <2>2
<1>4. QED
  BY <1>3

(* Cards.  A tap is recorded on an attendee that is there, and as long as  *)
(* no card changes hands, on the one that holds the card still.  In the    *)
(* memory build, where nobody gives cards away without force, who is about *)
(* to give one has found out who else has it.                              *)
Attendee == [card : Cards \cup {Nothing}, pass : PassTypes \cup {Nothing}]

Guarded == build = "postgres" \/ NoneOf({"card-set"})
Settled == NoneOf({"card-set", "card-force", "card-clear"})

OneHolds == \A c \in Cards : \A i, j \in HoldersOf(c) : i = j

TapsFit(taps) ==
  \A t \in taps :
    /\ t.holder \in DOMAIN attendees
    /\ Settled => t.card \in Cards /\ attendees[t.holder].card = t.card

CardProc(p) ==
  /\ Op(p) = "nfc-tap" /\ pc[p] \in {"pass", "record"} =>
       /\ copy[p].holder \in DOMAIN attendees
       /\ Settled => attendees[copy[p].holder].card = Row(p)[2]
  /\ build = "memory" /\ NoneOf({"card-set"}) =>
       /\ Op(p) = "nfc-tap" /\ pc[p] = "enrol" => HoldersOf(Row(p)[2]) = {}
       /\ Op(p) = "card-force" /\ pc[p] = "clear" => HoldersOf(Row(p)[2]) \subseteq {copy[p]}
       /\ Op(p) = "card-force" /\ pc[p] = "write" => HoldersOf(Row(p)[2]) \subseteq {Row(p)[1]}

CardInv ==
  /\ Office /\ attendees \in Seq(Attendee) /\ passes \in [PassTypes -> Behaviours \cup {"absent"}]
  /\ Guarded => OneHolds
  /\ TapsFit(cardTaps)
  /\ \A p \in cast : CardProc(p)

LEMMA CardCases ==
  ASSUME [Next]_vars
  PROVE  \/ \E p \in cast : CardStep(p) /\ Op(p) \in CardOps /\ Acts(p)
         \/ UNCHANGED cardVars /\ Elsewhere(CardOps)
BY StepCases DEF Mine, Next, SessionsEnd, OtherClocks, Restarted, EndPasses, Lapse, GoStale,
   LinkLapses, vars, groundVars, Elsewhere

LEMMA CardStart == Init => CardInv
<1> SUFFICES ASSUME Init PROVE CardInv
  OBVIOUS
<1>1. Office /\ \A p \in cast : pc[p] \in {"asleep", "start"}
  BY ThreadInit, ProcStart DEF Init
<1> DEFINE blank == [card |-> Nothing, pass |-> Nothing]
<1>2. /\ attendees = <<blank, blank>> /\ cardTaps = {}
      /\ passes \in [PassTypes -> Behaviours \cup {"absent"}]
  BY DEF Init, CardsInit
<1>3. blank \in Attendee /\ blank.card \notin Cards
  BY CardsAssumption DEF Attendee
<1> HIDE DEF blank
<1>4. attendees \in Seq(Attendee) /\ \A i \in DOMAIN attendees : attendees[i] = blank
  BY <1>2, <1>3
<1>5. OneHolds
  BY <1>3, <1>4 DEF OneHolds, HoldersOf
<1>6. QED
  BY <1>1, <1>2, <1>4, <1>5 DEF CardInv, CardProc, TapsFit

(* The holder that a lookup finds is one, if there is one.                 *)
LEMMA HolderFacts ==
  ASSUME NEW c, attendees \in Seq(Attendee)
  PROVE  /\ HolderOf(c) = Nothing <=> HoldersOf(c) = {}
         /\ HolderOf(c) # Nothing => HolderOf(c) \in HoldersOf(c)
<1>1. HoldersOf(c) \in SUBSET Nat
  BY DEF HoldersOf
<1>2. CASE HoldersOf(c) = {}
  BY <1>2 DEF HolderOf
<1>3. CASE HoldersOf(c) # {}
  <2>1. \E i \in HoldersOf(c) : \A j \in HoldersOf(c) : i <= j
    BY <1>1, <1>3, Least
  <2>2. HolderOf(c) \in HoldersOf(c)
    BY <1>3, <2>1 DEF HolderOf
  <2>3. QED
    BY <1>1, <1>3, <2>2, BuildsAssumption
<1>4. QED
  BY <1>2, <1>3

(* A card that is given or taken away moves to or from one attendee.       *)
LEMMA SetCardFacts ==
  ASSUME NEW i, NEW card \in Cards \cup {Nothing}, attendees \in Seq(Attendee), SetCard(i, card)
  PROVE  /\ attendees' \in Seq(Attendee) /\ DOMAIN attendees' = DOMAIN attendees
         /\ \A c \in Cards : HoldersOf(c)' = IF c = card /\ i \in DOMAIN attendees
                                             THEN HoldersOf(c) \cup {i} ELSE HoldersOf(c) \ {i}
         /\ UNCHANGED <<passes, cardTaps>>
<1>1. attendees' = [attendees EXCEPT ![i].card = card] /\ UNCHANGED <<passes, cardTaps>>
  BY DEF SetCard
<1>2. CASE i \in DOMAIN attendees
  <2> DEFINE row == [attendees[i] EXCEPT !.card = card]
  <2>1. attendees[i] \in Attendee
    BY <1>2
  <2>2. row \in Attendee /\ row.card = card
    BY <2>1 DEF Attendee
  <2>3. attendees' = [attendees EXCEPT ![i] = row]
    BY <1>1
  <2> HIDE DEF row
  <2>4. /\ attendees' \in Seq(Attendee) /\ Len(attendees') = Len(attendees)
        /\ \A j \in 1 .. Len(attendees) : attendees'[j] = IF j = i THEN row ELSE attendees[j]
    BY <1>2, <2>2, <2>3, ExceptSeq
  <2>5. DOMAIN attendees' = DOMAIN attendees /\ DOMAIN attendees = 1 .. Len(attendees)
    BY <2>4
  <2>6. ASSUME NEW c \in Cards
        PROVE  HoldersOf(c)' = IF c = card THEN HoldersOf(c) \cup {i} ELSE HoldersOf(c) \ {i}
    BY <1>2, <2>2, <2>4, <2>5 DEF HoldersOf
  <2>7. QED
    BY <1>1, <1>2, <2>4, <2>5, <2>6
<1>3. CASE i \notin DOMAIN attendees
  <2>1. attendees' = attendees
    BY <1>1, <1>3
  <2>2. QED
    BY <1>1, <1>3, <2>1 DEF HoldersOf
<1>4. QED
  BY <1>2, <1>3

(* New attendees come behind the others, and leave those as they are.      *)
LEMMA RegisterFacts ==
  ASSUME NEW new \in Seq(Attendee), attendees \in Seq(Attendee), attendees' = attendees \o new
  PROVE  /\ attendees' \in Seq(Attendee) /\ Len(attendees') = Len(attendees) + Len(new)
         /\ \A i \in DOMAIN attendees : i \in DOMAIN attendees' /\ attendees'[i] = attendees[i]
         /\ \A c : (\A i \in DOMAIN new : new[i].card # c) => HoldersOf(c)' = HoldersOf(c)
<1>1. /\ attendees' \in Seq(Attendee) /\ Len(attendees') = Len(attendees) + Len(new)
      /\ \A i \in 1 .. Len(attendees) + Len(new) :
           attendees'[i] = IF i <= Len(attendees) THEN attendees[i] ELSE new[i - Len(attendees)]
  BY ConcatProperties
<1>2. /\ Len(attendees) \in Nat /\ Len(new) \in Nat
      /\ DOMAIN attendees = 1 .. Len(attendees) /\ DOMAIN new = 1 .. Len(new)
      /\ DOMAIN attendees' = 1 .. Len(attendees) + Len(new)
  BY <1>1
<1>3. ASSUME NEW c, \A i \in DOMAIN new : new[i].card # c
      PROVE  HoldersOf(c)' = HoldersOf(c)
  BY <1>1, <1>2, <1>3 DEF HoldersOf
<1>4. \A i \in DOMAIN attendees : i \in DOMAIN attendees' /\ attendees'[i] = attendees[i]
  BY <1>1, <1>2
<1>5. QED
  BY <1>1, <1>3, <1>4


LEMMA CardsStep == CardInv /\ [Next]_vars => CardInv'
<1> SUFFICES ASSUME CardInv, [Next]_vars PROVE CardInv'
  OBVIOUS
<1>1. ASSUME NEW p \in cast, CardStep(p), Op(p) \in CardOps, Acts(p)
      PROVE  CardInv'
  <2>1. /\ Office' /\ build' = build /\ cast' = cast /\ ProcOk /\ CardProc(p) /\ cast \in Casts
        /\ \A q \in cast : q # p => pc'[q] = pc[q] /\ copy'[q] = copy[q]
    BY <1>1, ActsFacts DEF CardInv, Office, ProcOk
  <2>2. /\ attendees \in Seq(Attendee) /\ TapsFit(cardTaps)
        /\ passes \in [PassTypes -> Behaviours \cup {"absent"}]
        /\ DOMAIN attendees = 1 .. Len(attendees) /\ Len(attendees) \in Nat
    BY DEF CardInv
  <2>3. (Guarded' <=> Guarded) /\ (Settled' <=> Settled)
    BY <2>1 DEF Guarded, Settled, NoneOf, Op
  <2>4. \A q \in cast : Op(q) \in {"nfc-tap", "card-set", "card-force"} => Row(q)[2] \in Cards
    BY <2>1, CardsAssumption
  (* A step that keeps the attendees there are, and as long as no card     *)
  (* changes hands their cards.                                            *)
  <2> DEFINE Keeps == \A i \in DOMAIN attendees :
                        i \in DOMAIN attendees' /\ (Settled => attendees'[i].card = attendees[i].card)
  <2>5. ASSUME attendees' \in Seq(Attendee), passes' \in [PassTypes -> Behaviours \cup {"absent"}],
               Keeps, Guarded => OneHolds', TapsFit(cardTaps)', CardProc(p)'
        PROVE  CardInv'
    <3>1. ASSUME NEW q \in cast, q # p PROVE CardProc(q)'
      <4>1. CardProc(q) /\ pc'[q] = pc[q] /\ copy'[q] = copy[q]
        BY <2>1, <3>1 DEF CardInv
      <4>2. build = "memory" => pc[q] \in Outside \/ Op(q) \in Immediate
        BY <1>1, <3>1, Undisturbed
      <4>3. Op(q) = "nfc-tap" /\ pc'[q] \in {"pass", "record"} =>
              /\ copy'[q].holder \in DOMAIN attendees'
              /\ Settled => attendees'[copy'[q].holder].card = Row(q)[2]
        BY <2>5, <4>1 DEF CardProc
      <4>4. QED
        BY <2>1, <2>3, <4>1, <4>2, <4>3 DEF CardProc, Outside, Immediate, Op, Row
    <3>2. QED
      BY <2>1, <2>3, <2>5, <3>1 DEF CardInv
  <2>6. ASSUME Keeps, cardTaps' = cardTaps PROVE TapsFit(cardTaps)'
    BY <2>2, <2>3, <2>6 DEF TapsFit
  <2>7. ASSUME UNCHANGED <<attendees, passes, cardTaps>>, CardProc(p)' PROVE CardInv'
    <3>1. Keeps /\ OneHolds' = OneHolds
      BY <2>7 DEF OneHolds, HoldersOf
    <3>2. QED
      BY <2>2, <2>5, <2>6, <2>7, <3>1 DEF CardInv
  <2>8. CASE CreatePass(p)
    <3>1. UNCHANGED <<attendees, cardTaps>> /\ Op(p) = "pass-create"
      BY <2>8 DEF CreatePass, At
    <3>2. Row(p)[2] \in Behaviours
      BY <2>1, <3>1, CardsAssumption DEF Behaviours
    <3>3. passes' \in [PassTypes -> Behaviours \cup {"absent"}]
      BY <2>2, <2>8, <3>2 DEF CreatePass
    <3>4. Keeps /\ OneHolds' = OneHolds
      BY <3>1 DEF OneHolds, HoldersOf
    <3>5. CardProc(p)'
      BY <3>1 DEF CardProc, Op
    <3>6. QED
      BY <2>2, <2>5, <2>6, <3>1, <3>3, <3>4, <3>5 DEF CardInv
  (* Attendees are added, none of them with a card that somebody holds.    *)
  <2>9. ASSUME NEW new \in Seq(Attendee), attendees' = attendees \o new, UNCHANGED <<passes, cardTaps>>,
               Guarded => OneHolds', CardProc(p)'
        PROVE  CardInv'
    <3>1. attendees' \in Seq(Attendee) /\ Keeps
      BY <2>2, <2>9, RegisterFacts
    <3>2. QED
      BY <2>2, <2>5, <2>6, <2>9, <3>1
  <2>10. CASE Register(p)
    <3>1. UNCHANGED <<passes, cardTaps>> /\ Op(p) = "register"
      BY <2>10 DEF Register, At
    <3>2. CardProc(p)'
      BY <3>1 DEF CardProc, Op
    <3>3. CASE attendees' = attendees
      BY <2>7, <3>1, <3>2, <3>3
    <3>4. CASE attendees' = attendees \o [i \in DOMAIN Row(p) |-> NewAttendee(Row(p)[i])]
      <4> DEFINE new == [i \in DOMAIN Row(p) |-> NewAttendee(Row(p)[i])]
      <4>1. Row(p) \in Seq(PassTypes \cup {Nothing})
        BY <2>1, <3>1, CardsAssumption
      <4>2. /\ DOMAIN new = DOMAIN Row(p)
            /\ \A i \in DOMAIN Row(p) : new[i] \in Attendee /\ new[i].card = Nothing
        BY <4>1 DEF NewAttendee, Attendee
      <4>3. new \in Seq(Attendee)
        BY <4>1, <4>2
      <4> HIDE DEF new
      <4>4. \A c \in Cards : \A i \in DOMAIN new : new[i].card # c
        BY <4>2, CardsAssumption
      <4>5. \A c \in Cards : HoldersOf(c)' = HoldersOf(c)
        BY <2>2, <3>4, <4>3, <4>4, RegisterFacts DEF new
      <4>6. Guarded => OneHolds'
        BY <4>5 DEF OneHolds, CardInv
      <4>7. QED
        BY <2>9, <3>1, <3>2, <3>4, <4>3, <4>6 DEF new
    <3>5. QED
      BY <2>10, <3>3, <3>4 DEF Register
  <2>11. CASE ReadCard(p)
    <3>1. UNCHANGED <<attendees, passes, cardTaps>> /\ Op(p) = "nfc-tap"
      BY <2>11 DEF ReadCard, At, cardVars
    <3>2. CASE HolderOf(Row(p)[2]) = Nothing
      <4>1. pc'[p] = "enrol" /\ HoldersOf(Row(p)[2]) = {}
        BY <2>1, <2>2, <2>11, <3>2, GoFacts, HolderFacts DEF ReadCard
      <4>2. CardProc(p)'
        BY <3>1, <4>1 DEF CardProc, HoldersOf, Row, Op
      <4>3. QED
        BY <2>7, <3>1, <4>2
    <3>3. CASE HolderOf(Row(p)[2]) # Nothing
      <4> DEFINE h == HolderOf(Row(p)[2])
      <4>1. h \in HoldersOf(Row(p)[2])
        BY <2>2, <3>3, HolderFacts
      <4>2. pc'[p] = "pass" /\ copy'[p] = [holder |-> h, pass |-> attendees[h].pass]
        BY <2>1, <2>11, <3>3, GoFacts DEF ReadCard
      <4>3. copy'[p].holder = h /\ h \in DOMAIN attendees /\ attendees[h].card = Row(p)[2]
        BY <4>1, <4>2 DEF HoldersOf
      <4>4. CardProc(p)'
        BY <3>1, <4>2, <4>3 DEF CardProc, Row, Op
      <4>5. QED
        BY <2>7, <3>1, <4>4
    <3>4. QED
      BY <3>2, <3>3
  <2>12. CASE Enrol(p)
    <3>1. UNCHANGED <<passes, cardTaps>> /\ Op(p) = "nfc-tap" /\ pc[p] = "enrol"
      BY <2>12 DEF Enrol, At
    <3>2. CASE Return(p) /\ UNCHANGED attendees
      <4>1. pc'[p] = "done"
        BY <2>1, <3>2, GoFacts DEF Return
      <4>2. CardProc(p)'
        BY <4>1, <3>1 DEF CardProc, Op
      <4>3. QED
        BY <2>7, <3>1, <3>2, <4>2
    <3>3. CASE /\ build = "memory"
               /\ attendees' = Append(attendees, [card |-> Row(p)[2], pass |-> Nothing])
               /\ Go(p, "pass", [holder |-> Len(attendees) + 1, pass |-> Nothing])
      <4> DEFINE row == [card |-> Row(p)[2], pass |-> Nothing]
      <4>1. row \in Attendee /\ row.card = Row(p)[2] /\ Row(p)[2] \in Cards
        BY <2>4, <3>1 DEF Attendee
      <4>2. attendees' = Append(attendees, row)
        BY <3>3
      <4> HIDE DEF row
      <4>3. /\ attendees' \in Seq(Attendee) /\ Len(attendees') = Len(attendees) + 1
            /\ \A i \in 1 .. Len(attendees) : attendees'[i] = attendees[i]
            /\ attendees'[Len(attendees) + 1] = row
        BY <2>2, <4>1, <4>2, AppendProperties
      <4>4. DOMAIN attendees' = DOMAIN attendees \cup {Len(attendees) + 1}
        BY <2>2, <4>3
      <4>5. Keeps
        BY <2>2, <4>3, <4>4
      <4>6. \A c \in Cards : HoldersOf(c)' = IF c = Row(p)[2] THEN HoldersOf(c) \cup {Len(attendees) + 1}
                                             ELSE HoldersOf(c)
        BY <2>2, <4>1, <4>3, <4>4 DEF HoldersOf
      <4>7. Guarded => HoldersOf(Row(p)[2]) = {}
        BY <2>1, <3>1, <3>3 DEF CardProc, Guarded
      <4>8. Guarded => OneHolds'
        BY <4>6, <4>7 DEF OneHolds, CardInv
      <4>9. pc'[p] = "pass" /\ copy'[p].holder = Len(attendees) + 1
        BY <2>1, <3>3, GoFacts
      <4>10. CardProc(p)'
        BY <3>1, <4>1, <4>3, <4>4, <4>9 DEF CardProc, Row, Op
      <4>11. QED
        BY <2>2, <2>5, <2>6, <3>1, <4>3, <4>5, <4>8, <4>10
    <3>4. QED
      BY <2>12, <3>2, <3>3 DEF Enrol, MayCreate
  <2>13. CASE ReadPass(p)
    <3>1. UNCHANGED <<attendees, passes, cardTaps>> /\ Op(p) = "nfc-tap" /\ pc[p] = "pass"
      BY <2>13 DEF ReadPass, At, cardVars
    <3>2. pc'[p] = "done" \/ (pc'[p] = "record" /\ copy'[p].holder = copy[p].holder)
      BY <2>1, <2>13, GoFacts DEF ReadPass, Return
    <3>3. CardProc(p)'
      BY <2>1, <2>3, <3>1, <3>2 DEF CardProc, Row, Op
    <3>4. QED
      BY <2>7, <3>1, <3>3
  <2>14. CASE RecordTap(p)
    <3>1. UNCHANGED <<attendees, passes>> /\ Op(p) = "nfc-tap" /\ pc[p] = "record"
      BY <2>14 DEF RecordTap, At
    <3>2. pc'[p] = "done"
      BY <2>1, <2>14, GoFacts DEF RecordTap, Return
    <3>3. CardProc(p)'
      BY <3>1, <3>2 DEF CardProc, Op
    <3>4. Row(p)[2] \in Cards /\ copy[p].holder \in DOMAIN attendees
          /\ (Settled => attendees[copy[p].holder].card = Row(p)[2])
      BY <2>1, <2>4, <3>1 DEF CardProc
    <3> DEFINE tap == [tap |-> Row(p)[1], card |-> Row(p)[2],
                       holder |-> copy[p].holder, consent |-> copy[p].consent]
    <3>5. cardTaps' = cardTaps \/ cardTaps' = cardTaps \cup {tap}
      BY <2>14 DEF RecordTap
    <3>6. tap.card = Row(p)[2] /\ tap.holder = copy[p].holder
      OBVIOUS
    <3> HIDE DEF tap
    <3>7. TapsFit(cardTaps)'
      BY <2>2, <2>3, <3>1, <3>4, <3>5, <3>6 DEF TapsFit
    <3>8. Keeps /\ OneHolds' = OneHolds
      BY <3>1 DEF OneHolds, HoldersOf
    <3>9. QED
      BY <2>2, <2>5, <3>1, <3>3, <3>7, <3>8 DEF CardInv
  <2>15. CASE FindAttendee(p)
    <3>1. UNCHANGED <<attendees, passes, cardTaps>> /\ Op(p) \in {"card-set", "card-force"}
      BY <2>15 DEF FindAttendee, At, cardVars
    <3> DEFINE h == HolderOf(Row(p)[2])
    <3>2. \/ pc'[p] = "done"
          \/ pc'[p] = "clear" /\ copy'[p] = h /\ h # Nothing
          \/ pc'[p] = "write" /\ (Op(p) = "card-force" => h \in {Nothing, Row(p)[1]})
      BY <2>1, <2>15, GoFacts DEF FindAttendee, Return
    <3>3. Row(p)[2] \in Cards
      BY <2>4, <3>1
    <3>4. Guarded => HoldersOf(Row(p)[2]) \subseteq {h}
      BY <2>2, <3>3, HolderFacts DEF CardInv, OneHolds
    <3>5. h = Nothing => HoldersOf(Row(p)[2]) = {}
      BY <2>2, HolderFacts
    <3>6. HoldersOf(Row(p)[2])' = HoldersOf(Row(p)[2])
      BY <3>1 DEF HoldersOf, Row
    <3> HIDE DEF h
    <3>7. CardProc(p)'
      BY <2>1, <2>3, <3>1, <3>2, <3>4, <3>5, <3>6 DEF CardProc, Guarded, Row, Op
    <3>8. QED
      BY <2>7, <3>1, <3>7
  (* A card moves: by itself that is no settled system. *)
  <2>16. ASSUME NEW i, NEW card \in Cards \cup {Nothing}, SetCard(i, card), ~Settled,
                Guarded /\ card # Nothing => HoldersOf(card) \subseteq {i}, CardProc(p)'
         PROVE  CardInv'
    <3>1. /\ attendees' \in Seq(Attendee) /\ DOMAIN attendees' = DOMAIN attendees
          /\ \A c \in Cards : HoldersOf(c)' = IF c = card /\ i \in DOMAIN attendees
                                              THEN HoldersOf(c) \cup {i} ELSE HoldersOf(c) \ {i}
          /\ UNCHANGED <<passes, cardTaps>>
      BY <2>2, <2>16, SetCardFacts
    <3>2. Keeps
      BY <2>16, <3>1
    <3>3. Guarded => OneHolds'
      BY <2>16, <3>1, CardsAssumption DEF OneHolds, CardInv
    <3>4. QED
      BY <2>2, <2>5, <2>6, <2>16, <3>1, <3>2, <3>3
  <2>17. Op(p) \in {"card-set", "card-force", "card-clear"} => ~Settled
    BY DEF Settled, NoneOf
  <2>18. CASE TakeCard(p)
    <3>1. Op(p) = "card-force" /\ pc[p] = "clear" /\ SetCard(copy[p], Nothing) /\ pc'[p] = "write"
      BY <2>1, <2>18, GoFacts DEF TakeCard, At
    <3>2. Row(p)[2] \in Cards /\ Row(p)[2] # Nothing
      BY <2>4, <3>1, CardsAssumption
    <3>3. HoldersOf(Row(p)[2])' = HoldersOf(Row(p)[2]) \ {copy[p]}
      BY <2>2, <3>1, <3>2, SetCardFacts DEF Row
    <3>4. CardProc(p)'
      BY <2>1, <3>1, <3>3 DEF CardProc, NoneOf, Row, Op
    <3>5. QED
      BY <2>16, <2>17, <3>1, <3>4
  <2>19. CASE GiveCard(p)
    <3>1. Op(p) \in {"card-set", "card-force"} /\ pc[p] = "write" /\ pc'[p] = "done"
      BY <2>1, <2>19, GoFacts DEF GiveCard, Return, At
    <3>2. Row(p)[2] \in Cards
      BY <2>4, <3>1
    <3>3. CardProc(p)'
      BY <3>1 DEF CardProc, Op
    <3>4. CASE Clash(Row(p)[1], Row(p)[2])
      BY <2>7, <2>19, <3>3, <3>4 DEF GiveCard, cardVars
    <3>5. CASE ~Clash(Row(p)[1], Row(p)[2])
      <4>1. SetCard(Row(p)[1], Row(p)[2])
        BY <2>19, <3>5 DEF GiveCard
      <4>2. Guarded => HoldersOf(Row(p)[2]) \subseteq {Row(p)[1]}
        <5>1. CASE build = "postgres"
          BY <3>5, <5>1 DEF Clash
        <5>2. CASE build = "memory" /\ NoneOf({"card-set"})
          <6>1. Op(p) = "card-force"
            BY <3>1, <5>2 DEF NoneOf
          <6>2. QED
            BY <2>1, <3>1, <5>2, <6>1 DEF CardProc
        <5>3. QED
          BY <2>1, <5>1, <5>2, BuildsAssumption DEF Guarded, ProcOk
      <4>3. QED
        BY <2>16, <2>17, <3>1, <3>2, <3>3, <4>1, <4>2
    <3>6. QED
      BY <3>4, <3>5
  <2>20. CASE ClearCard(p)
    <3>1. Op(p) = "card-clear"
      BY <2>20 DEF ClearCard, At
    <3>2. CardProc(p)'
      BY <3>1 DEF CardProc, Op
    <3>3. QED
      BY <2>7, <2>16, <2>17, <2>20, <3>1, <3>2 DEF ClearCard, cardVars
  <2>21. QED
    BY <1>1, <2>8, <2>10, <2>11, <2>12, <2>13, <2>14, <2>15, <2>18, <2>19, <2>20 DEF CardStep
<1>2. CASE UNCHANGED cardVars /\ Elsewhere(CardOps)
  <2>1. Office' /\ build' = build /\ cast' = cast
    BY <1>2, ElsewhereOffice DEF CardInv
  <2>2. (Guarded' <=> Guarded) /\ (Settled' <=> Settled) /\ UNCHANGED <<attendees, passes, cardTaps>>
    BY <1>2, <2>1 DEF Guarded, Settled, NoneOf, Op, cardVars
  <2>3. ASSUME NEW p \in cast PROVE CardProc(p)'
    <3>1. \/ pc'[p] = pc[p] /\ copy'[p] = copy[p]
          \/ pc'[p] \in {"asleep", "start", "done"}
          \/ Op(p) \notin CardOps
      BY <1>2, <2>3, ElsewhereFacts DEF CardInv
    <3>2. CardProc(p)
      BY <2>3 DEF CardInv
    <3>3. QED
      BY <2>1, <2>2, <3>1, <3>2 DEF CardProc, CardOps, HoldersOf, NoneOf, Op, Row
  <2>4. QED
    BY <2>1, <2>2, <2>3 DEF CardInv, OneHolds, HoldersOf, TapsFit
<1>3. QED
  BY <1>1, <1>2, CardCases

(* A card has one holder, as long as the memory build gives it to nobody   *)
(* without force; and as long as no card changes hands, all the taps of a  *)
(* card are of one attendee, those included that enrolled him.             *)
THEOREM OneHolder == Spec => []CardsInStep
<1>1. CardInv => CardsInStep
  <2> SUFFICES ASSUME CardInv PROVE CardsInStep
    OBVIOUS
  <2>1. ASSUME Guarded, NEW c \in Cards PROVE Cardinality(HoldersOf(c)) <= 1
    <3>1. OneHolds
      BY <2>1 DEF CardInv
    <3>2. CASE HoldersOf(c) = {}
      <4>1. Cardinality(HoldersOf(c)) = 0
        BY <3>2, FS_EmptySet
      <4>2. QED
        BY <4>1
    <3>3. CASE HoldersOf(c) # {}
      <4>1. PICK i : HoldersOf(c) = {i}
        BY <3>1, <3>3 DEF OneHolds
      <4>2. Cardinality(HoldersOf(c)) = 1
        BY <4>1, FS_Singleton
      <4>3. QED
        BY <4>2
    <3>4. QED
      BY <3>2, <3>3
  <2>2. ASSUME Settled, NEW t \in cardTaps, NEW u \in cardTaps, t.card = u.card
        PROVE  t.holder = u.holder
    <3>1. OneHolds
      BY <2>2 DEF CardInv, Guarded, Settled, NoneOf
    <3>2. t.card \in Cards /\ t.holder \in HoldersOf(t.card) /\ u.holder \in HoldersOf(t.card)
      BY <2>2 DEF CardInv, TapsFit, HoldersOf
    <3>3. QED
      BY <3>1, <3>2 DEF OneHolds
  <2>3. QED
    BY <2>1, <2>2 DEF CardsInStep, Guarded, Settled
<1>2. QED
  BY <1>1, CardStart, CardsStep, PTL DEF Spec


-----------------------------------------------------------------------------
(* Incidents.  What an organizer is about to write back is the incident    *)
(* with the same cursor; and as long as he is the only one to write, it    *)
(* holds all that was written on it.                                       *)
Reported == [cursor  : {Row(p) : p \in UNION Casts}, status : {"open", "resolved", "escalated"},
             notes   : SUBSET UNION Casts,
             history : Seq({"open", "resolved", "escalated"} \X {"open", "resolved", "escalated"}),
             runbook : (UNION Casts) \cup {Nothing}]

Covers(old, new) == old.notes \subseteq new.notes /\ SeqX!IsPrefix(old.history, new.history)

Exclusive == build = "memory" \/ OneOrganizer

FieldProc(p) ==
  /\ build = "memory" /\ Op(p) = "incident-sync" /\ pc[p] = "create" => ~StoredIncident(Row(p))
  /\ Op(p) \in Organizing /\ pc[p] = "write" =>
       /\ Row(p) \in DOMAIN incidents
       /\ copy[p] \in Reported /\ copy[p].cursor = incidents[Row(p)].cursor
       /\ Exclusive => Covers(incidents[Row(p)], copy[p])

OnePerCursor == \A i, j \in DOMAIN incidents : incidents[i].cursor = incidents[j].cursor => i = j

FieldInv == Office /\ incidents \in Seq(Reported) /\ OnePerCursor /\ \A p \in cast : FieldProc(p)

WorkStays == Exclusive => \A i \in DOMAIN incidents : Covers(incidents[i], incidents'[i])

LEMMA FieldCases ==
  ASSUME [Next]_vars
  PROVE  \/ \E p \in cast : FieldStep(p) /\ Op(p) \in FieldOps /\ Acts(p)
         \/ UNCHANGED fieldVars /\ Elsewhere(FieldOps)
BY StepCases DEF Mine, Next, SessionsEnd, OtherClocks, Restarted, EndPasses, Lapse, GoStale,
   LinkLapses, vars, groundVars, Elsewhere

LEMMA FieldStart == Init => FieldInv
<1> SUFFICES ASSUME Init PROVE FieldInv
  OBVIOUS
<1>1. Office /\ \A p \in cast : pc[p] \in {"asleep", "start"}
  BY ThreadInit, ProcStart DEF Init
<1>2. incidents = <<>>
  BY DEF Init, FieldInit
<1>3. QED
  BY <1>1, <1>2 DEF FieldInv, FieldProc, OnePerCursor

(* A sequence is a prefix of itself and of what it is continued with.      *)
LEMMA PrefixSelf ==
  ASSUME NEW S, NEW h \in Seq(S)
  PROVE  SeqX!IsPrefix(h, h)
BY DEF SeqX!IsPrefix

LEMMA PrefixAppend ==
  ASSUME NEW S, NEW h \in Seq(S), NEW e \in S
  PROVE  Append(h, e) \in Seq(S) /\ SeqX!IsPrefix(h, Append(h, e))
<1>1. /\ Append(h, e) \in Seq(S) /\ Len(Append(h, e)) = Len(h) + 1
      /\ \A i \in 1 .. Len(h) : Append(h, e)[i] = h[i]
  BY AppendProperties
<1>2. SubSeq(h, 1, Len(h)) = SubSeq(Append(h, e), 1, Len(h))
  BY <1>1
<1>3. QED
  BY <1>1, <1>2 DEF SeqX!IsPrefix

LEMMA CoversSelf ==
  ASSUME NEW row \in Reported
  PROVE  Covers(row, row)
<1> DEFINE pairs == {"open", "resolved", "escalated"} \X {"open", "resolved", "escalated"}
<1>1. row.history \in Seq(pairs)
  BY DEF Reported
<1> HIDE DEF pairs
<1>2. SeqX!IsPrefix(row.history, row.history)
  BY <1>1, PrefixSelf
<1>3. QED
  BY <1>2 DEF Covers

(* What organizers do to an incident adds to it.                           *)
LEMMA WorkedFacts ==
  ASSUME NEW p \in UNION Casts, NEW row \in Reported, Op(p) \in Organizing
  PROVE  /\ Worked(p, row) \in Reported /\ Worked(p, row).cursor = row.cursor
         /\ Covers(row, row) /\ Covers(row, Worked(p, row))
<1> DEFINE statuses == {"open", "resolved", "escalated"}
           pairs    == statuses \X statuses
<1>1. row.history \in Seq(pairs) /\ row.status \in statuses
  BY DEF Reported
<1>2. ASSUME NEW status \in statuses
      PROVE  /\ Append(row.history, <<row.status, status>>) \in Seq(pairs)
             /\ SeqX!IsPrefix(row.history, Append(row.history, <<row.status, status>>))
  <2>1. <<row.status, status>> \in pairs
    BY <1>1, <1>2
  <2> HIDE DEF pairs
  <2>2. QED
    BY <1>1, <2>1, PrefixAppend
<1>3. Covers(row, row)
  BY CoversSelf
<1>4. ASSUME NEW status \in {"resolved", "escalated"}
      PROVE  /\ MovedTo(row, status, p) \in Reported
             /\ MovedTo(row, status, p).cursor = row.cursor
             /\ Covers(row, MovedTo(row, status, p))
  <2> DEFINE longer == Append(row.history, <<row.status, status>>)
  <2>1. longer \in Seq(pairs) /\ SeqX!IsPrefix(row.history, longer)
    BY <1>2
  <2>2. MovedTo(row, status, p) =
          [cursor |-> row.cursor, status |-> status, notes |-> row.notes \cup {p},
           history |-> longer, runbook |-> row.runbook]
    <3>1. MovedTo(row, status, p) =
            [row EXCEPT !.status = status, !.history = longer, !.notes = row.notes \cup {p}]
      BY DEF MovedTo, Noted, Reported
    <3> HIDE DEF longer
    <3>2. QED
      BY <3>1 DEF Reported
  <2> HIDE DEF longer
  <2>3. MovedTo(row, status, p) \in Reported
    <3>1. /\ row.cursor \in {Row(q) : q \in UNION Casts} /\ row.notes \cup {p} \in SUBSET UNION Casts
          /\ row.runbook \in (UNION Casts) \cup {Nothing}
      BY DEF Reported
    <3>2. QED
      BY <2>1, <2>2, <3>1 DEF Reported
  <2>4. /\ MovedTo(row, status, p).cursor = row.cursor /\ MovedTo(row, status, p).history = longer
        /\ MovedTo(row, status, p).notes = row.notes \cup {p}
    BY <2>2 DEF Reported
  <2>5. QED
    BY <2>1, <2>3, <2>4 DEF Covers
<1>5. /\ Noted(row, p) \in Reported /\ Noted(row, p).cursor = row.cursor
      /\ Noted(row, p).history = row.history /\ row.notes \subseteq Noted(row, p).notes
  BY DEF Noted, Reported
<1>6. /\ [row EXCEPT !.runbook = p] \in Reported
      /\ Noted([row EXCEPT !.runbook = p], p) \in Reported
      /\ Noted([row EXCEPT !.runbook = p], p).cursor = row.cursor
      /\ Noted([row EXCEPT !.runbook = p], p).history = row.history
      /\ row.notes \subseteq Noted([row EXCEPT !.runbook = p], p).notes
  BY DEF Noted, Reported
<1>7. CASE Op(p) \in {"annotate", "runbook"}
  BY <1>1, <1>3, <1>5, <1>6, <1>7 DEF Worked, Covers
<1>8. CASE Op(p) \in {"escalate", "resolve"}
  BY <1>3, <1>4, <1>8 DEF Worked
<1>9. QED
  BY <1>7, <1>8 DEF Organizing

(* Two organizers are one where there is one. *)
LEMMA SameOrganizer ==
  ASSUME NEW p \in cast, NEW q \in cast, cast \in Casts, OneOrganizer,
         Op(p) \in Organizing, Op(q) \in Organizing
  PROVE  p = q
<1> DEFINE all == {r \in cast : Op(r) \in Organizing}
<1>1. IsFiniteSet(all)
  BY BuildsAssumption, FS_Subset
<1>2. Cardinality(all) \in Nat /\ Cardinality(all) <= 1
  BY <1>1, FS_CardinalityType DEF OneOrganizer
<1>3. p \in all /\ q \in all
  OBVIOUS
<1> HIDE DEF all
<1>4. Cardinality(all) # 0
  BY <1>1, <1>3, FS_EmptySet
<1>5. Cardinality(all) = 1
  BY <1>2, <1>4
<1>6. \E x : all = {x}
  BY <1>1, <1>5, FS_Singleton
<1>7. QED
  BY <1>3, <1>6


LEMMA FieldsStep == FieldInv /\ [Next]_vars => FieldInv' /\ WorkStays
<1> SUFFICES ASSUME FieldInv, [Next]_vars PROVE FieldInv' /\ WorkStays
  OBVIOUS
<1>1. /\ incidents \in Seq(Reported) /\ OnePerCursor
      /\ DOMAIN incidents = 1 .. Len(incidents) /\ Len(incidents) \in Nat
      /\ \A i \in DOMAIN incidents : incidents[i] \in Reported /\ Covers(incidents[i], incidents[i])
  BY CoversSelf DEF FieldInv
<1>2. ASSUME NEW p \in cast, FieldStep(p), Op(p) \in FieldOps, Acts(p)
      PROVE  FieldInv' /\ WorkStays
  <2>1. /\ Office' /\ build' = build /\ cast' = cast /\ ProcOk /\ FieldProc(p) /\ p \in UNION Casts
        /\ cast \in Casts /\ build \in {"memory", "postgres"}
        /\ \A q \in cast : q # p => pc'[q] = pc[q] /\ copy'[q] = copy[q]
    BY <1>2, ActsFacts, BuildsAssumption DEF FieldInv, Office, ProcOk
  <2>2. Exclusive' <=> Exclusive
    BY <2>1 DEF Exclusive, OneOrganizer, Op
  (* What the others hold fits the incidents afterwards, so long as they   *)
  (* keep the cursor, and while one organizer is at work, what is on them. *)
  <2>3. ASSUME incidents' \in Seq(Reported), OnePerCursor', FieldProc(p)',
               \A i \in DOMAIN incidents :
                 i \in DOMAIN incidents' /\ incidents'[i].cursor = incidents[i].cursor,
               \/ \A i \in DOMAIN incidents : incidents'[i] = incidents[i]
               \/ Op(p) \in Organizing
        PROVE  FieldInv'
    <3>1. ASSUME NEW q \in cast, q # p PROVE FieldProc(q)'
      <4>1. FieldProc(q) /\ pc'[q] = pc[q] /\ copy'[q] = copy[q]
        BY <2>1, <3>1 DEF FieldInv
      <4>2. build = "memory" => pc[q] \in Outside \/ Op(q) \in Immediate
        BY <1>2, <3>1, Undisturbed
      <4>3. ASSUME Op(q) \in Organizing, pc[q] = "write"
            PROVE  /\ Row(q) \in DOMAIN incidents'
                   /\ copy[q] \in Reported /\ copy[q].cursor = incidents'[Row(q)].cursor
                   /\ Exclusive => Covers(incidents'[Row(q)], copy[q])
        <5>1. build # "memory"
          BY <4>2, <4>3 DEF Outside, Immediate, Organizing
        <5>2. Exclusive => Op(p) \notin Organizing
          BY <2>1, <3>1, <4>3, <5>1, SameOrganizer DEF Exclusive
        <5>3. QED
          BY <2>3, <4>1, <4>3, <5>2 DEF FieldProc
      <4>4. build = "memory" => ~(Op(q) = "incident-sync" /\ pc[q] = "create")
        BY <4>2 DEF Outside, Immediate
      <4>5. QED
        BY <2>1, <2>2, <4>1, <4>3, <4>4 DEF FieldProc, Op, Row
    <3>2. QED
      BY <2>1, <2>3, <3>1 DEF FieldInv
  <2>4. ASSUME UNCHANGED incidents, FieldProc(p)' PROVE FieldInv' /\ WorkStays
    <3>1. OnePerCursor'
      BY <1>1, <2>4 DEF OnePerCursor
    <3>2. QED
      BY <1>1, <2>3, <2>4, <3>1 DEF WorkStays
  <2>5. CASE FetchReport(p)
    <3>1. UNCHANGED incidents /\ Op(p) \in Syncs /\ pc'[p] = "io"
      BY <2>1, <2>5, GoFacts DEF FetchReport, fieldVars, At
    <3>2. FieldProc(p)'
      BY <3>1 DEF FieldProc
    <3>3. QED
      BY <2>4, <3>1, <3>2
  <2>6. CASE FindReport(p)
    <3>1. UNCHANGED incidents /\ Op(p) \in Syncs
      BY <2>6 DEF FindReport, fieldVars, At
    <3>2. pc'[p] = "done" \/ (pc'[p] = "create" /\ ~HasReport(p))
      BY <2>1, <2>6, GoFacts DEF FindReport, Return
    <3>3. FieldProc(p)'
      BY <3>1, <3>2 DEF FieldProc, HasReport, StoredIncident, Syncs, Organizing, Op, Row
    <3>4. QED
      BY <2>4, <3>1, <3>3
  <2>7. CASE StoreReport(p)
    <3>1. Op(p) \in Syncs /\ pc[p] = "create" /\ pc'[p] = "done"
      BY <2>1, <2>7, GoFacts DEF StoreReport, Return, At
    <3>2. FieldProc(p)'
      BY <3>1 DEF FieldProc
    <3>3. CASE UNCHANGED incidents
      BY <2>4, <3>2, <3>3
    <3>4. CASE ~UNCHANGED incidents
      <4>1. /\ Op(p) = "incident-sync" /\ ~(build = "postgres" /\ HasReport(p))
            /\ \E status \in {"open", "resolved"} : incidents' = Append(incidents, Incident(Row(p), status))
        BY <2>7, <3>4 DEF StoreReport, fieldVars
      <4>2. ~StoredIncident(Row(p))
        BY <2>1, <3>1, <4>1 DEF FieldProc, HasReport
      <4>3. PICK status \in {"open", "resolved"} :
              incidents' = Append(incidents, Incident(Row(p), status))
        BY <4>1
      <4> DEFINE new == Incident(Row(p), status)
      <4>4. new \in Reported /\ new.cursor = Row(p)
        <5>1. <<>> \in Seq({"open", "resolved", "escalated"} \X {"open", "resolved", "escalated"})
              /\ Row(p) \in {Row(q) : q \in UNION Casts}
          BY <2>1
        <5>2. QED
          BY <4>3, <5>1 DEF Incident, Reported
      <4>5. incidents' = Append(incidents, new)
        BY <4>3
      <4> HIDE DEF new
      <4>6. /\ incidents' \in Seq(Reported) /\ Len(incidents') = Len(incidents) + 1
            /\ \A i \in 1 .. Len(incidents) : incidents'[i] = incidents[i]
            /\ incidents'[Len(incidents) + 1] = new
        BY <1>1, <4>4, <4>5, AppendProperties
      <4>7. DOMAIN incidents' = DOMAIN incidents \cup {Len(incidents) + 1}
        BY <1>1, <4>6
      <4>8. OnePerCursor'
        BY <1>1, <4>2, <4>4, <4>6, <4>7 DEF OnePerCursor, StoredIncident
      <4>9. \A i \in DOMAIN incidents : i \in DOMAIN incidents' /\ incidents'[i] = incidents[i]
        BY <1>1, <4>6, <4>7
      <4>10. QED
        BY <1>1, <2>3, <3>2, <4>6, <4>8, <4>9 DEF WorkStays
    <3>5. QED
      BY <3>3, <3>4
  <2>8. CASE Beat(p)
    <3>1. UNCHANGED incidents /\ Op(p) = "beat"
      BY <2>8 DEF Beat, At
    <3>2. FieldProc(p)'
      BY <3>1 DEF FieldProc, Organizing, Op
    <3>3. QED
      BY <2>4, <3>1, <3>2
  <2>9. CASE ReadIncident(p)
    <3>1. UNCHANGED incidents /\ Op(p) \in Organizing
      BY <2>9 DEF ReadIncident, fieldVars, At
    <3>2. \/ pc'[p] = "done"
          \/ Row(p) \in DOMAIN incidents /\ copy'[p] = Worked(p, incidents[Row(p)])
      BY <2>1, <2>9, GoFacts DEF ReadIncident, Return
    <3>3. CASE pc'[p] = "done"
      <4>1. FieldProc(p)'
        BY <3>3 DEF FieldProc
      <4>2. QED
        BY <2>4, <3>1, <4>1
    <3>4. CASE Row(p) \in DOMAIN incidents /\ copy'[p] = Worked(p, incidents[Row(p)])
      <4>1. /\ copy'[p] \in Reported /\ copy'[p].cursor = incidents[Row(p)].cursor
            /\ Covers(incidents[Row(p)], copy'[p])
        BY <1>1, <2>1, <3>1, <3>4, WorkedFacts
      <4>2. Op(p) # "incident-sync"
        BY <3>1 DEF Organizing
      <4>3. FieldProc(p)'
        BY <3>1, <3>4, <4>1, <4>2 DEF FieldProc, Op, Row
      <4>4. QED
        BY <2>4, <3>1, <4>3
    <3>5. QED
      BY <3>2, <3>3, <3>4
  <2>10. CASE WriteIncident(p)
    <3>1. Op(p) \in Organizing /\ pc[p] = "write" /\ pc'[p] = "done"
      BY <2>1, <2>10, GoFacts DEF WriteIncident, Return, At
    <3>2. FieldProc(p)'
      BY <3>1 DEF FieldProc
    <3>3. CASE UNCHANGED incidents
      BY <2>4, <3>2, <3>3
    <3>4. CASE incidents' = [incidents EXCEPT ![Row(p)] = copy[p]]
      <4>1. /\ Row(p) \in DOMAIN incidents /\ copy[p] \in Reported
            /\ copy[p].cursor = incidents[Row(p)].cursor
            /\ Exclusive => Covers(incidents[Row(p)], copy[p])
        BY <2>1, <3>1 DEF FieldProc
      <4>2. /\ incidents' \in Seq(Reported) /\ Len(incidents') = Len(incidents)
            /\ \A i \in 1 .. Len(incidents) :
                 incidents'[i] = IF i = Row(p) THEN copy[p] ELSE incidents[i]
        BY <1>1, <3>4, <4>1, ExceptSeq
      <4>3. DOMAIN incidents' = DOMAIN incidents
        BY <1>1, <4>2
      <4>4. \A i \in DOMAIN incidents : incidents'[i].cursor = incidents[i].cursor
        BY <1>1, <4>1, <4>2
      <4>5. OnePerCursor'
        BY <1>1, <4>3, <4>4 DEF OnePerCursor
      <4>6. WorkStays
        BY <1>1, <4>1, <4>2 DEF WorkStays
      <4>7. QED
        BY <2>3, <3>1, <3>2, <4>2, <4>3, <4>4, <4>5, <4>6
    <3>5. QED
      BY <2>10, <3>3, <3>4 DEF WriteIncident
  <2>11. QED
    BY <1>2, <2>5, <2>6, <2>7, <2>8, <2>9, <2>10 DEF FieldStep
<1>3. CASE UNCHANGED fieldVars /\ Elsewhere(FieldOps)
  <2>1. Office' /\ build' = build /\ cast' = cast /\ UNCHANGED incidents
    BY <1>3, ElsewhereOffice DEF FieldInv, fieldVars
  <2>2. (Exclusive' <=> Exclusive)
    BY <2>1 DEF Exclusive, OneOrganizer, Op
  <2>3. ASSUME NEW p \in cast PROVE FieldProc(p)'
    <3>1. \/ pc'[p] = pc[p] /\ copy'[p] = copy[p]
          \/ pc'[p] \in {"asleep", "start", "done"}
          \/ Op(p) \notin FieldOps
      BY <1>3, <2>3, ElsewhereFacts DEF FieldInv
    <3>2. FieldProc(p)
      BY <2>3 DEF FieldInv
    <3>3. QED
      BY <2>1, <2>2, <3>1, <3>2 DEF FieldProc, FieldOps, Syncs, StoredIncident, Op, Row
  <2>4. OnePerCursor' /\ WorkStays
    BY <1>1, <2>1 DEF OnePerCursor, WorkStays
  <2>5. QED
    BY <2>1, <2>3, <2>4 DEF FieldInv
<1>4. QED
  BY <1>2, <1>3, FieldCases

(* However often the platform delivers an incident there is one of it, and *)
(* what an organizer wrote on it stays.                                    *)
THEOREM WorkOnIncidentsStays == Spec => IncidentsKept
<1> DEFINE Kept ==
  /\ \A i, j \in DOMAIN incidents' : incidents'[i].cursor = incidents'[j].cursor => i = j
  /\ build = "memory" \/ OneOrganizer =>
       \A i \in DOMAIN incidents :
         /\ incidents[i].notes \subseteq incidents'[i].notes
         /\ SeqX!IsPrefix(incidents[i].history, incidents'[i].history)
<1>1. FieldInv /\ [Next]_vars => [Kept]_vars
  <2>1. FieldInv' => \A i, j \in DOMAIN incidents' : incidents'[i].cursor = incidents'[j].cursor => i = j
    BY DEF FieldInv, OnePerCursor
  <2>2. QED
    BY <2>1, FieldsStep DEF WorkStays, Exclusive, Covers
<1>2. QED
  BY <1>1, FieldStart, FieldsStep, PTL DEF Spec, IncidentsKept


-----------------------------------------------------------------------------
(* The operations of the IoT integration.  A run that is open is that of a *)
(* process on its way through the stages.  If nobody else routes alerts,   *)
(* what the run has noted of health and parity is what was stored, and     *)
(* once its alerts are resolved, those that are open and those that it has *)
(* still to raise are those of what is wrong.                              *)
Level == {"healthy", "warning", "critical", "failed"}

PlanFields == {"run", "at", "failed", "row", "result", "health", "parity"}

OnPlan(c) ==
  /\ DOMAIN c = PlanFields
  /\ c.run \in Nat /\ c.at \in 1 .. Len(Stages) /\ c.result # "webhook"
  /\ c.health \in Level \cup {Nothing} /\ c.parity \in {"passed", "failed", Nothing}

OnHook(c) == DOMAIN c = {"todo", "alert", "result"} /\ c.result = "webhook"

InStages(p) == pc[p] \in {"open", "save", "finish"} \/ (pc[p] = "io" /\ OnPlan(copy[p]))
InAlerts(p) == pc[p] \in {"raise", "note"} \/ (pc[p] = "io" /\ OnHook(copy[p]))

Wrong(code) ==
  \/ code = "IOT_RUN_FAILED" /\ runs[Len(runs)] = "failed"
  \/ code = "IOT_HEALTH_CRITICAL" /\ health \in {"critical", "failed"}
  \/ code = "IOT_PARITY_FAILED" /\ parity = "failed"

IotProc(p) ==
  Op(p) \in IotOps =>
    /\ pc[p] \in {"open", "save", "finish"} => OnPlan(copy[p])
    /\ pc[p] = "io" => OnHook(copy[p]) \/ (OnPlan(copy[p]) /\ Stages[copy[p].at] # "health")
    /\ pc[p] = "save" /\ Stages[copy[p].at] = "health" => copy[p].row \in Level
    /\ pc[p] \in {"route", "raise", "note"} \/ (pc[p] = "io" /\ OnHook(copy[p])) =>
         copy[p].todo \subseteq Codes
    /\ pc[p] = "note" => DOMAIN copy[p] = {"todo", "alert"}
    /\ pc[p] \in {"asleep", "start", "io", "open", "save", "finish", "route", "raise", "note",
                    "done"}

Sole(p) == /\ restarts = 0 /\ Op(p) = "iot-run"
           /\ \A q \in cast \ {p} : Op(q) \notin IotOps

AlertProc(p) ==
  Sole(p) =>
    /\ pc[p] # "start" => runs # <<>>
    /\ pc[p] = "start" /\ runs # <<>> => \A code \in Codes : OpenFor(code) <=> Wrong(code)
    /\ InStages(p) => copy[p].run = Len(runs)
    /\ InStages(p) /\ copy[p].at = Len(Stages) => copy[p].health = health
    /\ pc[p] = "finish" => copy[p].health = health /\ copy[p].parity = parity
    /\ pc[p] = "route" => \A code \in Codes : code \in copy[p].todo <=> Wrong(code)
    /\ InAlerts(p) => \A code \in Codes : OpenFor(code) \/ code \in copy[p].todo <=> Wrong(code)
    /\ pc[p] = "note" \/ (pc[p] = "io" /\ OnHook(copy[p])) =>
         copy[p].alert \in DOMAIN alerts /\ alerts[copy[p].alert].open
    /\ pc[p] # "done"

OpenRuns ==
  \A i \in DOMAIN runs :
    runs[i] = "running" =>
      restarts # 0 \/ \E p \in cast : Op(p) = "iot-run" /\ InStages(p) /\ copy[p].run = i

Alert == [code : Codes, open : BOOLEAN]

IotInv ==
  /\ Office /\ runs \in Seq(RunStatuses)
  /\ health \in Level \cup {Nothing} /\ parity \in {"passed", "failed", Nothing}
  /\ OpenRuns
  /\ alerts \in Seq(Alert)
  /\ \A p \in cast : IotProc(p) /\ AlertProc(p)

LEMMA IotCases ==
  ASSUME [Next]_vars
  PROVE  \/ \E p \in cast : IotStep(p) /\ Op(p) \in IotOps /\ Acts(p)
         \/ \E s \in DOMAIN points : GoStale(s)
         \/ UNCHANGED iotVars /\ Elsewhere(IotOps)
BY StepCases DEF Mine, Next, SessionsEnd, OtherClocks, Restarted, EndPasses, Lapse,
   LinkLapses, vars, systemVars, Elsewhere

LEMMA IotStart == Init => IotInv
<1> SUFFICES ASSUME Init PROVE IotInv
  OBVIOUS
<1>1. Office /\ \A p \in cast : pc[p] \in {"asleep", "start"}
  BY ThreadInit, ProcStart DEF Init
<1>2. \A p \in cast : pc[p] = "start"
  BY DEF Init, ProcInit
<1>3. runs = <<>> /\ alerts = <<>> /\ health = Nothing /\ parity = Nothing
  BY DEF Init, IotInit
<1>4. QED
  BY <1>1, <1>2, <1>3 DEF IotInv, IotProc, AlertProc, OpenRuns, InStages, InAlerts

(* The stages of a run: the last two are the health and the parity.        *)
LEMMA StagesFacts ==
  /\ Len(Stages) \in Nat /\ Len(Stages) >= 4
  /\ Stages[1] = "certify" /\ Stages[Len(Stages) - 1] = "health" /\ Stages[Len(Stages)] = "parity"
<1> DEFINE names == STRING \cup {"certify", "devices", "health", "parity"}
           first == <<"certify">>
           last  == <<"devices", "health", "parity">>
<1>1. /\ first \in Seq(names) /\ Len(first) = 1 /\ first[1] = "certify"
      /\ last \in Seq(names) /\ Len(last) = 3 /\ last[2] = "health" /\ last[3] = "parity"
  OBVIOUS
<1>2. Streams \in Seq(names) /\ Len(Streams) \in Nat
  BY IotAssumption
<1>3. Stages = first \o Streams \o last
  BY DEF Stages
<1> HIDE DEF names, first, last
<1>4. /\ first \o Streams \in Seq(names) /\ Len(first \o Streams) = 1 + Len(Streams)
      /\ (first \o Streams)[1] = "certify"
  <2>1. /\ first \o Streams \in Seq(names) /\ Len(first \o Streams) = Len(first) + Len(Streams)
        /\ \A i \in 1 .. Len(first) + Len(Streams) :
             (first \o Streams)[i] = IF i <= Len(first) THEN first[i] ELSE Streams[i - Len(first)]
    BY <1>1, <1>2, ConcatProperties
  <2>2. QED
    BY <1>1, <1>2, <2>1
<1> DEFINE begun == first \o Streams
<1> HIDE DEF begun
<1>5. /\ Len(Stages) = 4 + Len(Streams)
      /\ \A i \in 1 .. Len(Stages) :
           Stages[i] = IF i <= 1 + Len(Streams) THEN begun[i] ELSE last[i - (1 + Len(Streams))]
  <2>1. /\ begun \o last \in Seq(names) /\ Len(begun \o last) = Len(begun) + Len(last)
        /\ \A i \in 1 .. Len(begun) + Len(last) :
             (begun \o last)[i] = IF i <= Len(begun) THEN begun[i] ELSE last[i - Len(begun)]
    BY <1>1, <1>4, ConcatProperties DEF begun
  <2>2. Stages = begun \o last /\ Len(begun) = 1 + Len(Streams)
    BY <1>3, <1>4 DEF begun
  <2>3. QED
    BY <1>1, <1>2, <2>1, <2>2
<1>6. Stages[1] = "certify"
  BY <1>2, <1>4, <1>5 DEF begun
<1>7. /\ Len(Stages) - 1 = 1 + Len(Streams) + 2 /\ Len(Stages) = 1 + Len(Streams) + 3
      /\ Len(Stages) \in Nat /\ Len(Stages) >= 4
  BY <1>2, <1>5
<1>8. Stages[Len(Stages) - 1] = last[2] /\ Stages[Len(Stages)] = last[3]
  BY <1>2, <1>5, <1>7
<1>9. QED
  BY <1>1, <1>6, <1>7, <1>8

(* The worst of the warnings is a level, whatever they are.                *)
LEMMA WorstFacts ==
  ASSUME NEW W
  PROVE  Worst(W) \in Level
<1> DEFINE Is(i) == /\ Levels[i] \in W \cup {"healthy"}
                    /\ \A j \in 1 .. 4 : Levels[j] \in W => j <= i
<1>1. /\ Levels[1] = "healthy" /\ Levels[2] = "warning" /\ Levels[3] = "critical"
      /\ Levels[4] = "failed"
  BY DEF Levels
<1>2. \E i \in 1 .. 4 : Is(i)
  <2>1. CASE Levels[4] \in W
    BY <2>1
  <2>2. CASE Levels[4] \notin W /\ Levels[3] \in W
    BY <2>2
  <2>3. CASE Levels[4] \notin W /\ Levels[3] \notin W /\ Levels[2] \in W
    BY <2>3
  <2>4. CASE Levels[4] \notin W /\ Levels[3] \notin W /\ Levels[2] \notin W
    BY <1>1, <2>4
  <2>5. QED
    BY <2>1, <2>2, <2>3, <2>4
<1> DEFINE k == CHOOSE i \in 1 .. 4 : Is(i)
<1>3. k \in 1 .. 4
  BY <1>2
<1>4. Worst(W) = Levels[k]
  BY DEF Worst
<1> HIDE DEF k
<1>5. QED
  BY <1>1, <1>3, <1>4 DEF Level


LEMMA PlanOrHook ==
  ASSUME NEW c
  PROVE  ~(OnPlan(c) /\ OnHook(c))
BY DEF OnPlan, OnHook, PlanFields

LEMMA IotsStep == IotInv /\ [Next]_vars => IotInv'
<1> SUFFICES ASSUME IotInv, [Next]_vars PROVE IotInv'
  OBVIOUS
<1>1. ASSUME NEW p \in cast, IotStep(p), Op(p) \in IotOps, Acts(p)
      PROVE  IotInv'
  <2>1. /\ Office' /\ build' = build /\ cast' = cast /\ restarts' = restarts /\ ProcOk
        /\ IotProc(p) /\ AlertProc(p)
        /\ \A q \in cast : q # p => pc'[q] = pc[q] /\ copy'[q] = copy[q]
    BY <1>1, ActsFacts DEF IotInv, Office
  <2>2. /\ runs \in Seq(RunStatuses) /\ alerts \in Seq(Alert) /\ OpenRuns
        /\ health \in Level \cup {Nothing} /\ parity \in {"passed", "failed", Nothing}
        /\ DOMAIN runs = 1 .. Len(runs) /\ Len(runs) \in Nat
    BY DEF IotInv
  <2>3. Sole(p)' <=> Sole(p)
    BY <2>1 DEF Sole, Op
  <2>4. ASSUME runs' \in Seq(RunStatuses), alerts' \in Seq(Alert), OpenRuns',
               health' \in Level \cup {Nothing}, parity' \in {"passed", "failed", Nothing},
               IotProc(p)', AlertProc(p)'
        PROVE  IotInv'
    <3>1. ASSUME NEW q \in cast, q # p PROVE IotProc(q)' /\ AlertProc(q)'
      <4>1. IotProc(q) /\ pc'[q] = pc[q] /\ copy'[q] = copy[q]
        BY <2>1, <3>1 DEF IotInv
      <4>2. IotProc(q)'
        BY <4>1 DEF IotProc, OnPlan, OnHook, Op
      <4>3. ~Sole(q)'
        BY <1>1, <2>1, <3>1 DEF Sole, Op
      <4>4. QED
        BY <4>2, <4>3 DEF AlertProc
    <3>2. QED
      BY <2>1, <2>4, <3>1 DEF IotInv
  (* As long as a run stays with its process it may stay open. *)
  <2>5. ASSUME UNCHANGED runs, InStages(p) => InStages(p)' /\ copy'[p].run = copy[p].run
        PROVE  OpenRuns'
    <3>1. \A q \in cast : InStages(q) => InStages(q)' /\ copy'[q].run = copy[q].run
      BY <2>1, <2>5 DEF InStages, OnPlan
    <3>2. QED
      BY <2>1, <2>2, <2>5, <3>1 DEF OpenRuns, Op
  <2>6. \A c : ~(OnPlan(c) /\ OnHook(c))
    BY PlanOrHook
  <2>7. CASE StartRun(p)
    <3> DEFINE c == [run |-> Len(runs) + 1, at |-> 1, failed |-> FALSE, row |-> Nothing,
                     result |-> Nothing, health |-> Nothing, parity |-> Nothing]
    <3>1. /\ Op(p) = "iot-run" /\ pc[p] = "start" /\ pc'[p] = "io" /\ copy'[p] = c
          /\ runs' = Append(runs, "running") /\ UNCHANGED <<health, parity, alerts>>
      BY <2>1, <2>7, GoFacts DEF StartRun, At
    <3>2. OnPlan(c) /\ c.run = Len(runs) + 1 /\ c.at = 1
      BY <2>2, StagesFacts, IotAssumption DEF OnPlan, PlanFields
    <3> HIDE DEF c
    <3>3. /\ runs' \in Seq(RunStatuses) /\ Len(runs') = Len(runs) + 1
          /\ \A i \in 1 .. Len(runs) : runs'[i] = runs[i]
      BY <2>2, <3>1, AppendProperties DEF RunStatuses
    <3>4. DOMAIN runs' = DOMAIN runs \cup {Len(runs) + 1}
      BY <2>2, <3>3
    <3>5. /\ InStages(p)' /\ copy'[p].run = Len(runs) + 1
          /\ \A q \in cast : Op(q) = "iot-run" /\ InStages(q)
               => q # p /\ InStages(q)' /\ copy'[q].run = copy[q].run
      BY <2>1, <3>1, <3>2 DEF InStages, OnPlan
    <3>6. OpenRuns'
      BY <2>1, <2>2, <3>1, <3>3, <3>4, <3>5 DEF OpenRuns, Op
    <3>7. IotProc(p)'
      BY <2>6, <3>1, <3>2, StagesFacts DEF IotProc, OnPlan, OnHook
    <3>8. AlertProc(p)'
      <4>1. ~InAlerts(p)' /\ ~OnHook(copy'[p]) /\ runs' # <<>>
        BY <2>2, <2>6, <3>1, <3>2, <3>3 DEF InAlerts, OnHook
      <4>2. copy'[p].at # Len(Stages)
        BY <3>1, <3>2, StagesFacts
      <4>3. QED
        BY <3>1, <3>3, <3>5, <4>1, <4>2 DEF AlertProc, OnHook
    <3>9. QED
      BY <2>2, <2>4, <3>1, <3>3, <3>6, <3>7, <3>8
  <2>8. CASE StartParity(p)
    <3> DEFINE c == [run |-> 0, at |-> Len(Stages), failed |-> FALSE, row |-> Nothing,
                     result |-> Nothing, health |-> Nothing, parity |-> Nothing]
    <3>1. /\ Op(p) = "iot-parity" /\ pc[p] = "start" /\ pc'[p] = "open" /\ copy'[p] = c
          /\ UNCHANGED <<runs, health, parity, alerts>>
      BY <2>1, <2>8, GoFacts DEF StartParity, At, iotVars
    <3>2. OnPlan(c)
      BY StagesFacts, IotAssumption DEF OnPlan, PlanFields
    <3> HIDE DEF c
    <3>3. IotProc(p)' /\ AlertProc(p)' /\ OpenRuns'
      BY <2>5, <3>1, <3>2 DEF IotProc, AlertProc, Sole, InStages, OnPlan, Op
    <3>4. QED
      BY <2>2, <2>4, <3>1, <3>3
  <2>9. CASE OpenStage(p)
    <3> DEFINE s == Stages[copy[p].at]
               v == CASE s \in {"certify", "parity"} -> cert
                      [] s = "health" -> OverallStatus
                      [] IsStream(s) -> points[s]
                      [] OTHER -> Nothing
    <3>1. /\ pc[p] = "open" /\ pc'[p] = (IF s \in {"certify", "health"} THEN "save" ELSE "io")
          /\ copy'[p] = [copy[p] EXCEPT !.row = v]
          /\ UNCHANGED <<runs, health, parity, alerts>>
      BY <2>1, <2>9, GoFacts DEF OpenStage, At, Stage, iotVars
    <3>2. OnPlan(copy[p])
      BY <1>1, <2>1, <3>1 DEF IotProc
    <3>3. s = "health" => v \in Level
      <4>1. OverallStatus \in Level
        BY WorstFacts DEF OverallStatus
      <4>2. ASSUME s = "health" PROVE v = OverallStatus
        <5>1. s \notin {"certify", "parity"} /\ ~IsStream(s)
          BY <4>2, IotAssumption DEF IsStream
        <5> HIDE DEF s
        <5>2. QED
          BY <4>2, <5>1
      <4>3. QED
        BY <4>1, <4>2
    <3> HIDE DEF v
    <3>4. /\ OnPlan(copy'[p]) /\ copy'[p].run = copy[p].run /\ copy'[p].at = copy[p].at
          /\ copy'[p].health = copy[p].health /\ copy'[p].parity = copy[p].parity /\ copy'[p].row = v
      BY <3>1, <3>2 DEF OnPlan, PlanFields
    <3>5. InStages(p) /\ InStages(p)'
      BY <3>1, <3>4 DEF InStages, OnPlan
    <3>6. IotProc(p)'
      BY <2>6, <3>1, <3>3, <3>4 DEF IotProc, OnPlan, OnHook
    <3>7. AlertProc(p)'
      <4>1. ~InAlerts(p)' /\ ~OnHook(copy'[p]) /\ pc'[p] \in {"save", "io"} /\ pc[p] # "start"
        BY <2>6, <3>1, <3>4 DEF InAlerts, OnHook
      <4>2. QED
        BY <2>1, <2>3, <3>1, <3>4, <3>5, <4>1 DEF AlertProc, OnHook
    <3>8. QED
      BY <2>2, <2>4, <2>5, <3>1, <3>4, <3>5, <3>6, <3>7
  <2>10. CASE AskPlatform(p)
    <3>1. PICK answer \in Answers(Stage(p)) :
            Go(p, IF Stage(p) = "certify" THEN "open" ELSE "save", [copy[p] EXCEPT !.result = answer])
      BY <2>10 DEF AskPlatform
    <3>2. /\ pc[p] = "io" /\ pc'[p] \in {"open", "save"} /\ copy[p].result = Nothing
          /\ copy'[p] = [copy[p] EXCEPT !.result = answer]
          /\ UNCHANGED <<runs, health, parity, alerts>>
      BY <2>1, <2>10, <3>1, GoFacts DEF AskPlatform, At, iotVars
    <3>3. OnPlan(copy[p]) /\ Stages[copy[p].at] # "health"
      BY <1>1, <2>1, <3>2, IotAssumption DEF IotProc, OnHook
    <3>4. /\ OnPlan(copy'[p]) /\ copy'[p].run = copy[p].run /\ copy'[p].at = copy[p].at
          /\ copy'[p].health = copy[p].health /\ copy'[p].parity = copy[p].parity
      BY <3>1, <3>2, <3>3 DEF OnPlan, PlanFields, Answers
    <3>5. InStages(p) /\ InStages(p)'
      BY <3>2, <3>3 DEF InStages
    <3>6. IotProc(p)'
      BY <3>2, <3>3, <3>4 DEF IotProc, OnPlan, OnHook
    <3>7. AlertProc(p)'
      <4>1. ~InAlerts(p)' /\ pc'[p] \in {"save", "open"} /\ pc[p] # "start"
        BY <3>2 DEF InAlerts
      <4>2. QED
        BY <2>1, <2>3, <3>2, <3>4, <3>5, <4>1 DEF AlertProc
    <3>8. QED
      BY <2>2, <2>4, <2>5, <3>2, <3>4, <3>5, <3>6, <3>7
  <2>11. CASE SaveStage(p)
    <3> DEFINE c == copy[p]
               s == Stages[c.at]
               d == [c EXCEPT !.failed = @ \/ Thrown(s, c),
                              !.health = IF s = "health" THEN c.row ELSE @,
                              !.parity = IF s = "parity" THEN Parity(c) ELSE @]
    <3>1. /\ pc[p] = "save" /\ AfterStage(p, d) /\ UNCHANGED <<runs, alerts>>
          /\ health' = (IF s = "health" THEN c.row ELSE health)
          /\ parity' = (IF s = "parity" THEN Parity(c) ELSE parity)
      BY <2>11 DEF SaveStage, At, Stage
    <3>2. /\ OnPlan(c) /\ c.at \in 1 .. Len(Stages) /\ (s = "health" => c.row \in Level)
          /\ Parity(c) \in {"passed", "failed"}
      BY <1>1, <2>1, <3>1 DEF IotProc, OnPlan, Parity
    <3>3. /\ OnPlan(d) /\ d.run = c.run /\ d.at = c.at
          /\ d.health = (IF s = "health" THEN c.row ELSE c.health)
          /\ d.parity = (IF s = "parity" THEN Parity(c) ELSE c.parity)
      BY <3>2 DEF OnPlan, PlanFields
    <3> HIDE DEF d
    <3>4. health' \in Level \cup {Nothing} /\ parity' \in {"passed", "failed", Nothing}
      BY <2>2, <3>1, <3>2
    <3>5. pc[p] # "start" /\ InStages(p)
      BY <3>1 DEF InStages
    <3>6. CASE d.at = Len(Stages)
      <4>1. pc'[p] = "finish" /\ copy'[p] = d
        BY <2>1, <3>1, <3>6, GoFacts DEF AfterStage
      <4>2. s = "parity" /\ s # "health"
        BY <3>3, <3>6, StagesFacts
      <4>3. InStages(p)' /\ ~InAlerts(p)'
        BY <4>1 DEF InStages, InAlerts
      <4>4. IotProc(p)'
        BY <3>3, <4>1 DEF IotProc, OnPlan
      <4>5. AlertProc(p)'
        BY <2>1, <2>3, <3>1, <3>3, <3>5, <3>6, <4>1, <4>2, <4>3 DEF AlertProc
      <4>6. QED
        BY <2>2, <2>4, <2>5, <3>1, <3>3, <3>4, <4>1, <4>3, <4>4, <4>5
    <3>7. CASE d.at # Len(Stages)
      <4> DEFINE i == NextStage(s, d)
      <4>1. /\ pc'[p] = Entry(i)
            /\ copy'[p] = [d EXCEPT !.at = i, !.result = Nothing, !.row = Nothing]
        <5> DEFINE l == Entry(i)
                   e == [d EXCEPT !.at = i, !.result = Nothing, !.row = Nothing]
        <5>1. Stage(p) = s
          BY DEF Stage
        <5>2. AfterStage(p, d)
          BY <3>1
        <5>3. Go(p, l, e)
          BY ONLY <3>7, <5>1, <5>2 DEF AfterStage
        <5> HIDE DEF l, e, i
        <5>4. ProcOk
          BY <2>1
        <5>5. pc'[p] = l /\ copy'[p] = e
          BY ONLY <5>3, <5>4, GoFacts
        <5>6. QED
          BY ONLY <5>5 DEF l, e
      <4>2. i \in 1 .. Len(Stages) /\ (i = Len(Stages) => d.at = Len(Stages) - 1)
        <5> DEFINE n == Len(Stages)
        <5>1. i = n - 1 \/ i = d.at + 1
          BY DEF NextStage
        <5>2. d.at \in 1 .. n /\ d.at # n /\ n \in Nat /\ n >= 4
          BY ONLY <3>2, <3>3, <3>7, StagesFacts
        <5> HIDE DEF i, n
        <5>3. i \in 1 .. n /\ (i = n => d.at = n - 1)
          BY ONLY <5>1, <5>2
        <5>4. QED
          BY ONLY <5>3 DEF n
      <4>3. i = Len(Stages) => s = "health"
        BY <3>3, <4>2, StagesFacts
      <4> HIDE DEF i
      <4>4. /\ OnPlan(copy'[p]) /\ copy'[p].run = c.run /\ copy'[p].at = i
            /\ copy'[p].health = d.health
        BY <3>3, <4>1, <4>2, IotAssumption DEF OnPlan, PlanFields
      <4>5. pc'[p] = "open" \/ (pc'[p] = "io" /\ Stages[i] = "certify")
        BY <4>1 DEF Entry
      <4>6. InStages(p)' /\ ~InAlerts(p)' /\ ~OnHook(copy'[p])
        BY <2>6, <4>4, <4>5 DEF InStages, InAlerts, OnPlan, OnHook
      <4>7. IotProc(p)'
        BY <4>4, <4>5, <4>6 DEF IotProc, OnPlan, OnHook
      <4>8. AlertProc(p)'
        BY <2>1, <2>3, <3>1, <3>3, <3>5, <4>3, <4>4, <4>5, <4>6 DEF AlertProc, OnHook
      <4>9. QED
        BY <2>2, <2>4, <2>5, <3>1, <3>4, <4>4, <4>6, <4>7, <4>8
    <3>8. QED
      BY <3>6, <3>7
  <2>12. CASE FinishRun(p)
    <3> DEFINE c == copy[p]
               d == [todo |-> Raised(c), alert |-> Nothing]
    <3>1. /\ pc[p] = "finish" /\ pc'[p] = "route" /\ copy'[p] = d
          /\ UNCHANGED <<health, parity, alerts>>
          /\ runs' = [i \in DOMAIN runs |-> IF i = c.run THEN FinalStatus(c) ELSE runs[i]]
      BY <2>1, <2>12, GoFacts DEF FinishRun, At
    <3>2. OnPlan(c)
      BY <1>1, <2>1, <3>1 DEF IotProc
    <3>3. FinalStatus(c) \in RunStatuses \ {"running"}
      BY DEF FinalStatus, RunStatuses
    <3>4. /\ runs' \in Seq(RunStatuses) /\ Len(runs') = Len(runs) /\ DOMAIN runs' = DOMAIN runs
          /\ \A i \in DOMAIN runs : runs'[i] = IF i = c.run THEN FinalStatus(c) ELSE runs[i]
      BY <2>2, <3>1, <3>3
    <3>5. OpenRuns'
      <4>1. \A q \in cast : InStages(q) /\ q # p => InStages(q)' /\ copy'[q].run = copy[q].run
        BY <2>1 DEF InStages, OnPlan
      <4>2. QED
        BY <2>1, <2>2, <3>3, <3>4, <4>1 DEF OpenRuns, Op
    <3>6. d.todo = Raised(c) /\ Raised(c) \subseteq Codes
      BY DEF Raised
    <3> HIDE DEF d
    <3>7. IotProc(p)'
      BY <3>1, <3>6 DEF IotProc, OnHook
    <3>8. AlertProc(p)'
      <4>1. ~InAlerts(p)' /\ ~InStages(p)' /\ InStages(p)
        BY <3>1 DEF InAlerts, InStages
      <4>2. ASSUME Sole(p)
            PROVE  runs' # <<>> /\ \A code \in Codes : code \in copy'[p].todo <=> Wrong(code)'
        <5>1. c.run = Len(runs) /\ c.health = health /\ c.parity = parity /\ runs # <<>>
          BY <2>1, <3>1, <4>1, <4>2 DEF AlertProc
        <5>2. runs' # <<>> /\ runs'[Len(runs')] = FinalStatus(c) /\ c.run # 0
          BY <2>2, <3>4, <5>1
        <5>3. QED
          BY <3>1, <3>6, <5>1, <5>2 DEF Wrong, Raised, Codes
      <4>3. QED
        BY <2>3, <3>1, <4>1, <4>2 DEF AlertProc
    <3>9. QED
      BY <2>2, <2>4, <3>1, <3>4, <3>5, <3>7, <3>8
  <2>13. CASE ResolveAlerts(p)
    <3>1. /\ pc[p] = "route" /\ pc'[p] = "raise" /\ copy'[p] = copy[p]
          /\ UNCHANGED <<runs, health, parity>>
          /\ alerts' = [i \in DOMAIN alerts |->
                          IF alerts[i].code \in Codes \ copy[p].todo
                          THEN [alerts[i] EXCEPT !.open = FALSE] ELSE alerts[i]]
      BY <2>1, <2>13, GoFacts DEF ResolveAlerts, At, ToResolve
    <3>2. \A i \in DOMAIN alerts : alerts[i] \in Alert /\ [alerts[i] EXCEPT !.open = FALSE] \in Alert
      <4>1. \A i \in DOMAIN alerts : alerts[i] \in Alert
        BY <2>2
      <4>2. QED
        BY <4>1 DEF Alert
    <3>3. alerts' \in Seq(Alert) /\ DOMAIN alerts' = DOMAIN alerts
      <4>1. DOMAIN alerts = 1 .. Len(alerts) /\ Len(alerts) \in Nat
        BY <2>2
      <4>2. alerts' \in [1 .. Len(alerts) -> Alert]
        BY <3>1, <3>2, <4>1
      <4>3. QED
        BY <4>1, <4>2
    <3>4. \A code \in Codes : OpenFor(code)' => code \in copy[p].todo
      BY <3>1, <3>2, <3>3 DEF OpenFor, Alert
    <3>5. ~InStages(p) /\ ~InStages(p)' /\ copy[p].todo \subseteq Codes
      BY <1>1, <2>1, <3>1 DEF InStages, IotProc
    <3>6. IotProc(p)'
      BY <3>1, <3>5 DEF IotProc
    <3>7. AlertProc(p)'
      BY <2>1, <2>3, <3>1, <3>4, <3>5 DEF AlertProc, Wrong
    <3>8. QED
      BY <2>2, <2>4, <2>5, <3>1, <3>3, <3>5, <3>6, <3>7
  <2>14. CASE RaiseAlert(p)
    <3>1. pc[p] = "raise" /\ UNCHANGED <<runs, health, parity>> /\ copy[p].todo \subseteq Codes
          /\ ~InStages(p) /\ InAlerts(p)
      BY <1>1, <2>1, <2>14 DEF RaiseAlert, At, IotProc, InStages, InAlerts
    <3>2. CASE /\ copy[p].todo = {} /\ UNCHANGED alerts
               /\ Go(p, IF Op(p) = "iot-run" THEN "start" ELSE "done", Nothing)
      <4>1. pc'[p] = IF Op(p) = "iot-run" THEN "start" ELSE "done"
        BY <2>1, <3>2, GoFacts
      <4>2. IotProc(p)'
        BY <4>1 DEF IotProc
      <4>3. OpenRuns'
        BY <2>5, <3>1
      <4>4. AlertProc(p)'
        BY <2>1, <2>3, <3>1, <3>2, <4>1 DEF AlertProc, Wrong, OpenFor, InStages, InAlerts, Sole
      <4>5. QED
        BY <2>2, <2>4, <3>1, <3>2, <4>2, <4>3, <4>4
    <3>3. ASSUME NEW code \in copy[p].todo,
                 alerts' = Append(alerts, [code |-> code, open |-> TRUE]),
                 Go(p, "io", [todo |-> copy[p].todo \ {code}, alert |-> Len(alerts) + 1,
                              result |-> "webhook"])
          PROVE  IotInv'
      <4> DEFINE new == [code |-> code, open |-> TRUE]
      <4>1. new \in Alert /\ new.code = code /\ new.open
        BY <3>1 DEF Alert
      <4>2. alerts' = Append(alerts, new)
        BY <3>3
      <4> HIDE DEF new
      <4>3. /\ alerts' \in Seq(Alert) /\ Len(alerts') = Len(alerts) + 1 /\ Len(alerts) \in Nat
            /\ \A i \in 1 .. Len(alerts) : alerts'[i] = alerts[i]
            /\ alerts'[Len(alerts) + 1] = new
        BY <2>2, <4>1, <4>2, AppendProperties
      <4>4. DOMAIN alerts' = DOMAIN alerts \cup {Len(alerts) + 1} /\ DOMAIN alerts = 1 .. Len(alerts)
        BY <2>2, <4>3
      <4>5. \A k : OpenFor(k)' <=> OpenFor(k) \/ k = code
        BY <4>1, <4>3, <4>4 DEF OpenFor
      <4>6. /\ pc'[p] = "io" /\ OnHook(copy'[p])
            /\ copy'[p].todo = copy[p].todo \ {code} /\ copy'[p].alert = Len(alerts) + 1
        BY <2>1, <3>3, GoFacts DEF OnHook
      <4>7. ~InStages(p)' /\ ~OnPlan(copy'[p])
        BY <2>6, <4>6 DEF InStages, OnHook, OnPlan
      <4>8. IotProc(p)'
        BY <3>1, <4>6, <4>7 DEF IotProc, OnHook, OnPlan
      <4>9. AlertProc(p)'
        BY <2>1, <2>3, <3>1, <4>1, <4>3, <4>4, <4>5, <4>6, <4>7 DEF AlertProc, Wrong
      <4>10. QED
        BY <2>2, <2>4, <2>5, <3>1, <4>3, <4>8, <4>9
    <3>4. QED
      BY <2>14, <3>2, <3>3 DEF RaiseAlert
  <2>15. CASE DeliverAlert(p)
    <3>1. UNCHANGED <<runs, health, parity>>
      BY <2>15 DEF DeliverAlert
    <3>2. CASE /\ pc[p] = "io" /\ copy[p].result = "webhook" /\ UNCHANGED alerts
               /\ Go(p, "note", [todo |-> copy[p].todo, alert |-> copy[p].alert])
      <4>1. /\ OnHook(copy[p]) /\ pc'[p] = "note" /\ copy'[p].todo = copy[p].todo
            /\ copy'[p].alert = copy[p].alert
        <5>1. OnHook(copy[p]) \/ OnPlan(copy[p])
          BY <1>1, <2>1, <3>2 DEF IotProc
        <5>2. OnHook(copy[p])
          BY <3>2, <5>1 DEF OnPlan
        <5>3. pc'[p] = "note" /\ copy'[p] = [todo |-> copy[p].todo, alert |-> copy[p].alert]
          BY <2>1, <3>2, GoFacts
        <5>4. QED
          BY <5>2, <5>3
      <4>2. ~InStages(p) /\ ~InStages(p)' /\ InAlerts(p) /\ InAlerts(p)'
        BY <2>6, <3>2, <4>1 DEF InStages, InAlerts
      <4>3. IotProc(p)'
        BY <1>1, <2>1, <3>2, <4>1, GoFacts DEF IotProc
      <4>4. AlertProc(p)'
        BY <2>1, <2>3, <3>1, <3>2, <4>1, <4>2 DEF AlertProc, Wrong, OpenFor
      <4>5. QED
        BY <2>2, <2>4, <2>5, <3>1, <3>2, <4>2, <4>3, <4>4
    <3>3. CASE /\ pc[p] = "note"
               /\ alerts' = [alerts EXCEPT ![copy[p].alert].open = @ \/ build = "postgres"]
               /\ Go(p, "raise", [copy[p] EXCEPT !.alert = Nothing])
      <4>1. /\ DOMAIN copy[p] = {"todo", "alert"} /\ copy[p].todo \subseteq Codes
            /\ pc'[p] = "raise" /\ copy'[p] = [copy[p] EXCEPT !.alert = Nothing]
        BY <1>1, <2>1, <3>3, GoFacts DEF IotProc
      <4>2. copy'[p].todo = copy[p].todo
        BY <4>1
      <4>3. ~InStages(p) /\ ~InStages(p)' /\ InAlerts(p) /\ InAlerts(p)'
        BY <3>3, <4>1 DEF InStages, InAlerts
      <4> DEFINE k == copy[p].alert
                 new == [alerts[k] EXCEPT !.open = @ \/ build = "postgres"]
      <4>4. alerts' = [alerts EXCEPT ![k] = new]
        BY <3>3
      <4>5. k \in DOMAIN alerts => alerts[k] \in Alert /\ new \in Alert /\ new.code = alerts[k].code
        <5>1. k \in DOMAIN alerts => alerts[k] \in Alert
          BY <2>2
        <5>2. QED
          BY <5>1 DEF Alert
      <4>6. k \in DOMAIN alerts /\ alerts[k].open => new.open
        BY <4>5 DEF Alert
      <4> HIDE DEF new, k
      <4>7. alerts' \in Seq(Alert) /\ DOMAIN alerts' = DOMAIN alerts
        <5>1. CASE k \in DOMAIN alerts
          BY <2>2, <4>4, <4>5, <5>1, ExceptSeq
        <5>2. CASE k \notin DOMAIN alerts
          <6>1. alerts' = alerts
            BY <2>2, <4>4, <5>2
          <6>2. QED
            BY <2>2, <6>1
        <5>3. QED
          BY <5>1, <5>2
      <4>8. IotProc(p)'
        BY <4>1, <4>2 DEF IotProc
      <4>9. ASSUME Sole(p) PROVE \A code : OpenFor(code)' <=> OpenFor(code)
        <5>1. k \in DOMAIN alerts /\ alerts[k].open
          BY <2>1, <3>3, <4>9 DEF AlertProc, k
        <5>2. \A i \in DOMAIN alerts : alerts'[i] = IF i = k THEN new ELSE alerts[i]
          BY <2>2, <4>4
        <5>3. \A i \in DOMAIN alerts : alerts'[i].code = alerts[i].code
                                         /\ (alerts'[i].open <=> alerts[i].open)
          BY <4>5, <4>6, <5>1, <5>2
        <5>4. QED
          BY <4>7, <5>3 DEF OpenFor
      <4>10. AlertProc(p)'
        BY <2>1, <2>3, <3>1, <3>3, <4>1, <4>2, <4>3, <4>9 DEF AlertProc, Wrong
      <4>11. QED
        BY <2>2, <2>4, <2>5, <3>1, <4>3, <4>7, <4>8, <4>10
    <3>4. QED
      BY <2>15, <3>2, <3>3 DEF DeliverAlert, At
  <2>16. QED
    BY <1>1, <2>7, <2>8, <2>9, <2>10, <2>11, <2>12, <2>13, <2>14, <2>15 DEF IotStep
<1>2. ASSUME NEW s \in DOMAIN points, GoStale(s)
      PROVE  IotInv'
  <2>1. UNCHANGED <<procVars, runs, health, parity, alerts>>
    BY <1>2 DEF GoStale
  <2>2. Office'
    BY <2>1, Idle DEF IotInv
  <2>3. QED
    BY <2>1, <2>2 DEF IotInv, IotProc, AlertProc, OpenRuns, Sole, InStages, InAlerts, OnPlan,
       OnHook, Wrong, OpenFor, Op, procVars
<1>3. ASSUME UNCHANGED iotVars, Elsewhere(IotOps)
      PROVE  IotInv'
  <2>1. /\ UNCHANGED <<runs, health, parity, alerts>> /\ Office' /\ build' = build /\ cast' = cast
    BY <1>3, ElsewhereOffice, ElsewhereFacts DEF iotVars, IotInv
  <2>2. restarts' = 0 => restarts = 0
    BY <1>3, ActsFacts, RestartFacts DEF Elsewhere, procVars, IotInv, Office
  <2>3. ASSUME NEW q \in cast, Op(q) \in IotOps
        PROVE  \/ pc'[q] = pc[q] /\ copy'[q] = copy[q] /\ restarts' = restarts
               \/ restarts' # 0 /\ pc'[q] \in {"asleep", "start", "done"}
    BY <1>3, <2>3, ElsewhereFacts DEF IotInv
  <2>4. ASSUME NEW q \in cast PROVE IotProc(q)' /\ AlertProc(q)'
    <3>1. IotProc(q) /\ AlertProc(q)
      BY DEF IotInv
    <3>2. CASE Op(q) \notin IotOps
      BY <2>1, <3>2 DEF IotProc, AlertProc, Sole, Op, IotOps
    <3>3. CASE Op(q) \in IotOps /\ pc'[q] = pc[q] /\ copy'[q] = copy[q] /\ restarts' = restarts
      <4>1. IotProc(q)'
        BY <3>1, <3>3 DEF IotProc, OnPlan, OnHook, Op
      <4>2. AlertProc(q)'
        BY <2>1, <3>1, <3>3 DEF AlertProc, Sole, InStages, InAlerts, OnPlan, OnHook, Wrong, OpenFor,
           Op
      <4>3. QED
        BY <4>1, <4>2
    <3>4. CASE restarts' # 0 /\ pc'[q] \in {"asleep", "start", "done"}
      BY <3>4 DEF IotProc, AlertProc, Sole
    <3>5. QED
      BY <2>3, <3>2, <3>3, <3>4
  <2>5. OpenRuns'
    <3>1. ASSUME NEW i \in DOMAIN runs, runs[i] = "running", restarts' = 0
          PROVE  \E q \in cast : Op(q) = "iot-run" /\ InStages(q)' /\ copy'[q].run = i
      <4>1. PICK q \in cast : Op(q) = "iot-run" /\ InStages(q) /\ copy[q].run = i
        BY <2>2, <3>1 DEF OpenRuns, IotInv
      <4>2. pc'[q] = pc[q] /\ copy'[q] = copy[q]
        BY <2>3, <3>1, <4>1 DEF IotOps
      <4>3. QED
        BY <4>1, <4>2 DEF InStages, OnPlan
    <3>2. QED
      BY <2>1, <3>1 DEF OpenRuns, Op
  <2>6. QED
    BY <2>1, <2>4, <2>5 DEF IotInv
<1>4. QED
  BY <1>1, <1>2, <1>3, IotCases

(* Whatever the platform answers and whatever a stage throws, a run has an *)
(* end before its caller has an answer: runStep catches, and the finally   *)
(* of the orchestrator is passed on every way.                             *)
THEOREM RunsHaveAnEnd == Spec => []RunsAreClosed
<1>1. IotInv => RunsAreClosed
  BY DEF IotInv, RunsAreClosed, OpenRuns, InStages
<1>2. QED
  BY <1>1, IotStart, IotsStep, PTL DEF Spec

(* An event whose alerts are routed by one run after the other has, when   *)
(* none is under way, an open alert for each thing that is wrong, and for  *)
(* nothing else.                                                           *)
THEOREM AlertsTellTheTruth == Spec => []AlertsMatchLastRun
<1>1. IotInv => AlertsMatchLastRun
  <2> SUFFICES ASSUME IotInv, Alone, runs # <<>> PROVE AlertsMatchLastRun
    BY DEF AlertsMatchLastRun
  <2>1. PICK p \in cast : /\ Op(p) = "iot-run" /\ pc[p] = "start"
                          /\ \A q \in cast \ {p} : Op(q) \notin {"iot-run", "iot-parity"}
    BY DEF Alone
  <2>2. \A code \in Codes : OpenFor(code) <=> Wrong(code)
    BY <2>1 DEF IotInv, AlertProc, Sole, Alone, IotOps
  <2>3. QED
    BY <2>2 DEF AlertsMatchLastRun, Wrong, Codes
<1>2. QED
  BY <1>1, IotStart, IotsStep, PTL DEF Spec


-----------------------------------------------------------------------------
(* The rest of the rows, as far as their types go.  The scopes of a user   *)
(* and the mails asked for are counted: whoever deletes a user has counted *)
(* the scopes before.                                                      *)
ScopeProc(p) ==
  Op(p) = "delete-user" /\ pc[p] = "commit" /\ Row(p) \in Users => copy[p].held \in Nat

ScopeInv ==
  /\ Office /\ scopes \in [Users -> Nat] /\ asked \in [Addresses -> 0 .. 3]
  /\ \A p \in cast : ScopeProc(p)

LEMMA ScopeStart == Init => ScopeInv
<1> SUFFICES ASSUME Init PROVE ScopeInv
  OBVIOUS
<1>1. Office /\ \A p \in cast : pc[p] \in {"asleep", "start"}
  BY ThreadInit, ProcStart DEF Init
<1>2. scopes \in [Users -> Nat] /\ asked \in [Addresses -> 0 .. 3]
  BY DEF Init, AccountInit
<1>3. QED
  BY <1>1, <1>2 DEF ScopeInv, ScopeProc

LEMMA ScopesStep == ScopeInv /\ [Next]_vars => ScopeInv'
<1> SUFFICES ASSUME ScopeInv, [Next]_vars PROVE ScopeInv'
  OBVIOUS
<1>1. ASSUME NEW p \in cast, AccountStep(p), Acts(p)
      PROVE  ScopeInv'
  <2>1. /\ Office' /\ cast' = cast /\ ScopeProc(p) /\ ProcOk
        /\ \A q \in cast : q # p => ScopeProc(q)'
    BY <1>1, ActsFacts DEF ScopeInv, ScopeProc, Office
  <2>2. ASSUME scopes' \in [Users -> Nat], asked' \in [Addresses -> 0 .. 3], ScopeProc(p)'
        PROVE  ScopeInv'
    BY <2>1, <2>2 DEF ScopeInv
  <2>3. CASE ListScopes(p)
    <3>1. UNCHANGED accountVars /\ copy'[p].held = scopes[Row(p)]
      BY <2>1, <2>3, GoFacts DEF ListScopes
    <3>2. QED
      BY <2>2, <3>1 DEF ScopeInv, ScopeProc, accountVars
  <2>4. ASSUME pc'[p] # "commit" \/ Op(p) # "delete-user"
        PROVE  ScopeProc(p)'
    BY <2>4 DEF ScopeProc
  <2>5. CASE DeleteUser(p) \/ AddScope(p) \/ RevokeScope(p)
    <3>1. pc'[p] = "done"
      BY <2>1, <2>5, GoFacts DEF DeleteUser, AddScope, RevokeScope, Return
    <3>2. scopes' \in [Users -> Nat] /\ asked' = asked
      BY <2>1, <2>5 DEF DeleteUser, AddScope, RevokeScope, At, ScopeInv, ScopeProc
    <3>3. QED
      BY <2>2, <2>4, <3>1, <3>2 DEF ScopeInv
  <2>6. CASE Forgot(p)
    <3>1. Op(p) = "forgot" /\ scopes' = scopes /\ asked' \in [Addresses -> 0 .. 3]
      BY <2>6 DEF Forgot, At, ScopeInv
    <3>2. QED
      BY <2>2, <2>4, <3>1 DEF ScopeInv
  <2>7. ASSUME UNCHANGED <<scopes, asked>>, pc'[p] # "commit"
        PROVE  ScopeInv'
    BY <2>2, <2>4, <2>7 DEF ScopeInv
  <2>8. CASE EditUser(p) \/ LookForAddress(p) \/ CreateUser(p) \/ DropInvite(p)
    BY <2>1, <2>7, <2>8, GoFacts DEF EditUser, LookForAddress, CreateUser, DropInvite, Return,
       accountVars
  <2>9. CASE ReadForToken(p) \/ StampToken(p) \/ StartHash(p) \/ Hashed(p) \/ ReadForScope(p)
    BY <2>1, <2>7, <2>9, GoFacts DEF ReadForToken, StampToken, StartHash, Hashed, ReadForScope,
       Return, accountVars
  <2>10. CASE ReadUser(p) \/ Readdress(p)
    <3>1. UNCHANGED <<scopes, asked>>
      BY <2>10 DEF ReadUser, Readdress, accountVars
    <3>2. pc'[p] \in {"done", "look", "write"}
      BY <2>1, <2>10, GoFacts DEF ReadUser, Readdress, Return
    <3>3. QED
      BY <2>7, <3>1, <3>2
  <2>11. QED
    BY <1>1, <2>3, <2>5, <2>6, <2>8, <2>9, <2>10 DEF AccountStep
<1>2. CASE \E u \in Users : Lapse(u)
  <2>1. UNCHANGED <<procVars, scopes, asked>>
    BY <1>2 DEF Lapse
  <2>2. QED
    BY <2>1, Idle DEF ScopeInv, ScopeProc, procVars
<1>3. CASE UNCHANGED accountVars /\ Elsewhere(AccountOps)
  <2>1. Office' /\ cast' = cast
    BY <1>3, ElsewhereOffice DEF ScopeInv
  <2>2. ASSUME NEW p \in cast PROVE ScopeProc(p)'
    BY <1>3, <2>1, ElsewhereFacts DEF ScopeInv, ScopeProc, AccountOps
  <2>3. QED
    BY <1>3, <2>1, <2>2 DEF ScopeInv, accountVars
<1>4. QED
  BY <1>1, <1>2, <1>3, AccountCases

-----------------------------------------------------------------------------
(* Branding: what is written back was a row.                               *)
Brand == [status : {"active", "published"}, content : UNION Casts, approved : BOOLEAN]

BrandingProc(p) == Op(p) \in BrandingOps /\ pc[p] = "write" => copy[p].row \in Brand

BrandingInv == Office /\ brandings \in Seq(Brand) /\ \A p \in cast : BrandingProc(p)

LEMMA BrandingCases ==
  ASSUME [Next]_vars
  PROVE  \/ \E p \in cast : BrandingStep(p) /\ Op(p) \in BrandingOps /\ Acts(p)
         \/ UNCHANGED brandingVars /\ Elsewhere(BrandingOps)
BY StepCases DEF Mine, Next, SessionsEnd, OtherClocks, Restarted, EndPasses, Lapse, GoStale,
   LinkLapses, vars, contentVars, Elsewhere

LEMMA BrandingStart == Init => BrandingInv
<1> SUFFICES ASSUME Init PROVE BrandingInv
  OBVIOUS
<1>1. Office /\ \A p \in cast : pc[p] \in {"asleep", "start"}
  BY ThreadInit, ProcStart DEF Init
<1>2. brandings = <<>>
  BY DEF Init, BrandingInit
<1>3. QED
  BY <1>1, <1>2 DEF BrandingInv, BrandingProc

LEMMA BrandingsStep == BrandingInv /\ [Next]_vars => BrandingInv'
<1> SUFFICES ASSUME BrandingInv, [Next]_vars PROVE BrandingInv'
  OBVIOUS
<1>1. ASSUME NEW p \in cast, BrandingStep(p), Op(p) \in BrandingOps, Acts(p)
      PROVE  BrandingInv'
  <2>1. /\ Office' /\ cast' = cast /\ BrandingProc(p) /\ ProcOk
        /\ \A q \in cast : q # p => BrandingProc(q)'
    BY <1>1, ActsFacts DEF BrandingInv, BrandingProc, Office
  <2>2. ASSUME brandings' \in Seq(Brand), BrandingProc(p)'
        PROVE  BrandingInv'
    BY <2>1, <2>2 DEF BrandingInv
  <2>3. p \in UNION Casts
    BY <2>1 DEF ProcOk
  <2>4. CASE FindBranding(p)
    <3>1. UNCHANGED brandings
      BY <2>4 DEF FindBranding
    <3>2. \/ pc'[p] \in {"done", "create"}
          \/ \E i \in ActiveRows : copy'[p] = [id |-> i, row |-> brandings[i]]
      BY <2>1, <2>4, GoFacts DEF FindBranding, Return
    <3>3. \A i \in ActiveRows : brandings[i] \in Brand
      BY DEF BrandingInv, ActiveRows
    <3>4. pc'[p] # "write" \/ copy'[p].row \in Brand
      <4>1. CASE pc'[p] \in {"done", "create"}
        BY <4>1
      <4>2. ASSUME NEW i \in ActiveRows, copy'[p] = [id |-> i, row |-> brandings[i]]
            PROVE  copy'[p].row \in Brand
        BY <3>3, <4>2
      <4>3. QED
        BY <3>2, <4>1, <4>2
    <3>5. BrandingProc(p)'
      BY <3>4 DEF BrandingProc
    <3>6. QED
      BY <2>2, <3>1, <3>5 DEF BrandingInv
  <2>5. CASE WriteBranding(p)
    <3> DEFINE id == copy[p].id
               old == brandings[id]
    <3>1. pc'[p] = "done" /\ pc[p] = "write"
      BY <2>1, <2>5, GoFacts DEF WriteBranding, Return, At
    <3>2. copy[p].row \in Brand
      BY <1>1, <2>1, <3>1 DEF BrandingProc
    <3> DEFINE row == copy[p].row
               saved == {[row EXCEPT !.approved = a, !.content = p] : a \in {row.approved, TRUE}}
    <3>3. PICK new \in saved \cup {[row EXCEPT !.approved = TRUE], [row EXCEPT !.status = "published"]} :
            brandings' = [brandings EXCEPT ![id] = Stored(old, new)]
      BY <2>5 DEF WriteBranding
    <3>7. new \in Brand
      BY <2>3, <3>2, <3>3 DEF Brand
    <3>4. brandings' \in Seq(Brand)
      <4>1. CASE id \in DOMAIN brandings
        <5>1. old \in Brand
          BY <4>1 DEF BrandingInv
        <5>2. Stored(old, new) \in Brand
          BY <3>7, <5>1 DEF Stored, Brand
        <5>3. QED
          BY <3>3, <4>1, <5>2, ExceptSeq DEF BrandingInv
      <4>2. CASE id \notin DOMAIN brandings
        <5>1. brandings' = brandings
          BY <3>3, <4>2 DEF BrandingInv
        <5>2. QED
          BY <5>1 DEF BrandingInv
      <4>3. QED
        BY <4>1, <4>2
    <3>5. QED
      BY <2>2, <3>1, <3>4 DEF BrandingProc
  <2>6. CASE CreateBranding(p)
    <3>1. pc'[p] = "done"
      BY <2>1, <2>6, GoFacts DEF CreateBranding, Return
    <3> DEFINE new(a) == [status |-> "active", content |-> p, approved |-> a /\ build = "memory"]
    <3>2. PICK a \in BOOLEAN : brandings' = brandings \/ brandings' = Append(brandings, new(a))
      BY <2>6 DEF CreateBranding
    <3>5. new(a) \in Brand
      BY <2>3 DEF Brand
    <3> HIDE DEF new
    <3>3. brandings' \in Seq(Brand)
      BY <3>2, <3>5 DEF BrandingInv
    <3>4. QED
      BY <2>2, <3>1, <3>3 DEF BrandingProc
  <2>7. QED
    BY <1>1, <2>4, <2>5, <2>6 DEF BrandingStep
<1>2. CASE UNCHANGED brandingVars /\ Elsewhere(BrandingOps)
  <2>1. Office' /\ cast' = cast
    BY <1>2, ElsewhereOffice DEF BrandingInv
  <2>2. ASSUME NEW p \in cast PROVE BrandingProc(p)'
    BY <1>2, <2>1, ElsewhereFacts DEF BrandingInv, BrandingProc
  <2>3. QED
    BY <1>2, <2>1, <2>2 DEF BrandingInv, brandingVars
<1>3. QED
  BY <1>1, <1>2, BrandingCases

-----------------------------------------------------------------------------
(* The commercial records: whatever a body asks for, the status of a       *)
(* partner and of a payout is one of theirs.                               *)
PayoutStatus == PayoutStatuses \cup {"absent"}

CommercialProc(p) ==
  /\ Op(p) = "partner-update" /\ pc[p] = "write" /\ Row(p) \in Partners
       => copy[p] \in {"active", "inactive"}
  /\ Op(p) = "payout-update" /\ pc[p] = "write" /\ Row(p) \in Payouts
       => copy[p].status \in PayoutStatus

CommercialInv ==
  /\ Office /\ partners \in [Partners -> {"active", "inactive"}]
  /\ DOMAIN payouts = Payouts /\ \A y \in Payouts : payouts[y].status \in PayoutStatus
  /\ \A p \in cast : CommercialProc(p)

LEMMA CommercialCases ==
  ASSUME [Next]_vars
  PROVE  \/ \E p \in cast : CommercialStep(p) /\ Op(p) \in CommercialOps /\ Acts(p)
         \/ UNCHANGED commercialVars /\ Elsewhere(CommercialOps)
BY StepCases DEF Mine, Next, SessionsEnd, OtherClocks, Restarted, EndPasses, Lapse, GoStale,
   LinkLapses, vars, contentVars, Elsewhere

LEMMA CommercialStart == Init => CommercialInv
<1> SUFFICES ASSUME Init PROVE CommercialInv
  OBVIOUS
<1>1. Office /\ \A p \in cast : pc[p] \in {"asleep", "start"}
  BY ThreadInit, ProcStart DEF Init
<1>2. QED
  BY <1>1 DEF Init, CommercialInit, CommercialInv, CommercialProc, NoPayout, PayoutStatus

LEMMA PatchedStatus ==
  ASSUME NEW b \in Bodies, NEW row, row.status \in PayoutStatus
  PROVE  Patched(row, b).status \in PayoutStatus
BY DEF Bodies, Patched, Or, PayoutStatus

LEMMA CommercialsStep == CommercialInv /\ [Next]_vars => CommercialInv'
<1> SUFFICES ASSUME CommercialInv, [Next]_vars PROVE CommercialInv'
  OBVIOUS
<1>1. ASSUME NEW p \in cast, CommercialStep(p), Acts(p)
      PROVE  CommercialInv'
  <2>1. /\ Office' /\ cast' = cast /\ CommercialProc(p) /\ ProcOk
        /\ \A q \in cast : q # p => CommercialProc(q)'
    BY <1>1, ActsFacts DEF CommercialInv, CommercialProc, Office
  <2>2. ASSUME partners' \in [Partners -> {"active", "inactive"}],
               DOMAIN payouts' = Payouts, \A y \in Payouts : payouts'[y].status \in PayoutStatus,
               CommercialProc(p)'
        PROVE  CommercialInv'
    BY <2>1, <2>2 DEF CommercialInv
  <2>3. CASE WritePartner(p)
    <3>1. CASE At(p, "partner-update", "start")
      <4>1. UNCHANGED commercialVars /\ copy'[p] = partners[Row(p)] /\ Op(p) = "partner-update"
        BY <2>1, <2>3, <3>1, GoFacts DEF WritePartner, At
      <4>2. CommercialProc(p)'
        BY <4>1 DEF CommercialProc, CommercialInv
      <4>3. QED
        BY <2>2, <4>1, <4>2 DEF CommercialInv, commercialVars
    <3>2. CASE ~At(p, "partner-update", "start")
      <4>1. /\ pc[p] = "write" /\ Op(p) = "partner-update" /\ pc'[p] = "done"
            /\ UNCHANGED payouts
        BY <2>1, <2>3, <3>2, GoFacts DEF WritePartner, At, Return
      <4>2. partners' \in [Partners -> {"active", "inactive"}]
        BY <2>1, <2>3, <3>2, <4>1 DEF WritePartner, CommercialInv, CommercialProc
      <4>3. QED
        BY <2>2, <4>1, <4>2 DEF CommercialInv, CommercialProc
    <3>3. QED
      BY <3>1, <3>2
  <2>4. CASE CreateDeal(p) \/ MoveDeal(p)
    <3>1. Op(p) \in {"deal-create", "deal-update"} /\ UNCHANGED <<partners, payouts>>
      BY <2>4 DEF CreateDeal, MoveDeal, At, commercialVars
    <3>2. QED
      BY <2>2, <3>1 DEF CommercialInv, CommercialProc
  <2>5. CASE CreatePayout(p)
    <3>1. pc'[p] = "done" /\ UNCHANGED partners
      BY <2>1, <2>5, GoFacts DEF CreatePayout, Return
    <3>2. PICK b \in Bodies :
            LET row == Patched([NoPayout EXCEPT !.status = "pending"], b)
            IN  payouts' \in {payouts, [payouts EXCEPT ![Row(p)] = row]}
      BY <2>5 DEF CreatePayout
    <3>3. Patched([NoPayout EXCEPT !.status = "pending"], b).status \in PayoutStatus
      <4>1. [NoPayout EXCEPT !.status = "pending"].status \in PayoutStatus
        BY DEF NoPayout, PayoutStatus, PayoutStatuses
      <4>2. QED
        BY <4>1, PatchedStatus
    <3>4. DOMAIN payouts' = Payouts /\ \A y \in Payouts : payouts'[y].status \in PayoutStatus
      BY <3>2, <3>3 DEF CommercialInv
    <3>5. QED
      BY <2>2, <3>1, <3>4 DEF CommercialInv, CommercialProc
  <2>6. CASE UpdatePayout(p)
    <3>1. CASE At(p, "payout-update", "start")
      <4>1. UNCHANGED commercialVars /\ Op(p) = "payout-update"
        BY <2>6, <3>1 DEF UpdatePayout, At
      <4>2. PICK b \in Bodies : pc'[p] = "done" \/ copy'[p] = Patched(payouts[Row(p)], b)
        BY <2>1, <2>6, <3>1, GoFacts DEF UpdatePayout, Return, At
      <4>3. Row(p) \in Payouts => Patched(payouts[Row(p)], b).status \in PayoutStatus
        BY PatchedStatus DEF CommercialInv
      <4>4. CommercialProc(p)'
        BY <4>1, <4>2, <4>3 DEF CommercialProc
      <4>5. QED
        BY <2>2, <4>1, <4>4 DEF CommercialInv, commercialVars
    <3>2. CASE ~At(p, "payout-update", "start")
      <4>1. /\ pc[p] = "write" /\ Op(p) = "payout-update" /\ pc'[p] = "done"
            /\ UNCHANGED partners /\ payouts' = [payouts EXCEPT ![Row(p)] = copy[p]]
        BY <2>1, <2>6, <3>2, GoFacts DEF UpdatePayout, At, Return
      <4>2. DOMAIN payouts' = Payouts /\ \A y \in Payouts : payouts'[y].status \in PayoutStatus
        BY <2>1, <4>1 DEF CommercialInv, CommercialProc
      <4>3. QED
        BY <2>2, <4>1, <4>2 DEF CommercialInv, CommercialProc
    <3>3. QED
      BY <3>1, <3>2
  <2>7. QED
    BY <1>1, <2>3, <2>4, <2>5, <2>6 DEF CommercialStep
<1>2. CASE UNCHANGED commercialVars /\ Elsewhere(CommercialOps)
  <2>1. Office' /\ cast' = cast
    BY <1>2, ElsewhereOffice DEF CommercialInv
  <2>2. ASSUME NEW p \in cast PROVE CommercialProc(p)'
    BY <1>2, <2>1, ElsewhereFacts DEF CommercialInv, CommercialProc, CommercialOps
  <2>3. QED
    BY <1>2, <2>1, <2>2 DEF CommercialInv, commercialVars
<1>3. QED
  BY <1>1, <1>2, CommercialCases

-----------------------------------------------------------------------------
(* E-mail.  Only what is queued is listed, and what is queued has attempts *)
(* left: so the count of a row, however stale, does not pass the limit.    *)
Email == [status : {"queued", "sent", "dead_letter"}, attempts : 0 .. MaxAttempts]

MayTry(row) == row \in Email /\ row.attempts < MaxAttempts

Counted(row) == row \in Email /\ (row.status = "queued" => row.attempts < MaxAttempts)

EmailProc(p) ==
  Op(p) = "email-batch" =>
    /\ pc[p] = "io" => \A e \in DOMAIN copy[p] : MayTry(copy[p][e])
    /\ pc[p] = "write" => /\ Counted(copy[p].row)
                          /\ \A e \in DOMAIN copy[p].rest : MayTry(copy[p].rest[e])

EmailInv ==
  /\ Office /\ DOMAIN emails = Emails /\ \A e \in Emails : Counted(emails[e])
  /\ \A p \in cast : EmailProc(p)

LEMMA EmailCases ==
  ASSUME [Next]_vars
  PROVE  \/ \E p \in cast : EmailStep(p) /\ Op(p) \in EmailOps /\ Acts(p)
         \/ UNCHANGED emailVars /\ Elsewhere(EmailOps)
BY StepCases DEF Mine, Next, SessionsEnd, OtherClocks, Restarted, EndPasses, Lapse, GoStale,
   LinkLapses, vars, systemVars, Elsewhere

LEMMA EmailStart == Init => EmailInv
<1> SUFFICES ASSUME Init PROVE EmailInv
  OBVIOUS
<1>1. Office /\ \A p \in cast : pc[p] \in {"asleep", "start"}
  BY ThreadInit, ProcStart DEF Init
<1>2. Counted([status |-> "queued", attempts |-> 0])
  BY EmailAssumption DEF Counted, Email
<1>3. emails = [e \in Emails |-> [status |-> "queued", attempts |-> 0]]
  BY DEF Init, EmailInit
<1>4. QED
  BY <1>1, <1>2, <1>3 DEF EmailInv, EmailProc

LEMMA SentFacts ==
  ASSUME NEW row, MayTry(row), NEW ok \in BOOLEAN
  PROVE  Counted(Sent(row, ok))
BY EmailAssumption DEF MayTry, Counted, Sent, IsDead, Email

LEMMA EmailsStep == EmailInv /\ [Next]_vars => EmailInv'
<1> SUFFICES ASSUME EmailInv, [Next]_vars PROVE EmailInv'
  OBVIOUS
<1>1. ASSUME NEW p \in cast, EmailStep(p), Acts(p)
      PROVE  EmailInv'
  <2>1. /\ Office' /\ cast' = cast /\ EmailProc(p) /\ ProcOk
        /\ \A q \in cast : q # p => EmailProc(q)'
    BY <1>1, ActsFacts DEF EmailInv, EmailProc, Office
  <2>2. ASSUME DOMAIN emails' = Emails, \A e \in Emails : Counted(emails'[e]), EmailProc(p)'
        PROVE  EmailInv'
    BY <2>1, <2>2 DEF EmailInv, Counted
  <2>3. CASE ListEmails(p)
    <3>1. PICK S \in Listed : Go(p, "io", [e \in S |-> emails[e]])
      BY <2>3 DEF ListEmails
    <3>2. pc'[p] = "io" /\ copy'[p] = [e \in S |-> emails[e]] /\ UNCHANGED emails
      BY <2>1, <2>3, <3>1, GoFacts DEF ListEmails, emailVars
    <3>3. \A e \in S : MayTry(emails[e])
      BY DEF EmailInv, Listed, Counted, MayTry
    <3>4. EmailProc(p)'
      BY <3>2, <3>3 DEF EmailProc, MayTry
    <3>5. QED
      BY <2>2, <3>2, <3>4 DEF EmailInv
  <2>4. CASE SendEmail(p)
    <3>1. PICK e \in DOMAIN copy[p], ok \in BOOLEAN :
            Go(p, "write", [row |-> Sent(copy[p][e], ok), id |-> e,
                            rest |-> [f \in DOMAIN copy[p] \ {e} |-> copy[p][f]]])
      BY <2>4 DEF SendEmail
    <3>2. /\ pc'[p] = "write" /\ UNCHANGED emails
          /\ copy'[p] = [row |-> Sent(copy[p][e], ok), id |-> e,
                         rest |-> [f \in DOMAIN copy[p] \ {e} |-> copy[p][f]]]
      BY <2>1, <2>4, <3>1, GoFacts DEF SendEmail, emailVars
    <3>3. \A f \in DOMAIN copy[p] : MayTry(copy[p][f])
      BY <2>1, <2>4 DEF SendEmail, At, EmailProc
    <3>4. Counted(Sent(copy[p][e], ok))
      BY <3>3, SentFacts
    <3>5. EmailProc(p)'
      BY <3>2, <3>3, <3>4 DEF EmailProc, MayTry, Counted
    <3>6. QED
      BY <2>2, <3>2, <3>5 DEF EmailInv
  <2>5. CASE WriteEmail(p)
    <3>1. /\ Counted(copy[p].row) /\ \A e \in DOMAIN copy[p].rest : MayTry(copy[p].rest[e])
          /\ emails' = [emails EXCEPT ![copy[p].id] = copy[p].row]
      BY <2>1, <2>5 DEF WriteEmail, At, EmailProc
    <3>2. pc'[p] = "start" \/ (pc'[p] = "io" /\ copy'[p] = copy[p].rest)
      BY <2>1, <2>5, GoFacts DEF WriteEmail
    <3>3. EmailProc(p)'
      BY <3>1, <3>2 DEF EmailProc, MayTry
    <3>4. DOMAIN emails' = Emails /\ \A e \in Emails : Counted(emails'[e])
      BY <3>1 DEF EmailInv
    <3>5. QED
      BY <2>2, <3>3, <3>4
  <2>6. QED
    BY <1>1, <2>3, <2>4, <2>5 DEF EmailStep
<1>2. CASE UNCHANGED emailVars /\ Elsewhere(EmailOps)
  <2>1. Office' /\ cast' = cast
    BY <1>2, ElsewhereOffice DEF EmailInv
  <2>2. ASSUME NEW p \in cast PROVE EmailProc(p)'
    BY <1>2, <2>1, ElsewhereFacts DEF EmailInv, EmailProc, EmailOps, MayTry, Counted
  <2>3. QED
    BY <1>2, <2>1, <2>2 DEF EmailInv, emailVars, Counted
<1>3. QED
  BY <1>1, <1>2, EmailCases

-----------------------------------------------------------------------------
(* Every row of the back office is of its type, and the rows point at rows *)
(* that are there: the holder of a tap is an attendee, a wallet pass leads *)
(* to a short link, a profile shows an item.  The attempts that an e-mail  *)
(* records stay within MAX_ATTEMPTS, whichever stale copies are written    *)
(* back; batches that overlap may make more attempts than it records.      *)
THEOREM OfficeTypes == Spec => []OfficeTypeOk
<1> DEFINE Inv == /\ AccountInv /\ ScopeInv /\ CredentialInv /\ BreakGlassInv
                  /\ VenueInv /\ ModerationInv /\ BrandingInv /\ CommercialInv /\ DriveInv
                  /\ EmailInv /\ IotInv /\ CardInv /\ WalletInv
<1>1. Init => Inv
  BY AccountStart, ScopeStart, CredentialStart, BreakGlassStart, VenueStart, ModerationStart,
     BrandingStart, CommercialStart, DriveStart, EmailStart, IotStart, CardStart, WalletStart
<1>2. Inv /\ [Next]_vars => Inv'
  BY AccountsStep, ScopesStep, CredentialsStep, BreakGlassesStep, VenueStepKeeps, ModerationsStep,
     BrandingsStep, CommercialsStep, DrivesStep, EmailsStep, IotsStep, CardsStep, WalletsStep
<1>3. Inv => OfficeTypeOk
  <2> SUFFICES ASSUME Inv PROVE OfficeTypeOk
    OBVIOUS
  <2>1. /\ build \in Backends /\ cast \in Casts /\ restarts \in 0 .. MaxRestarts
        /\ users \in [Users -> User] /\ scopes \in [Users -> Nat] /\ asked \in [Addresses -> 0 .. 3]
    BY DEF AccountInv, UserRows, ScopeInv, Office, ProcOk
  <2>2. /\ tokens \in [Tokens -> {"absent", "active", "revoked"}]
        /\ clients \in [Clients -> [status : {"absent", "active", "revoked"}, secret : Nat]]
        /\ sessions \in [Sessions -> Session]
    BY DEF CredentialInv, Client, BreakGlassInv
  <2>3. /\ halls \subseteq Halls /\ stalls \in [Stalls -> Halls \cup {Nothing}]
        /\ packages \subseteq Packages /\ members \in [Members -> Packages \cup {Nothing}]
        /\ devices \in [Devices -> Hardware] /\ placed \cup former \subseteq Devices \X Stalls
    BY DEF VenueInv, VenueTypes
  <2>4. /\ \A i \in Items : items[i].state \in DOMAIN Transitions
        /\ shown \in Items \cup {Nothing}
    BY DEF ModerationInv, Item
  <2>5. ASSUME NEW i \in DOMAIN brandings PROVE brandings[i].status \in {"active", "published"}
    <3>1. brandings[i] \in Brand
      BY DEF BrandingInv
    <3>2. QED
      BY <3>1 DEF Brand
  <2>6. /\ partners \in [Partners -> {"active", "inactive"}]
        /\ \A y \in Payouts : payouts[y].status \in PayoutStatuses \cup {"absent"}
    BY DEF CommercialInv, PayoutStatus
  <2>7. ASSUME NEW i \in DOMAIN drives PROVE drives[i].status \in {"active", "disconnected", "error"}
    <3>1. drives[i] \in Drive
      BY DEF DriveInv
    <3>2. QED
      BY <3>1 DEF Drive
  <2>8. \A e \in Emails : emails[e].attempts <= MaxAttempts
    BY DEF EmailInv, Counted, Email
  <2>9. /\ \A i \in DOMAIN runs : runs[i] \in RunStatuses
        /\ parity \in {"passed", "failed", Nothing}
    BY DEF IotInv
  <2>10. health \in {Levels[i] : i \in 1 .. 4} \cup {Nothing}
    <3>1. health \in Level \cup {Nothing}
      BY DEF IotInv
    <3>2. /\ Levels[1] = "healthy" /\ Levels[2] = "warning" /\ Levels[3] = "critical"
          /\ Levels[4] = "failed"
      BY DEF Levels
    <3>3. QED
      BY <3>1, <3>2 DEF Level
  <2>11. /\ passes \in [PassTypes -> Behaviours \cup {"absent"}]
         /\ \A t \in cardTaps : t.holder \in DOMAIN attendees
    BY DEF CardInv, TapsFit
  <2>12. \A w \in Wallets : wallets[w].status \in WalletStatuses /\ wallets[w].link \in 0 .. Len(shortLinks)
    BY DEF WalletInv, Wallet
  <2>13. ASSUME NEW i \in DOMAIN shortLinks PROVE shortLinks[i].status \in LinkStatuses
    <3>1. shortLinks[i] \in Link
      BY DEF WalletInv
    <3>2. QED
      BY <3>1 DEF Link
  <2> HIDE DEF Inv
  <2>14. QED
    BY <2>1, <2>2, <2>3, <2>4, <2>5, <2>6, <2>7, <2>8, <2>9, <2>10, <2>11, <2>12, <2>13 DEF OfficeTypeOk
<1> HIDE DEF Inv
<1>4. QED
  BY <1>1, <1>2, <1>3, PTL DEF Spec
=============================================================================

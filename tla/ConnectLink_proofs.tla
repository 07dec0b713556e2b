-------------------------- MODULE ConnectLink_proofs --------------------------
(***************************************************************************)
(* Theorems about ConnectLink, for every number of links, consents,        *)
(* visits, faults and every pair of times.                                 *)
(***************************************************************************)
EXTENDS ConnectLink, TLAPS, WellFoundedInduction

-----------------------------------------------------------------------------
\* Numbers up to a bound have a greatest one.
LEMMA GreatestBelow ==
    ASSUME NEW n \in Nat, NEW S \in SUBSET (1 .. n), S # {}
    PROVE  \E i \in S : \A j \in S : j <= i
<1> DEFINE T == {n - i : i \in S}
<1>1. T \subseteq Nat /\ T # {}
  <2>1. \A i \in S : i \in 1 .. n
    OBVIOUS
  <2>2. \A i \in S : n - i \in Nat
    BY <2>1
  <2>3. PICK i \in S : TRUE
    OBVIOUS
  <2>4. n - i \in T
    BY <2>3
  <2> QED
    BY <2>2, <2>4
<1>2. \E x \in T : \A y \in T : ~ (<<y, x>> \in OpToRel(<, Nat))
  BY <1>1, NatLessThanWellFounded, WFMin
<1>3. PICK x \in T : \A y \in T : ~ (<<y, x>> \in OpToRel(<, Nat))
  BY <1>2
<1>4. \A y \in T : ~ (y < x)
  BY <1>1, <1>3 DEF OpToRel
<1>5. PICK i \in S : x = n - i
  BY <1>3
<1>6. ASSUME NEW j \in S PROVE j <= i
  <2>1. n - j \in T
    OBVIOUS
  <2>2. ~ (n - j < n - i)
    BY <1>4, <1>5, <2>1
  <2> QED
    BY <2>2
<1> QED
  BY <1>6

\* find_active_connected_account_id gives an account that is active.
LEMMA NewestIsActive ==
    ASSUME TypeOK, NEW p, Active(p) # {}
    PROVE  Newest(p) \in Consents
<1>1. Len(activated) \in Nat /\ Active(p) \in SUBSET (1 .. Len(activated))
  BY DEF TypeOK, Active
<1>2. \E i \in Active(p) : \A j \in Active(p) : j <= i
  BY <1>1, GreatestBelow
<1>3. (CHOOSE i \in Active(p) : \A j \in Active(p) : j <= i) \in Active(p)
  BY <1>2
<1>4. \A i \in 1 .. Len(activated) : activated[i] \in Consents
  BY DEF TypeOK
<1> QED
  BY <1>1, <1>3, <1>4 DEF Newest

-----------------------------------------------------------------------------
LEMMA TypeInit == Init => TypeOK
BY TimeAssumption
   DEF Init, TypeOK, Times, Fresh, NewLink, NewConsent, NewVisit

LEMMA TypeStep == TypeOK /\ [Next]_vars => TypeOK'
<1> SUFFICES ASSUME TypeOK, [Next]_vars PROVE TypeOK'
  OBVIOUS
<1> USE TimeAssumption DEF Times, Fresh
<1> DEFINE LinkRows == [minted : Times, expires : Int, used : Times]
           Legs == [pc : {"none", "asking", "away", "failed"},
                    link : Links \cup {None}, signed : Times]
           Stages == {"none", "initiated", "active", "gone"}
           Requests ==
               [pc : {"none", "checking", "claiming", "claimed", "found", "over"},
                end : {"open", "expired", "refused", "missing", "failed", "connected"},
                consent : Consents \cup {None}, slug : Providers \cup {None},
                found : Consents \cup {None}, knew : Nat]
<1>n. now \in 0 .. MaxTime
  BY DEF TypeOK
<1>l. link \in [Links -> LinkRows]
  BY DEF TypeOK
<1>c. consent \in [Consents -> Legs]
  BY DEF TypeOK
<1>a. account \in [Consents -> Stages] /\ activated \in Seq(Consents)
  BY DEF TypeOK
<1>v. visit \in [Visits -> Requests]
  BY DEF TypeOK
<1>i. integration \in [Providers -> Consents \cup {None}] /\ notified \in [Links -> Nat]
  BY DEF TypeOK
<1>f. faults \in 0 .. MaxFaults
  BY DEF TypeOK
<1>k. Len(activated) \in Nat
  BY <1>a
<1>1. ASSUME NEW l \in Links, Mint(l) PROVE link' \in [Links -> LinkRows]
  BY <1>1, <1>l, <1>n DEF Mint
<1>2. ASSUME NEW l \in Links, NEW p \in Providers, NEW c \in Consents, Start(l, p, c)
      PROVE  link' \in [Links -> LinkRows] /\ consent' \in [Consents -> Legs]
  <2>1. now + ConsentTTL \in Int /\ now \in Times
    BY <1>n
  <2>2. link' \in [Links -> LinkRows]
    BY <1>2, <1>l, <2>1 DEF Start, Extend
  <2>3. [pc |-> "asking", link |-> l, signed |-> now] \in Legs
    BY <2>1
  <2>4. consent' \in [Consents -> Legs]
    BY <1>2, <1>c, <2>3 DEF Start
  <2> QED
    BY <2>2, <2>4
<1>3. ASSUME NEW c \in Consents, Authorize(c)
      PROVE  consent' \in [Consents -> Legs] /\ account' \in [Consents -> Stages]
  <2>1. consent' \in [Consents -> Legs]
    BY <1>3, <1>c DEF Authorize
  <2>2. account' \in [Consents -> Stages]
    BY <1>3, <1>a DEF Authorize
  <2> QED
    BY <2>1, <2>2
<1>4. ASSUME NEW c \in Consents, Grant(c) \/ Revoke(c)
      PROVE  account' \in [Consents -> Stages] /\ activated' \in Seq(Consents)
  BY <1>4, <1>a DEF Grant, Revoke
<1>5. ASSUME NEW v \in Visits, NEW c \in Consents, NEW p \in Providers, ComeBack(v, c, p)
      PROVE  visit' \in [Visits -> Requests]
  BY <1>5, <1>v, <1>c DEF ComeBack, NewVisit
<1>6. ASSUME NEW v \in Visits, Check(v) \/ Claim(v)
      PROVE  visit' \in [Visits -> Requests] /\ link' \in [Links -> LinkRows]
  <2>1. visit' \in [Visits -> Requests]
    BY <1>6, <1>v DEF Check, Claim, End
  <2>2. link' \in [Links -> LinkRows]
    BY <1>6, <1>l, <1>n DEF Check, Claim
  <2> QED
    BY <2>1, <2>2
<1>7. ASSUME NEW v \in Visits, FindAccount(v) PROVE visit' \in [Visits -> Requests]
  <2>1. CASE End(v, "missing") \/ End(v, "failed")
    BY <2>1, <1>v DEF End
  <2>2. CASE /\ Active(visit[v].slug) # {}
             /\ visit' = [visit EXCEPT ![v].pc = "found",
                                       ![v].found = Newest(visit[v].slug),
                                       ![v].knew = Len(activated)]
    <3>1. Newest(visit[v].slug) \in Consents
      BY <2>2, NewestIsActive
    <3>2. [visit[v] EXCEPT !.pc = "found", !.found = Newest(visit[v].slug),
                           !.knew = Len(activated)] \in Requests
      BY <3>1, <1>v, <1>k
    <3>3. visit' = [visit EXCEPT ![v] =
                      [visit[v] EXCEPT !.pc = "found", !.found = Newest(visit[v].slug),
                                       !.knew = Len(activated)]]
      BY <2>2, <1>v
    <3> QED
      BY <3>2, <3>3, <1>v
  <2> QED
    BY <1>7, <2>1, <2>2 DEF FindAccount
<1>8. ASSUME NEW v \in Visits, Save(v)
      PROVE  /\ visit' \in [Visits -> Requests]
             /\ integration' \in [Providers -> Consents \cup {None}]
             /\ notified' \in [Links -> Nat]
             /\ faults' \in 0 .. MaxFaults
  <2>1. visit' \in [Visits -> Requests]
    BY <1>8, <1>v DEF Save, End
  <2>2. integration' \in [Providers -> Consents \cup {None}]
    <3>1. visit[v].found \in Consents \cup {None}
      BY <1>8, <1>v DEF Save
    <3> QED
      BY <1>8, <1>i, <3>1 DEF Save
  <2>3. notified' \in [Links -> Nat] /\ faults' \in 0 .. MaxFaults
    BY <1>8, <1>i, <1>f DEF Save, Fault
  <2> QED
    BY <2>1, <2>2, <2>3
<1>9. CASE Tick
  BY <1>9, <1>n, <1>l, <1>c, <1>a, <1>v, <1>i, <1>f DEF Tick, TypeOK
<1>10. CASE Crash
  <2>1. visit' \in [Visits -> Requests]
    <3>1. ASSUME NEW v \in Visits
          PROVE  [visit[v] EXCEPT !.pc = "over", !.end = "failed"] \in Requests
      <4>1. visit[v] \in Requests
        BY <1>v
      <4> QED
        BY <4>1
    <3> QED
      BY <1>10, <1>v, <3>1 DEF Crash
  <2>2. consent' \in [Consents -> Legs]
    <3>1. ASSUME NEW c \in Consents
          PROVE  [consent[c] EXCEPT !.pc = "failed"] \in Legs
      <4>1. consent[c] \in Legs
        BY <1>c
      <4> QED
        BY <4>1
    <3> QED
      BY <1>10, <1>c, <3>1 DEF Crash
  <2>3. faults' \in 0 .. MaxFaults
    <3>1. Fault
      BY <1>10 DEF Crash
    <3> QED
      BY <3>1, <1>f DEF Fault
  <2> QED
    BY <1>10, <1>n, <1>l, <1>c, <1>a, <1>v, <1>i, <1>f, <2>1, <2>2, <2>3
       DEF Crash, TypeOK
<1>11. CASE UNCHANGED vars
  BY <1>11 DEF vars, TypeOK
<1> QED
  <2>1. ASSUME NEW l \in Links, Mint(l) PROVE TypeOK'
    BY <2>1, <1>1, <1>n, <1>l, <1>c, <1>a, <1>v, <1>i, <1>f DEF Mint, TypeOK
  <2>2. ASSUME NEW l \in Links, NEW p \in Providers, NEW c \in Consents, Start(l, p, c)
        PROVE  TypeOK'
    BY <2>2, <1>2, <1>n, <1>l, <1>c, <1>a, <1>v, <1>i, <1>f DEF Start, TypeOK
  <2>3. ASSUME NEW c \in Consents, Authorize(c) PROVE TypeOK'
    BY <2>3, <1>3, <1>n, <1>l, <1>c, <1>a, <1>v, <1>i, <1>f DEF Authorize, TypeOK
  <2>4. ASSUME NEW c \in Consents, Grant(c) \/ Revoke(c) PROVE TypeOK'
    BY <2>4, <1>4, <1>n, <1>l, <1>c, <1>a, <1>v, <1>i, <1>f DEF Grant, Revoke, TypeOK
  <2>5. ASSUME NEW v \in Visits, NEW c \in Consents, NEW p \in Providers, ComeBack(v, c, p)
        PROVE  TypeOK'
    BY <2>5, <1>5, <1>n, <1>l, <1>c, <1>a, <1>v, <1>i, <1>f DEF ComeBack, TypeOK
  <2>6. ASSUME NEW v \in Visits, Check(v) \/ Claim(v) PROVE TypeOK'
    BY <2>6, <1>6, <1>n, <1>l, <1>c, <1>a, <1>v, <1>i, <1>f DEF Check, Claim, TypeOK
  <2>7. ASSUME NEW v \in Visits, FindAccount(v) PROVE TypeOK'
    BY <2>7, <1>7, <1>n, <1>l, <1>c, <1>a, <1>v, <1>i, <1>f DEF FindAccount, TypeOK
  <2>8. ASSUME NEW v \in Visits, Save(v) PROVE TypeOK'
    BY <2>8, <1>8, <1>n, <1>l, <1>c, <1>a, <1>v, <1>i, <1>f DEF Save, TypeOK
  <2> QED
    BY <2>1, <2>2, <2>3, <2>4, <2>5, <2>6, <2>7, <2>8, <1>9, <1>10, <1>11
       DEF Next, VisitStep

\* Every link, consent, account and visit keeps its type (connect/, the connect
\* links of db/integrations.py and connect_success).
THEOREM TypeCorrect == Spec => []TypeOK
<1>1. Init => TypeOK
  BY TypeInit
<1>2. TypeOK /\ [Next]_vars => TypeOK'
  BY TypeStep
<1> QED
  BY <1>1, <1>2, PTL DEF Spec
-----------------------------------------------------------------------------
(***************************************************************************)
(* The clock of a link.  A start sets its end to ConsentTTL from then, so  *)
(* the end moves forward under every consent that is being given.          *)
(***************************************************************************)
LinkRows == \A l \in Links : link[l].used # Fresh => link[l].minted # Fresh
LegTimes ==
    \A c \in Consents : consent[c].pc \in {"asking", "away"} =>
        /\ consent[c].link \in Links
        /\ link[consent[c].link].minted # Fresh
        /\ consent[c].signed <= now
        /\ consent[c].signed + ConsentTTL <= link[consent[c].link].expires
\* A visit that goes on came back from a consent.
AtWork(v) == visit[v].pc \in {"checking", "claiming", "claimed", "found"}
VisitLegs ==
    \A v \in Visits :
        /\ visit[v].consent # None => /\ visit[v].consent \in Consents
                                      /\ consent[visit[v].consent].pc = "away"
        /\ AtWork(v) => visit[v].consent # None /\ visit[v].end = "open"
TimeInv == TypeOK /\ LinkRows /\ LegTimes /\ VisitLegs

LEMMA TimeInit == Init => TimeInv
<1> SUFFICES ASSUME Init PROVE TimeInv
  OBVIOUS
<1>1. \A l \in Links : link[l].minted = Fresh /\ link[l].used = Fresh
  BY DEF Init, NewLink
<1>2. \A c \in Consents : consent[c].pc = "none"
  BY DEF Init, NewConsent
<1>3. \A v \in Visits : visit[v].consent = None /\ visit[v].pc = "none"
  BY DEF Init, NewVisit
<1> QED
  BY <1>1, <1>2, <1>3, TypeInit DEF TimeInv, LinkRows, LegTimes, VisitLegs, AtWork

\* What a visit claims is a row that was minted and has not ended.
LEMMA ClaimTouches ==
    ASSUME TypeOK, VisitLegs, LegTimes, NEW v \in Visits, AtWork(v)
    PROVE  /\ visit[v].consent \in Consents
           /\ LinkOf(v) \in Links
           /\ link[LinkOf(v)].minted # Fresh
BY DEF VisitLegs, LegTimes, LinkOf

LEMMA TimeStep == TimeInv /\ [Next]_vars => TimeInv'
<1> SUFFICES ASSUME TimeInv, [Next]_vars PROVE TimeInv'
  OBVIOUS
<1>t. TypeOK /\ TypeOK' /\ LinkRows /\ LegTimes /\ VisitLegs
  BY TypeStep DEF TimeInv
<1>n. now \in Nat /\ LinkTTL \in Nat /\ ConsentTTL \in Nat /\ ConsentTTL >= LinkTTL
  BY <1>t, TimeAssumption DEF TypeOK
<1>l. /\ link \in [Links -> [minted : Int, expires : Int, used : Int]]
      /\ consent \in [Consents -> [pc : {"none", "asking", "away", "failed"},
                                  link : Links \cup {None}, signed : Int]]
  <2>1. link \in [Links -> [minted : Times, expires : Int, used : Times]]
    BY <1>t DEF TypeOK
  <2>2. consent \in [Consents -> [pc : {"none", "asking", "away", "failed"},
                                  link : Links \cup {None}, signed : Times]]
    BY <1>t DEF TypeOK
  <2>3. Times \subseteq Int
    BY TimeAssumption DEF Times
  <2> QED
    BY <2>1, <2>2, <2>3
<1>v. visit \in [Visits ->
        [pc : {"none", "checking", "claiming", "claimed", "found", "over"},
         end : {"open", "expired", "refused", "missing", "failed", "connected"},
         consent : Consents \cup {None}, slug : Providers \cup {None},
         found : Consents \cup {None}, knew : Nat]]
  BY <1>t DEF TypeOK
<1>q. SUFFICES LinkRows' /\ LegTimes' /\ VisitLegs'
  BY <1>t DEF TimeInv
<1> USE DEF Fresh
<1>1. ASSUME NEW l \in Links, Mint(l) PROVE LinkRows' /\ LegTimes' /\ VisitLegs'
  <2>1. LinkRows'
    BY <1>1, <1>t, <1>n, <1>l DEF Mint, LinkRows
  <2>2. LegTimes'
    BY <1>1, <1>t, <1>n, <1>l DEF Mint, LegTimes
  <2>3. VisitLegs'
    BY <1>1, <1>t DEF Mint, VisitLegs, AtWork
  <2> QED
    BY <2>1, <2>2, <2>3
<1>2. ASSUME NEW l \in Links, NEW p \in Providers, NEW c \in Consents, Start(l, p, c)
      PROVE  LinkRows' /\ LegTimes' /\ VisitLegs'
  <2>1. /\ link' = [link EXCEPT ![l].expires = now + ConsentTTL]
        /\ link[l].minted # Fresh
        /\ now' = now /\ consent[c].pc = "none" /\ visit' = visit
    BY <1>2 DEF Start, Extend, MayStart
  <2>2. LinkRows'
    BY <2>1, <1>t, <1>n, <1>l DEF LinkRows
  <2>3. ASSUME NEW d \in Consents, consent'[d].pc \in {"asking", "away"}
        PROVE  /\ consent'[d].link \in Links
               /\ link'[consent'[d].link].minted # Fresh
               /\ consent'[d].signed <= now'
               /\ consent'[d].signed + ConsentTTL <= link'[consent'[d].link].expires
    <3>1. CASE consent'[d] = consent[d]
      BY <2>1, <2>3, <3>1, <1>t, <1>n, <1>l DEF LegTimes
    <3>2. CASE consent'[d] = [pc |-> "asking", link |-> l, signed |-> now]
      BY <2>1, <3>2, <1>n, <1>l
    <3> QED
      BY <1>2, <1>l, <3>1, <3>2 DEF Start
  <2>4. LegTimes'
    BY <2>3 DEF LegTimes
  <2>5. \A d \in Consents : consent[d].pc = "away" => consent'[d] = consent[d]
    BY <1>2, <1>l, <2>1 DEF Start
  <2>6. VisitLegs'
    BY <2>1, <2>5, <1>t DEF VisitLegs, AtWork
  <2> QED
    BY <2>2, <2>4, <2>6
<1>3. ASSUME NEW c \in Consents, Authorize(c) PROVE LinkRows' /\ LegTimes' /\ VisitLegs'
  <2>1. /\ now' = now /\ link' = link /\ visit' = visit
        /\ \/ consent' = [consent EXCEPT ![c].pc = "away"]
           \/ consent' = [consent EXCEPT ![c].pc = "failed"]
        /\ consent[c].pc = "asking"
    BY <1>3 DEF Authorize
  <2>2. LegTimes'
    BY <2>1, <1>t, <1>l DEF LegTimes
  <2>3. \A d \in Consents : consent[d].pc = "away" => consent'[d].pc = "away"
    BY <2>1, <1>l
  <2> QED
    BY <2>1, <2>2, <2>3, <1>t DEF LinkRows, VisitLegs, AtWork
<1>4. ASSUME NEW c \in Consents, Grant(c) \/ Revoke(c)
      PROVE  LinkRows' /\ LegTimes' /\ VisitLegs'
  <2>1. now' = now /\ link' = link /\ visit' = visit /\ consent' = consent
    BY <1>4 DEF Grant, Revoke
  <2> QED
    BY <2>1, <1>t DEF LinkRows, LegTimes, VisitLegs, AtWork
<1>5. ASSUME NEW v \in Visits, NEW c \in Consents, NEW p \in Providers, ComeBack(v, c, p)
      PROVE  LinkRows' /\ LegTimes' /\ VisitLegs'
  <2>1. /\ now' = now /\ link' = link /\ consent' = consent /\ consent[c].pc = "away"
        /\ \A w \in Visits : w # v => visit'[w] = visit[w]
        /\ visit'[v].consent = c /\ (visit'[v].pc = "over" \/ visit'[v].end = "open")
    BY <1>5, <1>v DEF ComeBack, NewVisit
  <2>2. VisitLegs'
    BY <2>1, <1>t, NoneAssumption DEF VisitLegs, AtWork
  <2> QED
    BY <2>1, <2>2, <1>t DEF LinkRows, LegTimes
<1>6. ASSUME NEW v \in Visits, VisitStep(v) PROVE LinkRows' /\ LegTimes' /\ VisitLegs'
  <2>1. /\ now' = now /\ consent' = consent
        /\ \A w \in Visits : w # v => visit'[w] = visit[w]
        /\ visit'[v].consent = visit[v].consent
        /\ AtWork(v)
        /\ visit'[v].pc = "over" \/ visit'[v].end = visit[v].end
    BY <1>6, <1>t DEF VisitStep, Check, Claim, FindAccount, Save, End, AtWork, TypeOK
  <2>2. VisitLegs'
    BY <2>1, <1>t DEF VisitLegs, AtWork
  <2>3. \/ link' = link
        \/ link' = [link EXCEPT ![LinkOf(v)].used = now] /\ now < link[LinkOf(v)].expires
    BY <1>6 DEF VisitStep, Check, Claim, Claimable, Usable, FindAccount, Save
  <2>4. LinkOf(v) \in Links /\ link[LinkOf(v)].minted # Fresh
    BY <2>1, <1>t, ClaimTouches
  <2>5. LinkRows'
    <3>1. CASE link' = link
      BY <2>1, <3>1, <1>t, <1>6 DEF LinkRows, VisitStep, Check, Claim, FindAccount, Save
    <3>2. CASE /\ link' = [link EXCEPT ![LinkOf(v)].used = now]
               /\ now < link[LinkOf(v)].expires
      BY <3>2, <2>4, <1>l, <1>t DEF LinkRows
    <3> QED
      BY <2>3, <3>1, <3>2
  <2>6. \A l \in Links : link'[l].minted = link[l].minted /\ link'[l].expires = link[l].expires
    BY <2>3, <1>l
  <2>7. LegTimes'
    BY <2>1, <2>6, <1>t DEF LegTimes
  <2> QED
    BY <2>2, <2>5, <2>7
<1>7. CASE Tick
  <2>1. now' = now + 1 /\ link' = link /\ consent' = consent /\ visit' = visit
    BY <1>7 DEF Tick
  <2> QED
    BY <2>1, <1>t, <1>n, <1>l DEF LinkRows, LegTimes, VisitLegs, AtWork
<1>8. CASE Crash
  <2>1. /\ now' = now /\ link' = link
        /\ \A c \in Consents : \/ consent'[c] = consent[c]
                               \/ consent[c].pc = "asking" /\ consent'[c].pc = "failed"
        /\ \A v \in Visits : /\ visit'[v].consent = visit[v].consent
                             /\ visit'[v] = visit[v] \/ visit'[v].pc = "over"
    <3>1. now' = now /\ link' = link
      BY <1>8 DEF Crash
    <3>2. \A c \in Consents : \/ consent'[c] = consent[c]
                              \/ consent[c].pc = "asking" /\ consent'[c].pc = "failed"
      BY <1>8, <1>l DEF Crash
    <3>3. \A v \in Visits : /\ visit'[v].consent = visit[v].consent
                            /\ visit'[v] = visit[v] \/ visit'[v].pc = "over"
      BY <1>8, <1>v DEF Crash
    <3> QED
      BY <3>1, <3>2, <3>3
  <2> QED
    BY <2>1, <1>t DEF LinkRows, LegTimes, VisitLegs, AtWork
<1>9. CASE UNCHANGED vars
  BY <1>9, <1>t DEF vars, LinkRows, LegTimes, VisitLegs, AtWork
<1> QED
  BY <1>1, <1>2, <1>3, <1>4, <1>5, <1>6, <1>7, <1>8, <1>9 DEF Next

\* Whoever comes back within the consent's time is let in unless the link was
\* used: Extend moves the end of the link past that of every consent under it.
THEOREM HonoursConsent == Spec => []ConsentIsHonoured
<1>1. Init => TimeInv
  BY TimeInit
<1>2. TimeInv /\ [Next]_vars => TimeInv'
  BY TimeStep
<1>3. TimeInv => ConsentIsHonoured
  <2> SUFFICES ASSUME TimeInv, NEW c \in Consents,
                      consent[c].pc \in {"asking", "away"},
                      now < consent[c].signed + ConsentTTL,
                      link[consent[c].link].used = Fresh
               PROVE  Usable(consent[c].link) /\ SignatureHolds(consent[c].signed, ConsentTTL)
    BY DEF ConsentIsHonoured
  <2>1. /\ consent[c].link \in Links
        /\ link[consent[c].link].minted # Fresh
        /\ consent[c].signed + ConsentTTL <= link[consent[c].link].expires
    BY DEF TimeInv, LegTimes
  <2>2. now \in Int /\ consent[c].signed \in Int /\ ConsentTTL \in Int
    BY TimeAssumption DEF TimeInv, TypeOK, Times
  <2>3. link[consent[c].link].expires \in Int
    BY <2>1 DEF TimeInv, TypeOK
  <2> QED
    BY <2>1, <2>2, <2>3 DEF Usable, SignatureHolds
<1> QED
  BY <1>1, <1>2, <1>3, PTL DEF Spec

-----------------------------------------------------------------------------
(***************************************************************************)
(* One claim.  While nobody has used a link no visit is past its claim; a  *)
(* visit between claim and save is the only one, and nothing was saved.    *)
(***************************************************************************)
OneClaim ==
    \A l \in Links :
        /\ link[l].used = Fresh => notified[l] = 0 /\ \A v \in Visits : ~ ClaimedBy(v, l)
        /\ notified[l] <= 1
        /\ \A v, w \in Visits : ClaimedBy(v, l) /\ ClaimedBy(w, l) => v = w
        /\ \A v \in Visits : ClaimedBy(v, l) /\ visit[v].pc \in {"claimed", "found"}
                               => notified[l] = 0
ClaimInv == TimeInv /\ OneClaim

LEMMA ClaimInit == Init => ClaimInv
<1> SUFFICES ASSUME Init PROVE OneClaim
  BY TimeInit DEF ClaimInv
<1>1. \A l \in Links : notified[l] = 0
  BY DEF Init
<1>2. \A v \in Visits : visit[v].consent = None
  BY DEF Init, NewVisit
<1> QED
  BY <1>1, <1>2 DEF OneClaim, ClaimedBy

\* A step that claims and saves nothing.
LEMMA ClaimsNothing ==
    ASSUME OneClaim, notified' = notified,
           \A l \in Links : link'[l].used = link[l].used,
           \A v \in Visits, l \in Links : ClaimedBy(v, l)' =>
               /\ ClaimedBy(v, l)
               /\ visit'[v].pc \in {"claimed", "found"} => visit[v].pc \in {"claimed", "found"}
    PROVE  OneClaim'
BY DEF OneClaim

LEMMA ClaimStep == ClaimInv /\ [Next]_vars => ClaimInv'
<1> SUFFICES ASSUME ClaimInv, [Next]_vars PROVE OneClaim'
  BY TimeStep DEF ClaimInv
<1>t. TypeOK /\ LinkRows /\ LegTimes /\ VisitLegs /\ OneClaim
  BY DEF ClaimInv, TimeInv
<1>n. now \in Nat
  BY <1>t, TimeAssumption DEF TypeOK
<1>l. /\ link \in [Links -> [minted : Times, expires : Int, used : Times]]
      /\ notified \in [Links -> Nat]
  BY <1>t DEF TypeOK
<1>c. consent \in [Consents -> [pc : {"none", "asking", "away", "failed"},
                                link : Links \cup {None}, signed : Times]]
  BY <1>t DEF TypeOK
<1>v. visit \in [Visits ->
        [pc : {"none", "checking", "claiming", "claimed", "found", "over"},
         end : {"open", "expired", "refused", "missing", "failed", "connected"},
         consent : Consents \cup {None}, slug : Providers \cup {None},
         found : Consents \cup {None}, knew : Nat]]
  BY <1>t DEF TypeOK
<1>1. ASSUME notified' = notified, visit' = visit,
             \A l \in Links : link'[l].used = link[l].used,
             \A c \in Consents : consent[c].pc = "away" => consent'[c].link = consent[c].link
      PROVE  OneClaim'
  <2>1. \A v \in Visits : visit[v].consent # None => LinkOf(v)' = LinkOf(v)
    BY <1>1, <1>t DEF LinkOf, VisitLegs
  <2> QED
    BY <1>1, <1>t, <2>1, ClaimsNothing DEF ClaimedBy
<1>2. ASSUME NEW l \in Links, Mint(l) PROVE OneClaim'
  <2>1. \A k \in Links : link'[k].used = link[k].used
    BY <1>2, <1>l, <1>t DEF Mint, LinkRows
  <2> QED
    BY <1>2, <2>1, <1>1 DEF Mint
<1>3. ASSUME NEW l \in Links, NEW p \in Providers, NEW c \in Consents, Start(l, p, c)
      PROVE  OneClaim'
  <2>1. \A k \in Links : link'[k].used = link[k].used
    BY <1>3, <1>l DEF Start, Extend
  <2>2. \A d \in Consents : consent[d].pc = "away" => consent'[d].link = consent[d].link
    BY <1>3, <1>c DEF Start
  <2> QED
    BY <1>3, <2>1, <2>2, <1>1 DEF Start
<1>4. ASSUME NEW c \in Consents, Authorize(c) PROVE OneClaim'
  <2>1. \A d \in Consents : consent[d].pc = "away" => consent'[d].link = consent[d].link
    BY <1>4, <1>c DEF Authorize
  <2> QED
    BY <1>4, <2>1, <1>1 DEF Authorize
<1>5. ASSUME NEW c \in Consents, Grant(c) \/ Revoke(c) PROVE OneClaim'
  BY <1>5, <1>1 DEF Grant, Revoke
<1>6. ASSUME NEW v \in Visits, notified' = notified, consent' = consent,
             \A l \in Links : link'[l].used = link[l].used,
             \A w \in Visits : w # v => visit'[w] = visit[w],
             \/ visit'[v].pc \notin {"claimed", "found"} /\ visit'[v].end # "connected"
             \/ /\ visit'[v].consent = visit[v].consent
                /\ visit[v].pc \in {"claimed", "found"}
      PROVE  OneClaim'
  <2>1. \A w \in Visits : visit'[w].consent = visit[w].consent => LinkOf(w)' = LinkOf(w)
    BY <1>6 DEF LinkOf
  <2>2. ASSUME NEW w \in Visits, NEW l \in Links, ClaimedBy(w, l)'
        PROVE  /\ ClaimedBy(w, l)
               /\ visit'[w].pc \in {"claimed", "found"} => visit[w].pc \in {"claimed", "found"}
    BY <1>6, <2>1, <2>2 DEF ClaimedBy
  <2> QED
    BY <1>6, <2>2, <1>t, ClaimsNothing
<1>7. ASSUME NEW v \in Visits, NEW c \in Consents, NEW p \in Providers, ComeBack(v, c, p)
      PROVE  OneClaim'
  <2>1. /\ visit'[v].pc \notin {"claimed", "found"} /\ visit'[v].end # "connected"
        /\ \A w \in Visits : w # v => visit'[w] = visit[w]
    BY <1>7, <1>v DEF ComeBack, NewVisit
  <2> QED
    BY <1>7, <2>1, <1>6 DEF ComeBack
<1>8. ASSUME NEW v \in Visits, Check(v) PROVE OneClaim'
  <2>1. /\ visit'[v].pc \notin {"claimed", "found"} /\ visit'[v].end # "connected"
        /\ \A w \in Visits : w # v => visit'[w] = visit[w]
    BY <1>8, <1>v, <1>t DEF Check, End, VisitLegs, AtWork
  <2> QED
    BY <1>8, <2>1, <1>6 DEF Check
<1>9. ASSUME NEW v \in Visits, Claim(v) PROVE OneClaim'
  <2>1. CASE Claimable(v)
    <3> DEFINE k == LinkOf(v)
    <3>1. k \in Links /\ visit[v].consent # None
      BY <1>9, <1>t, ClaimTouches DEF Claim, AtWork, VisitLegs
    <3>2. link[k].used = Fresh
      BY <2>1 DEF Claimable, Usable
    <3>3. notified[k] = 0 /\ \A w \in Visits : ~ ClaimedBy(w, k)
      BY <3>1, <3>2, <1>t DEF OneClaim
    <3>4. link'[k].used # Fresh /\ \A l \in Links : l # k => link'[l] = link[l]
      BY <1>9, <2>1, <3>1, <1>l, <1>n DEF Claim, Fresh
    <3>5. /\ \A w \in Visits : w # v => visit'[w] = visit[w]
          /\ visit'[v].consent = visit[v].consent
          /\ notified' = notified /\ consent' = consent
      BY <1>9, <2>1, <1>v DEF Claim
    <3>6. \A w \in Visits : LinkOf(w)' = LinkOf(w)
      BY <3>5 DEF LinkOf
    <3>7. \A w \in Visits, l \in Links : w # v \/ l # k => (ClaimedBy(w, l)' => ClaimedBy(w, l))
      BY <3>5, <3>6 DEF ClaimedBy
    <3> HIDE DEF k
    <3>8. ASSUME NEW l \in Links, l # k
          PROVE  \A w \in Visits : ClaimedBy(w, l)' => w # v
      BY <3>5, <3>6, <3>8 DEF ClaimedBy, k
    <3> QED
      BY <3>1, <3>3, <3>4, <3>5, <3>7, <3>8, <1>t DEF OneClaim
  <2>2. CASE ~ Claimable(v)
    <3>1. /\ visit'[v].pc \notin {"claimed", "found"} /\ visit'[v].end # "connected"
          /\ \A w \in Visits : w # v => visit'[w] = visit[w]
      BY <1>9, <2>2, <1>v DEF Claim, End
    <3> QED
      BY <1>9, <2>2, <3>1, <1>6 DEF Claim
  <2> QED
    BY <2>1, <2>2
<1>10. ASSUME NEW v \in Visits, FindAccount(v) PROVE OneClaim'
  <2>1. /\ visit'[v].consent = visit[v].consent /\ visit[v].pc \in {"claimed", "found"}
        /\ \A w \in Visits : w # v => visit'[w] = visit[w]
    BY <1>10, <1>v DEF FindAccount, End
  <2> QED
    BY <1>10, <2>1, <1>6 DEF FindAccount
<1>11. ASSUME NEW v \in Visits, Save(v) PROVE OneClaim'
  <2>1. /\ visit[v].pc = "found" /\ visit'[v].pc = "over"
        /\ visit'[v].consent = visit[v].consent
        /\ \A w \in Visits : w # v => visit'[w] = visit[w]
    BY <1>11, <1>v DEF Save, End
  <2>2. CASE notified' = notified
    BY <1>11, <2>1, <2>2, <1>6 DEF Save
  <2>3. CASE notified' = [notified EXCEPT ![LinkOf(v)] = @ + 1]
    <3> DEFINE k == LinkOf(v)
    <3>1. k \in Links /\ visit[v].consent # None
      BY <2>1, <1>t, ClaimTouches DEF AtWork, VisitLegs
    <3>2. ClaimedBy(v, k)
      BY <2>1, <3>1 DEF ClaimedBy
    <3>3. notified[k] = 0 /\ link[k].used # Fresh
      BY <2>1, <3>1, <3>2, <1>t DEF OneClaim
    <3>4. notified'[k] = 1 /\ \A l \in Links : l # k => notified'[l] = notified[l]
      BY <2>3, <3>1, <3>3, <1>l
    <3>5. link' = link /\ consent' = consent
      BY <1>11 DEF Save
    <3>6. \A w \in Visits : LinkOf(w)' = LinkOf(w)
      BY <2>1, <3>5 DEF LinkOf
    <3>7. \A w \in Visits, l \in Links : ClaimedBy(w, l)' => ClaimedBy(w, l)
      BY <2>1, <3>6 DEF ClaimedBy
    <3> HIDE DEF k
    <3> QED
      BY <2>1, <3>1, <3>2, <3>3, <3>4, <3>5, <3>7, <1>t DEF OneClaim
  <2> QED
    BY <1>11, <2>2, <2>3 DEF Save
<1>12. CASE Tick
  BY <1>12, <1>1 DEF Tick
<1>13. CASE Crash
  <2>1. \A c \in Consents : consent'[c].link = consent[c].link
    BY <1>13, <1>c DEF Crash
  <2>2. \A v \in Visits : \/ visit'[v] = visit[v]
                          \/ visit'[v].pc = "over" /\ visit'[v].end = "failed"
    BY <1>13, <1>v DEF Crash
  <2>3. \A v \in Visits : visit'[v] = visit[v] /\ visit[v].consent # None
                            => LinkOf(v)' = LinkOf(v)
    BY <2>1, <1>t DEF LinkOf, VisitLegs
  <2>4. \A v \in Visits, l \in Links : ClaimedBy(v, l)' =>
            /\ ClaimedBy(v, l)
            /\ visit'[v].pc \in {"claimed", "found"} => visit[v].pc \in {"claimed", "found"}
    BY <2>2, <2>3 DEF ClaimedBy
  <2> QED
    BY <1>13, <2>4, <1>t, ClaimsNothing DEF Crash
<1>14. CASE UNCHANGED vars
  BY <1>14, <1>1 DEF vars
<1> QED
  BY <1>2, <1>3, <1>4, <1>5, <1>7, <1>8, <1>9, <1>10, <1>11, <1>12, <1>13, <1>14
     DEF Next, VisitStep

\* However often and however late a browser calls back, a link is claimed by
\* one visit and tells the person once (claim_connect_link).
THEOREM WorksOnce == Spec => []LinkWorksOnce
<1>1. Init => ClaimInv
  BY ClaimInit
<1>2. ClaimInv /\ [Next]_vars => ClaimInv'
  BY ClaimStep
<1>3. ClaimInv => LinkWorksOnce
  BY DEF ClaimInv, OneClaim, LinkWorksOnce
<1> QED
  BY <1>1, <1>2, <1>3, PTL DEF Spec

-----------------------------------------------------------------------------
(***************************************************************************)
(* Accounts.  An account has one place in the order of the updates, the    *)
(* saved one has a place and is of its provider, and the one a visit found *)
(* was the newest of those that were active when it asked: whatever was    *)
(* between it and the end of the order then is gone.                       *)
(***************************************************************************)
Source(c) == ProviderOf[consent[c].link]
Ranks == 1 .. Len(activated)
AccountsAreAway == \A c \in Consents : account[c] # "none" => consent[c].pc = "away"
RankedOnce ==
    /\ \A i \in Ranks : account[activated[i]] \in {"active", "gone"}
    /\ \A i, j \in Ranks : activated[i] = activated[j] => i = j
SavedIsRanked ==
    \A p \in Providers :
        integration[p] # None =>
            \E i \in Ranks : activated[i] = integration[p] /\ Source(activated[i]) = p
NewestWhenAsked(v, i) ==
    /\ activated[i] = visit[v].found
    /\ Source(activated[i]) = visit[v].slug
    /\ \A j \in 1 .. visit[v].knew :
         i < j /\ Source(activated[j]) = visit[v].slug => account[activated[j]] = "gone"
FoundIsNewest ==
    \A v \in Visits :
        visit[v].pc = "found" =>
            /\ visit[v].knew <= Len(activated)
            /\ \E i \in 1 .. visit[v].knew : NewestWhenAsked(v, i)
AccountInv == AccountsAreAway /\ RankedOnce /\ SavedIsRanked /\ FoundIsNewest

\* A step that activates, saves and finds nothing.
LEMMA AccountQuiet ==
    ASSUME TypeOK, AccountInv, UNCHANGED <<activated, integration>>,
           \A c \in Consents : account'[c] # "none" => consent'[c].pc = "away",
           \A c \in Consents :
             account[c] # "none" => consent'[c].link = consent[c].link,
           \A c \in Consents :
             /\ account[c] = "active" => account'[c] \in {"active", "gone"}
             /\ account[c] = "gone" => account'[c] = "gone",
           \A v \in Visits : visit'[v].pc = "found" => visit'[v] = visit[v]
    PROVE  AccountInv'
<1>1. /\ \A i \in Ranks : activated[i] \in Consents
      /\ Len(activated) \in Nat
      /\ \A v \in Visits : visit[v].knew \in Nat
  BY DEF TypeOK, Ranks
<1>2. \A i \in Ranks : /\ account[activated[i]] \in {"active", "gone"}
                       /\ account'[activated[i]] \in {"active", "gone"}
                       /\ account[activated[i]] = "gone" => account'[activated[i]] = "gone"
                       /\ Source(activated[i])' = Source(activated[i])
  BY <1>1 DEF AccountInv, RankedOnce, Source
<1>3. AccountsAreAway' /\ RankedOnce'
  BY <1>2 DEF AccountInv, AccountsAreAway, RankedOnce, Ranks
<1>4. SavedIsRanked'
  BY <1>2 DEF AccountInv, SavedIsRanked, Ranks
<1>5. ASSUME NEW v \in Visits, visit'[v].pc = "found"
      PROVE  /\ visit'[v].knew <= Len(activated')
             /\ \E i \in 1 .. visit'[v].knew : NewestWhenAsked(v, i)'
  <2>1. visit'[v] = visit[v] /\ visit[v].knew <= Len(activated)
    BY <1>5 DEF AccountInv, FoundIsNewest
  <2>2. PICK i \in 1 .. visit[v].knew : NewestWhenAsked(v, i)
    BY <1>5, <2>1 DEF AccountInv, FoundIsNewest
  <2>3. \A j \in 1 .. visit[v].knew : j \in Ranks
    BY <1>1, <2>1 DEF Ranks
  <2>4. NewestWhenAsked(v, i)'
    BY <1>2, <2>1, <2>2, <2>3 DEF NewestWhenAsked
  <2> QED
    BY <2>1, <2>2, <2>4
<1>6. FoundIsNewest'
  BY <1>5 DEF FoundIsNewest
<1> QED
  BY <1>3, <1>4, <1>6 DEF AccountInv

\* find_active_connected_account_id gives the one that was updated last.
LEMMA NewestIsLast ==
    ASSUME TypeOK, NEW p, Active(p) # {}
    PROVE  \E i \in Active(p) : Newest(p) = activated[i] /\ \A j \in Active(p) : j <= i
<1>1. Len(activated) \in Nat /\ Active(p) \in SUBSET (1 .. Len(activated))
  BY DEF TypeOK, Active
<1>2. \E i \in Active(p) : \A j \in Active(p) : j <= i
  BY <1>1, GreatestBelow
<1> QED
  BY <1>2 DEF Newest

LEMMA AccountStep == TypeOK /\ TypeOK' /\ AccountInv /\ [Next]_vars => AccountInv'
<1> SUFFICES ASSUME TypeOK, TypeOK', AccountInv, [Next]_vars PROVE AccountInv'
  OBVIOUS
<1>a. /\ account \in [Consents -> {"none", "initiated", "active", "gone"}]
      /\ activated \in Seq(Consents)
      /\ Len(activated) \in Nat
      /\ \A i \in Ranks : activated[i] \in Consents
  BY DEF TypeOK, Ranks
<1>c. consent \in [Consents -> [pc : {"none", "asking", "away", "failed"},
                                link : Links \cup {None}, signed : Times]]
  BY DEF TypeOK
<1>v. visit \in [Visits ->
        [pc : {"none", "checking", "claiming", "claimed", "found", "over"},
         end : {"open", "expired", "refused", "missing", "failed", "connected"},
         consent : Consents \cup {None}, slug : Providers \cup {None},
         found : Consents \cup {None}, knew : Nat]]
  BY DEF TypeOK
<1>k. \A v \in Visits : visit[v].knew \in Nat
  BY <1>v
<1>w. \A c \in Consents : account[c] # "none" => consent[c].pc = "away"
  BY DEF AccountInv, AccountsAreAway
<1>1. ASSUME NEW l \in Links, Mint(l) PROVE AccountInv'
  BY <1>1, <1>w, AccountQuiet DEF Mint
<1>2. ASSUME NEW l \in Links, NEW p \in Providers, NEW c \in Consents, Start(l, p, c)
      PROVE  AccountInv'
  <2>1. \A d \in Consents : account[d] # "none" => consent'[d] = consent[d]
    BY <1>2, <1>c, <1>w DEF Start
  <2> QED
    BY <1>2, <1>w, <2>1, AccountQuiet DEF Start
<1>3. ASSUME NEW c \in Consents, Authorize(c) PROVE AccountInv'
  <2>1. account[c] = "none"
    BY <1>3, <1>w DEF Authorize
  <2>2. /\ UNCHANGED <<activated, integration, visit>>
        /\ \A d \in Consents : d # c => account'[d] = account[d] /\ consent'[d] = consent[d]
        /\ account'[c] # "none" => consent'[c].pc = "away"
    BY <1>3, <1>a, <1>c, <2>1 DEF Authorize
  <2> QED
    BY <1>w, <2>1, <2>2, AccountQuiet
<1>4. ASSUME NEW c \in Consents, Grant(c) PROVE AccountInv'
  <2>1. /\ account[c] = "initiated"
        /\ account' = [account EXCEPT ![c] = "active"]
        /\ activated' = Append(activated, c)
        /\ UNCHANGED <<consent, visit, integration>>
    BY <1>4 DEF Grant
  <2>2. /\ Len(activated') = Len(activated) + 1
        /\ activated'[Len(activated) + 1] = c
        /\ \A i \in Ranks : activated'[i] = activated[i]
    BY <1>a, <2>1 DEF Ranks
  <2>3. /\ Ranks' = Ranks \cup {Len(activated) + 1}
        /\ Len(activated) + 1 \notin Ranks
    BY <1>a, <2>2 DEF Ranks
  <2>4. \A i \in Ranks : activated[i] # c /\ account'[activated[i]] = account[activated[i]]
    BY <1>a, <2>1 DEF AccountInv, RankedOnce
  <2>5. \A d : Source(d)' = Source(d)
    BY <2>1 DEF Source
  <2>6. AccountsAreAway'
    BY <1>a, <1>w, <2>1 DEF AccountsAreAway
  <2>7. RankedOnce'
    <3>1. \A i \in Ranks' : account'[activated'[i]] \in {"active", "gone"}
      <4>1. account'[activated'[Len(activated) + 1]] = "active"
        BY <1>a, <2>1, <2>2
      <4>2. \A i \in Ranks : account'[activated'[i]] = account[activated[i]]
        BY <2>2, <2>4
      <4> QED
        BY <2>3, <4>1, <4>2 DEF AccountInv, RankedOnce
    <3>2. \A i, j \in Ranks' : activated'[i] = activated'[j] => i = j
      BY <2>2, <2>3, <2>4 DEF AccountInv, RankedOnce
    <3> QED
      BY <3>1, <3>2 DEF RankedOnce
  <2>8. SavedIsRanked'
    BY <2>1, <2>2, <2>3, <2>5 DEF AccountInv, SavedIsRanked
  <2>9. ASSUME NEW v \in Visits, visit'[v].pc = "found"
        PROVE  /\ visit'[v].knew <= Len(activated')
               /\ \E i \in 1 .. visit'[v].knew : NewestWhenAsked(v, i)'
    <3>1. visit'[v] = visit[v] /\ visit[v].knew <= Len(activated)
      BY <2>1, <2>9 DEF AccountInv, FoundIsNewest
    <3>2. PICK i \in 1 .. visit[v].knew : NewestWhenAsked(v, i)
      BY <2>9, <3>1 DEF AccountInv, FoundIsNewest
    <3>3. \A j \in 1 .. visit[v].knew : j \in Ranks
      BY <1>a, <1>k, <3>1 DEF Ranks
    <3>4. NewestWhenAsked(v, i)'
      BY <2>2, <2>4, <2>5, <3>1, <3>2, <3>3 DEF NewestWhenAsked
    <3>5. visit[v].knew \in Nat
      BY <1>k
    <3> QED
      BY <1>a, <2>2, <3>1, <3>2, <3>4, <3>5
  <2>10. FoundIsNewest'
    BY <2>9 DEF FoundIsNewest
  <2> QED
    BY <2>6, <2>7, <2>8, <2>10 DEF AccountInv
<1>5. ASSUME NEW c \in Consents, Revoke(c) PROVE AccountInv'
  <2>1. /\ account[c] = "active" /\ account'[c] = "gone"
        /\ \A d \in Consents : d # c => account'[d] = account[d]
        /\ UNCHANGED <<activated, consent, visit, integration>>
    BY <1>5, <1>a DEF Revoke
  <2> QED
    BY <1>w, <2>1, AccountQuiet
<1>6. ASSUME NEW v \in Visits, NEW c \in Consents, NEW p \in Providers, ComeBack(v, c, p)
      PROVE  AccountInv'
  <2>1. /\ visit'[v].pc # "found"
        /\ \A u \in Visits : u # v => visit'[u] = visit[u]
    BY <1>6, <1>v DEF ComeBack, NewVisit
  <2> QED
    BY <1>6, <1>w, <2>1, AccountQuiet DEF ComeBack
<1>7. ASSUME NEW v \in Visits, Check(v) \/ Claim(v) PROVE AccountInv'
  <2>1. /\ visit'[v].pc # "found"
        /\ \A u \in Visits : u # v => visit'[u] = visit[u]
    BY <1>7, <1>v DEF Check, Claim, End
  <2> QED
    BY <1>7, <1>w, <2>1, AccountQuiet DEF Check, Claim
<1>8. ASSUME NEW v \in Visits, FindAccount(v) PROVE AccountInv'
  <2>1. /\ UNCHANGED <<consent, account, activated, integration>>
        /\ \A u \in Visits : u # v => visit'[u] = visit[u]
    BY <1>8, <1>v DEF FindAccount, End
  <2>2. CASE visit'[v].pc # "found"
    BY <1>w, <2>1, <2>2, AccountQuiet
  <2>3. CASE visit'[v].pc = "found"
    <3> DEFINE p == visit[v].slug
    <3>1. /\ Active(p) # {}
          /\ visit' = [visit EXCEPT ![v].pc = "found", ![v].found = Newest(p),
                                    ![v].knew = Len(activated)]
      BY <1>8, <1>v, <2>3 DEF FindAccount, End
    <3>2. PICK i \in Active(p) : Newest(p) = activated[i] /\ \A j \in Active(p) : j <= i
      BY <3>1, NewestIsLast
    <3>3. /\ i \in Ranks
          /\ Source(activated[i]) = p
      BY DEF Active, Ranks, Source
    <3>4. ASSUME NEW j \in Ranks, i < j, Source(activated[j]) = p
          PROVE  account[activated[j]] = "gone"
      <4>1. j \notin Active(p)
        BY <1>a, <3>2, <3>3, <3>4 DEF Ranks
      <4>2. account[activated[j]] # "active"
        BY <3>4, <4>1 DEF Active, Ranks, Source
      <4> QED
        BY <4>2 DEF AccountInv, RankedOnce
    <3>5. /\ visit'[v].found = activated[i]
          /\ visit'[v].slug = p
          /\ visit'[v].knew = Len(activated)
      BY <1>v, <3>1, <3>2
    <3>6. NewestWhenAsked(v, i)'
      BY <2>1, <3>3, <3>4, <3>5 DEF NewestWhenAsked, Source, Ranks
    <3>7. \A u \in Visits : u # v /\ visit[u].pc = "found" =>
            \E k \in 1 .. visit[u].knew : NewestWhenAsked(u, k)'
      <4>1. \A u \in Visits : u # v => \A k : (NewestWhenAsked(u, k) => NewestWhenAsked(u, k)')
        BY <2>1 DEF NewestWhenAsked, Source
      <4> QED
        BY <4>1 DEF AccountInv, FoundIsNewest
    <3>8. FoundIsNewest'
      <4> SUFFICES ASSUME NEW u \in Visits, visit'[u].pc = "found"
                   PROVE  /\ visit'[u].knew <= Len(activated')
                          /\ \E k \in 1 .. visit'[u].knew : NewestWhenAsked(u, k)'
        BY DEF FoundIsNewest
      <4>1. CASE u = v
        BY <1>a, <2>1, <3>3, <3>5, <3>6, <4>1 DEF Ranks
      <4>2. CASE u # v
        BY <2>1, <3>7, <4>2 DEF AccountInv, FoundIsNewest
      <4> QED
        BY <4>1, <4>2
    <3>9. AccountsAreAway' /\ RankedOnce' /\ SavedIsRanked'
      BY <2>1 DEF AccountInv, AccountsAreAway, RankedOnce, SavedIsRanked, Ranks, Source
    <3> QED
      BY <3>8, <3>9 DEF AccountInv
  <2> QED
    BY <2>2, <2>3
<1>9. ASSUME NEW v \in Visits, Save(v) PROVE AccountInv'
  <2>1. /\ UNCHANGED <<consent, account, activated>>
        /\ visit[v].pc = "found"
        /\ visit'[v].pc # "found"
        /\ \A u \in Visits : u # v => visit'[u] = visit[u]
    BY <1>9, <1>v DEF Save, End
  <2>2. CASE UNCHANGED integration
    BY <1>w, <2>1, <2>2, AccountQuiet
  <2>3. CASE integration' = [integration EXCEPT ![visit[v].slug] = visit[v].found]
    <3>1. PICK i \in 1 .. visit[v].knew : NewestWhenAsked(v, i)
      BY <2>1 DEF AccountInv, FoundIsNewest
    <3>2. i \in Ranks /\ activated[i] = visit[v].found /\ Source(activated[i]) = visit[v].slug
      BY <1>a, <1>k, <2>1, <3>1 DEF AccountInv, FoundIsNewest, NewestWhenAsked, Ranks
    <3>3. \A q \in Providers :
            \/ integration'[q] = integration[q]
            \/ q = visit[v].slug /\ integration'[q] = visit[v].found
      BY <2>3 DEF TypeOK
    <3>4. SavedIsRanked'
      BY <2>1, <3>2, <3>3 DEF AccountInv, SavedIsRanked, Ranks, Source
    <3>5. AccountsAreAway' /\ RankedOnce'
      BY <2>1 DEF AccountInv, AccountsAreAway, RankedOnce, Ranks
    <3>6. FoundIsNewest'
      <4>1. \A u \in Visits : u # v => \A k : (NewestWhenAsked(u, k) => NewestWhenAsked(u, k)')
        BY <2>1 DEF NewestWhenAsked, Source
      <4>2. \A u \in Visits : visit'[u].pc = "found" => u # v /\ visit'[u] = visit[u]
        BY <2>1
      <4> QED
        BY <2>1, <4>1, <4>2 DEF AccountInv, FoundIsNewest
    <3> QED
      BY <3>4, <3>5, <3>6 DEF AccountInv
  <2> QED
    BY <1>9, <2>2, <2>3 DEF Save
<1>10. CASE Tick
  BY <1>10, <1>w, AccountQuiet DEF Tick
<1>11. CASE Crash
  <2>1. \A c \in Consents : /\ consent'[c].link = consent[c].link
                            /\ consent[c].pc = "away" => consent'[c] = consent[c]
    BY <1>11, <1>c DEF Crash
  <2>2. \A v \in Visits : visit'[v] = visit[v] \/ visit'[v].pc = "over"
    BY <1>11, <1>v DEF Crash
  <2> QED
    BY <1>11, <1>w, <2>1, <2>2, AccountQuiet DEF Crash
<1>12. CASE UNCHANGED vars
  BY <1>12, <1>w, AccountQuiet DEF vars
<1> QED
  BY <1>1, <1>2, <1>3, <1>4, <1>5, <1>6, <1>7, <1>8, <1>9, <1>10, <1>11, <1>12
  DEF Next, VisitStep

\* An account has the one rank it was activated with.
LEMMA RankIsUnique ==
    ASSUME RankedOnce, NEW i \in Ranks
    PROVE  Rank(activated[i]) = i
<1>1. \E k \in 1 .. Len(activated) : activated[k] = activated[i]
  BY DEF Ranks
<1>2. Rank(activated[i]) \in Ranks /\ activated[Rank(activated[i])] = activated[i]
  BY <1>1 DEF Rank, Ranks
<1> QED
  BY <1>2 DEF RankedOnce

NewerAccountKept ==
    \A p \in Providers :
        integration[p] # None /\ integration'[p] # integration[p] =>
            \/ Rank(integration[p]) < Rank(integration'[p])
            \/ account[integration[p]] = "gone"
            \/ Overtaken(integration[p], integration'[p])

LEMMA NewerStep == TypeOK /\ AccountInv /\ [Next]_vars => [NewerAccountKept]_vars
<1> SUFFICES ASSUME TypeOK, AccountInv, [Next]_vars, NEW p \in Providers,
                    integration[p] # None, integration'[p] # integration[p]
             PROVE  \/ Rank(integration[p]) < Rank(integration'[p])
                    \/ account[integration[p]] = "gone"
                    \/ Overtaken(integration[p], integration'[p])
  BY DEF NewerAccountKept
<1>1. PICK v \in Visits : Save(v)
  BY DEF Next, VisitStep, Mint, Start, Authorize, Grant, Revoke, ComeBack, Check, Claim,
         FindAccount, Tick, Crash, vars
<1>2. /\ visit[v].pc = "found"
      /\ visit[v].slug = p
      /\ integration'[p] = visit[v].found
  BY <1>1 DEF Save, TypeOK
<1>3. PICK i \in 1 .. visit[v].knew : NewestWhenAsked(v, i)
  BY <1>2 DEF AccountInv, FoundIsNewest
<1>4. /\ visit[v].knew \in Nat
      /\ visit[v].knew <= Len(activated)
      /\ Len(activated) \in Nat
  BY <1>2 DEF AccountInv, FoundIsNewest, TypeOK
<1>5. i \in Ranks /\ Rank(integration'[p]) = i
  <2>1. i \in Ranks
    BY <1>3, <1>4 DEF Ranks
  <2> QED
    BY <1>2, <1>3, <2>1, RankIsUnique DEF AccountInv, NewestWhenAsked
<1>6. PICK r \in Ranks : activated[r] = integration[p] /\ Source(activated[r]) = p
  BY DEF AccountInv, SavedIsRanked
<1>7. Rank(integration[p]) = r
  BY <1>6, RankIsUnique DEF AccountInv
<1>8. r # i
  BY <1>2, <1>3, <1>6 DEF NewestWhenAsked
<1>9. CASE r < i
  BY <1>5, <1>7, <1>9
<1>10. CASE i < r /\ r <= visit[v].knew
  BY <1>2, <1>3, <1>4, <1>6, <1>10 DEF NewestWhenAsked, Ranks
<1>11. CASE visit[v].knew < r
  BY <1>2, <1>7, <1>11 DEF Overtaken
<1> QED
  BY <1>4, <1>5, <1>8, <1>9, <1>10, <1>11 DEF Ranks

\* Connecting again never brings back an older account, except for one that was revoked
\* or by a visit that had asked before the newer one came
\* (find_active_connected_account_id, upsert_integration).
THEOREM NewerStays == Spec => NewerAccountStays
<1>1. Init => AccountInv
  <2> SUFFICES ASSUME Init PROVE AccountInv
    OBVIOUS
  <2>1. /\ \A c \in Consents : account[c] = "none"
        /\ \A p \in Providers : integration[p] = None
        /\ \A v \in Visits : visit[v].pc = "none"
    BY DEF Init, NewVisit
  <2>2. Ranks = {}
    BY DEF Init, Ranks
  <2> QED
    BY <2>1, <2>2
    DEF AccountInv, AccountsAreAway, RankedOnce, SavedIsRanked, FoundIsNewest
<1>2. [NewerAccountKept]_vars <=>
      [\A p \in Providers :
          integration[p] # None /\ integration'[p] # integration[p] =>
              \/ Rank(integration[p]) < Rank(integration'[p])
              \/ account[integration[p]] = "gone"
              \/ Overtaken(integration[p], integration'[p])]_vars
  BY DEF NewerAccountKept
<1> QED
  BY <1>1, <1>2, TypeCorrect, AccountStep, NewerStep, PTL DEF Spec, NewerAccountStays

=============================================================================

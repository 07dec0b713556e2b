----------------------------- MODULE ConnectLink -----------------------------
(***************************************************************************)
(* Connecting an account of a provider (src/app/api/main.py, connect/,     *)
(* integrations/connect_link.py, integrations/composio.py and the connect  *)
(* links of db/integrations.py).                                           *)
(*                                                                         *)
(* A signed one-time link is minted and sent.  Opening it starts a consent *)
(* at Composio, which creates an account and comes back to the success     *)
(* callback.  That claims the link in one transaction, asks Composio which *)
(* account is active, and saves it in a second transaction together with   *)
(* the job that tells the person.  Visits may be repeated, overlap, come   *)
(* late or die half-way.  The nonce and the signature are abstracted to    *)
(* the link and the time of the signature; Composio is external.           *)
(*                                                                         *)
(* A definition named X_Y in front of X is X with a plausible bug Y.       *)
(***************************************************************************)
EXTENDS Integers, Sequences, FiniteSets

CONSTANTS
    Links,        \* connect_link rows, by nonce
    Providers,    \* slugs of the registry
    ProviderOf,   \* the provider a link was minted for
    Consents,     \* authorizations at Composio; each makes one account
    Visits,       \* requests of the success callback
    LinkTTL,      \* CONNECT_LINK_TTL and CONNECT_MAX_AGE_SECONDS
    ConsentTTL,   \* CONNECT_CONSENT_TTL and CONSENT_MAX_AGE_SECONDS
    MaxTime,      \* bound on the clock
    MaxFaults,    \* bound on crashes and failed transactions
    None

ASSUME ProviderAssumption == ProviderOf \in [Links -> Providers]
ASSUME NoneAssumption == None \notin Links \cup Consents
ASSUME TimeAssumption ==
    /\ LinkTTL \in Nat \ {0}
    /\ ConsentTTL \in Nat /\ ConsentTTL >= LinkTTL
    /\ MaxTime \in Nat
    /\ MaxFaults \in Nat

VARIABLES
    now,          \* the clock
    link,         \* connect_link: when minted, expires_at, who claimed it when
    consent,      \* a consent leg: its link, when it was signed, where it is
    account,      \* the status Composio gives the account of a consent
    activated,    \* those accounts by updated_at
    visit,        \* a run of connect_success
    integration,  \* integration.external_account_id by provider
    notified,     \* integration_notify jobs of a link
    faults

vars == <<now, link, consent, account, activated, visit, integration, notified, faults>>

Fresh == -1   \* no such time yet
NewLink == [minted |-> Fresh, expires |-> Fresh, used |-> Fresh]
NewConsent == [pc |-> "none", link |-> None, signed |-> Fresh]
NewVisit == [pc |-> "none", end |-> "open", consent |-> None, slug |-> None,
             found |-> None, knew |-> 0]

Init ==
    /\ now = 0
    /\ link = [l \in Links |-> NewLink]
    /\ consent = [c \in Consents |-> NewConsent]
    /\ account = [c \in Consents |-> "none"]
    /\ activated = <<>>
    /\ visit = [v \in Visits |-> NewVisit]
    /\ integration = [p \in Providers |-> None]
    /\ notified = [l \in Links |-> 0]
    /\ faults = 0

-----------------------------------------------------------------------------
\* unsign_connect_token: a signature of that age is still good.
SignatureHolds(signed, maxAge) == now - signed <= maxAge
\* get_usable_connect_link, and the WHERE of both UPDATEs.
Usable(l) == link[l].minted # Fresh /\ link[l].used = Fresh /\ now < link[l].expires

LinkOf(v) == consent[visit[v].consent].link
Fault == faults < MaxFaults /\ faults' = faults + 1

\* mint_connect_link.
Mint(l) ==
    /\ link[l].minted = Fresh
    /\ link' = [link EXCEPT ![l] = [minted |-> now, expires |-> now + LinkTTL, used |-> Fresh]]
    /\ UNCHANGED <<now, consent, account, activated, visit, integration, notified, faults>>

\* start_connect_link: the clock of the link is set anew for the consent.
Extend_Not(l) == link' = link
Extend(l) == link' = [link EXCEPT ![l].expires = now + ConsentTTL]

\* The signatures of a link that a browser can hold: the one it was sent with
\* and, with the same salt, the fresh one of each callback URL.
Signatures(l) ==
    {link[l].minted} \cup
    {consent[c].signed : c \in {d \in Consents : consent[d].pc = "away" /\ consent[d].link = l}}

\* connect_start reached through the URL of provider p.  The row is extended,
\* and committed, before the provider is compared.
MayStart(l) ==
    /\ link[l].minted # Fresh
    /\ \E signed \in Signatures(l) : SignatureHolds(signed, LinkTTL)
Start(l, p, c) ==
    /\ MayStart(l)
    /\ Usable(l)
    /\ consent[c].pc = "none"
    /\ Extend(l)
    /\ IF p = ProviderOf[l]
       THEN consent' = [consent EXCEPT ![c] = [pc |-> "asking", link |-> l, signed |-> now]]
       ELSE UNCHANGED consent
    /\ UNCHANGED <<now, account, activated, visit, integration, notified, faults>>

\* composio.authorize, which may fail or give no URL to redirect to.
Authorize(c) ==
    /\ consent[c].pc = "asking"
    /\ \/ /\ consent' = [consent EXCEPT ![c].pc = "away"]
          /\ account' = [account EXCEPT ![c] = "initiated"]
       \/ consent' = [consent EXCEPT ![c].pc = "failed"] /\ UNCHANGED account
    /\ UNCHANGED <<now, link, activated, visit, integration, notified, faults>>

\* Composio: the person grants the consent, however late, or takes it back.
Grant(c) ==
    /\ account[c] = "initiated"
    /\ account' = [account EXCEPT ![c] = "active"]
    /\ activated' = Append(activated, c)
    /\ UNCHANGED <<now, link, consent, visit, integration, notified, faults>>

Revoke(c) ==
    /\ account[c] = "active"
    /\ account' = [account EXCEPT ![c] = "gone"]
    /\ UNCHANGED <<now, link, consent, activated, visit, integration, notified, faults>>

-----------------------------------------------------------------------------
(***************************************************************************)
(* connect_success.                                                        *)
(***************************************************************************)
End(v, how) == visit' = [visit EXCEPT ![v].pc = "over", ![v].end = how]

\* The browser comes back, once or more often, to the URL of provider p.
ComeBack(v, c, p) ==
    /\ visit[v].pc = "none"
    /\ consent[c].pc = "away"
    /\ visit' = [visit EXCEPT ![v] =
                   IF SignatureHolds(consent[c].signed, ConsentTTL)
                   THEN [NewVisit EXCEPT !.pc = "checking", !.consent = c, !.slug = p]
                   ELSE [NewVisit EXCEPT !.pc = "over", !.end = "expired", !.consent = c]]
    /\ UNCHANGED <<now, link, consent, account, activated, integration, notified, faults>>

Check(v) ==
    /\ visit[v].pc = "checking"
    /\ IF Usable(LinkOf(v)) /\ visit[v].slug = ProviderOf[LinkOf(v)]
       THEN visit' = [visit EXCEPT ![v].pc = "claiming"]
       ELSE End(v, "refused")
    /\ UNCHANGED <<now, link, consent, account, activated, integration, notified, faults>>

\* claim_connect_link, in the same transaction: the UPDATE compares again.
Claimable_Checked(v) == TRUE
Claimable(v) == Usable(LinkOf(v))
Claim(v) ==
    /\ visit[v].pc = "claiming"
    /\ IF Claimable(v)
       THEN /\ link' = [link EXCEPT ![LinkOf(v)].used = now]
            /\ visit' = [visit EXCEPT ![v].pc = "claimed"]
       ELSE End(v, "refused") /\ UNCHANGED link
    /\ UNCHANGED <<now, consent, account, activated, integration, notified, faults>>

\* find_active_connected_account_id: the account of that toolkit that is active
\* and was updated last.  Whose consent made it is not asked.
Active(p) == {i \in 1 .. Len(activated) :
                account[activated[i]] = "active" /\ ProviderOf[consent[activated[i]].link] = p}
Newest_Oldest(p) == activated[CHOOSE i \in Active(p) : \A j \in Active(p) : i <= j]
Newest(p) == activated[CHOOSE i \in Active(p) : \A j \in Active(p) : j <= i]

FindAccount(v) ==
    /\ visit[v].pc = "claimed"
    /\ \/ IF Active(visit[v].slug) = {}
          THEN End(v, "missing")
          ELSE visit' = [visit EXCEPT ![v].pc = "found",
                                      ![v].found = Newest(visit[v].slug),
                                      ![v].knew = Len(activated)]
       \/ End(v, "failed")
    /\ UNCHANGED <<now, link, consent, account, activated, integration, notified, faults>>

\* upsert_integration and enqueue_integration_notify in one transaction.
Save(v) ==
    /\ visit[v].pc = "found"
    /\ \/ /\ integration' = [integration EXCEPT ![visit[v].slug] = visit[v].found]
          /\ notified' = [notified EXCEPT ![LinkOf(v)] = @ + 1]
          /\ End(v, "connected")
          /\ UNCHANGED faults
       \/ Fault /\ End(v, "failed") /\ UNCHANGED <<integration, notified>>
    /\ UNCHANGED <<now, link, consent, account, activated>>

-----------------------------------------------------------------------------
Tick ==
    /\ now < MaxTime
    /\ now' = now + 1
    /\ UNCHANGED <<link, consent, account, activated, visit, integration, notified, faults>>

\* The process dies with the requests it serves.
Crash ==
    /\ Fault
    /\ visit' = [v \in Visits |->
                   IF visit[v].pc \in {"none", "over"} THEN visit[v]
                   ELSE [visit[v] EXCEPT !.pc = "over", !.end = "failed"]]
    /\ consent' = [c \in Consents |->
                     IF consent[c].pc = "asking" THEN [consent[c] EXCEPT !.pc = "failed"]
                     ELSE consent[c]]
    /\ UNCHANGED <<now, link, account, activated, integration, notified>>

VisitStep(v) == Check(v) \/ Claim(v) \/ FindAccount(v) \/ Save(v)

Next ==
    \/ \E l \in Links : Mint(l)
    \/ \E l \in Links, p \in Providers, c \in Consents : Start(l, p, c)
    \/ \E c \in Consents : Authorize(c) \/ Grant(c) \/ Revoke(c)
    \/ \E v \in Visits, c \in Consents, p \in Providers : ComeBack(v, c, p)
    \/ \E v \in Visits : VisitStep(v)
    \/ Tick
    \/ Crash

Spec == Init /\ [][Next]_vars

-----------------------------------------------------------------------------
\* Every variable stays in its range.
Times == -1 .. MaxTime
TypeOK ==
    /\ now \in 0 .. MaxTime
    /\ link \in [Links -> [minted : Times, expires : Int, used : Times]]
    /\ consent \in [Consents -> [pc : {"none", "asking", "away", "failed"},
                                 link : Links \cup {None}, signed : Times]]
    /\ account \in [Consents -> {"none", "initiated", "active", "gone"}]
    /\ activated \in Seq(Consents)
    /\ visit \in [Visits ->
                    [pc : {"none", "checking", "claiming", "claimed", "found", "over"},
                     end : {"open", "expired", "refused", "missing", "failed", "connected"},
                     consent : Consents \cup {None}, slug : Providers \cup {None},
                     found : Consents \cup {None}, knew : Nat]]
    /\ integration \in [Providers -> Consents \cup {None}]
    /\ notified \in [Links -> Nat]
    /\ faults \in 0 .. MaxFaults

\* Two callbacks of one link, a double tap or a retry of the browser, cannot
\* both go on: one link is claimed by one visit and tells the person once.
ClaimedBy(v, l) ==
    /\ visit[v].consent # None /\ LinkOf(v) = l
    /\ visit[v].pc \in {"claimed", "found"} \/ visit[v].end = "connected"
LinkWorksOnce ==
    \A l \in Links :
        /\ notified[l] <= 1
        /\ \A v, w \in Visits : ClaimedBy(v, l) /\ ClaimedBy(w, l) => v = w

\* Whoever left for the consent within the life of the link and comes back
\* within the consent's own time is let in, unless the link was used meanwhile:
\* the link never runs out under a consent that is still being given.
ConsentIsHonoured ==
    \A c \in Consents :
        /\ consent[c].pc \in {"asking", "away"}
        /\ now < consent[c].signed + ConsentTTL
        /\ link[consent[c].link].used = Fresh
        => Usable(consent[c].link) /\ SignatureHolds(consent[c].signed, ConsentTTL)

\* Connecting again replaces the account by a newer one.  An older one returns
\* only when the newer was revoked, or when a visit that had looked before the
\* newer one came saves after it.
Rank(c) == CHOOSE i \in 1 .. Len(activated) : activated[i] = c
Overtaken(old, new) ==
    \E v \in Visits :
        visit[v].pc = "found" /\ visit[v].found = new /\ visit[v].knew < Rank(old)
NewerAccountStays ==
    [][\A p \in Providers :
          integration[p] # None /\ integration'[p] # integration[p] =>
              \/ Rank(integration[p]) < Rank(integration'[p])
              \/ account[integration[p]] = "gone"
              \/ Overtaken(integration[p], integration'[p])]_vars
=============================================================================

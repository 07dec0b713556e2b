---------------------------- MODULE MailRequests ----------------------------
(***************************************************************************)
(* The requests of the Gmail tools (src/app/integrations/gmail.py,         *)
(* agent/gmail_tools.py): a search read page by page, each page with one   *)
(* more request per message, and a draft that is created at the provider   *)
(* and then staged for a later confirmation.                               *)
(*                                                                         *)
(* A definition named X_Y in front of X is X with a plausible bug Y; no    *)
(* action uses it.                                                         *)
(***************************************************************************)
EXTENDS Integers, Sequences

CONSTANTS
    Mailbox,           \* the messages that match, in the provider's order
    Unreadable,        \* those whose metadata cannot be normalized
    MaxSearchResults,  \* MAX_SEARCH_RESULTS
    Recipients,        \* values of to and subject that pass the validation
    Invalid,           \* one that does not
    MaxDrafts,         \* bound on the drafts at the provider
    MaxMailFaults      \* bound on the requests that fail

ASSUME MailBounds ==
    /\ MaxSearchResults \in Nat \ {0}
    /\ MaxDrafts \in Nat /\ MaxMailFaults \in Nat
ASSUME MailInvalid == Invalid \notin Recipients
ASSUME MailboxInOrder == Mailbox \in Seq({Mailbox[i] : i \in DOMAIN Mailbox})

Drafts == 1 .. MaxDrafts

VARIABLES
    goal,      \* the markers found in the run's goal
    token,     \* where the next page starts, 0 after the last
    found,     \* what the searches have returned so far
    drafts,    \* recipients of the drafts at the provider
    drafting,  \* the create_email_draft call between its requests
    proposals, \* the payloads staged
    mailFaults

mailVars == <<goal, token, found, drafts, drafting, proposals, mailFaults>>
searchVars == <<token, found>>
draftVars == <<drafts, drafting, proposals>>

-----------------------------------------------------------------------------
\* goal_implies_email_send: a goal that speaks of sending mail is to send it,
\* also when it speaks of a draft.
Markers == {"email", "send", "draft"}
ImpliesSend == {"email", "send"} \subseteq goal

Idle == [pc |-> "idle", to |-> Invalid, draft |-> 0]

MailInit ==
    /\ goal \in SUBSET Markers
    /\ token = 1
    /\ found = <<>>
    /\ drafts = <<>>
    /\ drafting = Idle
    /\ proposals = {}
    /\ mailFaults = 0

FaultHappens == mailFaults < MaxMailFaults /\ mailFaults' = mailFaults + 1

-----------------------------------------------------------------------------
(***************************************************************************)
(* search_emails: messages.list with maxResults and the page token of the  *)
(* answer before, then messages.get for each reference, all at once.       *)
(***************************************************************************)
Slice(s, first, last) == SubSeq(s, first, IF last > Len(s) THEN Len(s) ELSE last)

\* The provider's page, and the token of the next one.
Page(n) == Slice(Mailbox, token, token + n - 1)
NextToken(n) == IF token + n > Len(Mailbox) THEN 0 ELSE token + n

\* search_request refuses other sizes, normalize_search_page cuts longer pages.
Sizes == 1 .. MaxSearchResults
References(n) == Slice(Page(n), 1, MaxSearchResults)

Readable(refs) == SelectSeq(refs, LAMBDA m : m \notin Unreadable)

SearchEmails(n) ==
    /\ token # 0
    /\ n \in Sizes
    /\ found' = found \o Readable(References(n))
    /\ token' = NextToken(n)
    /\ UNCHANGED <<goal, draftVars, mailFaults>>

\* One request fails: the call answers that it failed and returns nothing.
SearchFails_KeepsTheRest(n) ==
    /\ token # 0
    /\ n \in Sizes
    /\ FaultHappens
    /\ found' = found \o Tail(Readable(References(n)))
    /\ token' = NextToken(n)
    /\ UNCHANGED <<goal, draftVars>>
SearchFails(n) ==
    /\ token # 0
    /\ n \in Sizes
    /\ FaultHappens
    /\ UNCHANGED <<goal, searchVars, draftVars>>

-----------------------------------------------------------------------------
(***************************************************************************)
(* create_email_draft: drafts.create, then the proposal, when the goal is  *)
(* to send.  The fields are validated before the first request.            *)
(***************************************************************************)
CreateEmailDraft(to) ==
    /\ drafting = Idle
    /\ to \in Recipients
    /\ drafting' = [pc |-> "requested", to |-> to, draft |-> 0]
    /\ UNCHANGED <<goal, searchVars, drafts, proposals, mailFaults>>

\* The provider creates the draft and answers with its id.
DraftCreated ==
    /\ drafting.pc = "requested"
    /\ Len(drafts) < MaxDrafts
    /\ drafts' = Append(drafts, drafting.to)
    /\ drafting' = IF ImpliesSend
                   THEN [drafting EXCEPT !.pc = "staging", !.draft = Len(drafts')]
                   ELSE Idle
    /\ UNCHANGED <<goal, searchVars, proposals, mailFaults>>

\* The request raises, or the answer holds no id; the draft may exist.
DraftFails_Stages ==
    /\ drafting.pc = "requested"
    /\ FaultHappens
    /\ drafting' = IF ImpliesSend
                   THEN [drafting EXCEPT !.pc = "staging", !.draft = Len(drafts) + 1]
                   ELSE Idle
    /\ UNCHANGED <<goal, searchVars, drafts, proposals>>
DraftFails ==
    /\ drafting.pc = "requested"
    /\ FaultHappens
    /\ drafts' \in {drafts} \cup
         IF Len(drafts) < MaxDrafts THEN {Append(drafts, drafting.to)} ELSE {}
    /\ drafting' = Idle
    /\ UNCHANGED <<goal, searchVars, proposals>>

\* stage_send_email on the id of the answer: the proposal shows to.  Its
\* integration look-up or its transaction may fail, which leaves the draft.
StageDraft ==
    /\ drafting.pc = "staging"
    /\ proposals' = proposals \cup {[draft |-> drafting.draft, to |-> drafting.to]}
    /\ drafting' = Idle
    /\ UNCHANGED <<goal, searchVars, drafts, mailFaults>>
StagingFails ==
    /\ drafting.pc = "staging"
    /\ FaultHappens
    /\ drafting' = Idle
    /\ UNCHANGED <<goal, searchVars, drafts, proposals>>

MailNext ==
    \/ \E n \in 1 .. MaxSearchResults + 1 : SearchEmails(n) \/ SearchFails(n)
    \/ \E to \in Recipients \cup {Invalid} : CreateEmailDraft(to)
    \/ DraftCreated
    \/ DraftFails
    \/ StageDraft
    \/ StagingFails

-----------------------------------------------------------------------------
(***************************************************************************)
(* Properties.                                                             *)
(***************************************************************************)

\* Whoever follows the page tokens has seen every message that matches, each
\* once and in the provider's order, whatever sizes were asked and whichever
\* requests failed in between (search_emails, normalize_search_page).
SearchMissesNothing ==
    LET seen == IF token = 0 THEN Len(Mailbox) ELSE token - 1
    IN  found = Readable(SubSeq(Mailbox, 1, seen))

\* A proposal that the draft tool stages by itself names a draft that the
\* provider has, shows the recipient that draft is for, and only follows a goal
\* that is to send (create_email_draft, goal_implies_email_send).
ProposalsAreDrafted ==
    \A p \in proposals :
        /\ p.draft \in 1 .. Len(drafts)
        /\ drafts[p.draft] = p.to
        /\ "send" \in goal

=============================================================================

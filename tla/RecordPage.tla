------------------------------ MODULE RecordPage ------------------------------
(***************************************************************************)
(* The page of one record: what it holds of the record and of its delivery *)
(* job, the edit form, and the requests its buttons send.  The server's    *)
(* side is RecordEditing's, cut down to what an answer shows.  One delivery *)
(* badge stands for both; resending a webhook, the two tables of attempts  *)
(* and the wording of errors are left out.                                 *)
(***************************************************************************)
EXTENDS Naturals

CONSTANTS
    Records, Fields, Values,
    Odd,            \* values that fail validation
    Coerced,        \* what validation stores for a value
    Before,         \* the fields each record has at first
    MaxActs,        \* bound: what the user, other users and the worker do
    None

ASSUME RecordPageAssumption ==
    /\ Odd \subseteq Values
    /\ Coerced \in [Values -> Values]
    /\ Before \in [Records -> [Fields -> Values]]
    /\ MaxActs \in Nat
    /\ None \notin Records

VARIABLES
    \* the server
    live, fields, approved, job,
    \* the page
    page,           \* the id in the address, None on any other page
    record,         \* what the page holds of a record
    badge,          \* webhookStatus, provisioningStatus
    loading, failed,
    loads,          \* the reads of the page's effect, by record
    editing, draft, confirming,
    sent,           \* the request of each button, and what it has answered
    \* history
    typed, late,    \* fields typed in the form: since it opened, since Save
    swapped,        \* the record was replaced since the form opened
    blurred,        \* something the page cannot know of, or has not heard
    acts

server == <<live, fields, approved, job>>
content == <<record, badge, loading, failed, loads>>
form == <<editing, draft, typed, late, swapped>>
vars == <<server, page, content, form, confirming, sent, blurred, acts>>

Text == [Fields -> Values]
Shown == [id : Records, fields : Text, approved : BOOLEAN]
Badges == {"awaiting_review", "pending", "done"}
Buttons == {"save", "approve", "retry", "delete"}

Flagged(text) == \E f \in Fields : text[f] \in Odd
OnServer(r) == [id |-> r, fields |-> fields[r], approved |-> approved[r]]
Ready(r) == ~Flagged(fields[r]) \/ approved[r]

\* _job_status(): a pending job of a record that is not ready awaits review.
Status(r) == IF job[r] = "pending" /\ ~Ready(r) THEN "awaiting_review" ELSE job[r]

NoLoad == [on |-> FALSE, record |-> None, badge |-> None]
Idle == [at |-> "idle", id |-> None, changed |-> {}, text |-> None, record |-> None,
         badge |-> None, ours |-> TRUE]

TypeOK ==
    /\ live \subseteq Records /\ fields \in [Records -> Text]
    /\ approved \in [Records -> BOOLEAN] /\ job \in [Records -> {"pending", "done"}]
    /\ page \in Records \cup {None}
    /\ record \in Shown \cup {None} /\ badge \in Badges \cup {None}
    /\ loading \in BOOLEAN /\ failed \in BOOLEAN
    /\ loads \in [Records -> [on : BOOLEAN, record : Shown \cup {None}, badge : Badges \cup {None}]]
    /\ editing \in BOOLEAN /\ draft \in Text \cup {None} /\ confirming \in BOOLEAN
    /\ sent \in [Buttons -> [at : {"idle", "sent", "done", "refreshing", "refreshed"},
                             id : Records \cup {None}, changed : SUBSET Fields,
                             text : Text \cup {None}, record : Shown \cup {None},
                             badge : Badges \cup {None}, ours : BOOLEAN]]
    /\ typed \subseteq Fields /\ late \subseteq Fields
    /\ swapped \in BOOLEAN /\ blurred \in BOOLEAN
    /\ acts \in 0..MaxActs

Busy(button) == sent[button].at # "idle"
Quiet == \A button \in Buttons : ~Busy(button)

\* The page's body, with its buttons; a confirmation dialog covers them.
Drawn == page # None /\ ~loading /\ ~failed /\ record # None
Usable == Drawn /\ ~confirming

-----------------------------------------------------------------------------
(* The effect on the id: five reads at once, used when all are there.      *)

\* One load of a record is in flight at a time (a bound).
StartLoad(r) ==
    /\ ~loads[r].on
    /\ loading' = TRUE /\ failed' = FALSE

Show(r) ==
    /\ page = None
    /\ StartLoad(r)
    /\ loads' = [loads EXCEPT ![r] = [NoLoad EXCEPT !.on = TRUE]]
    /\ page' = r /\ record' = None /\ badge' = None
    /\ editing' = FALSE /\ draft' = None /\ confirming' = FALSE
    /\ typed' = {} /\ late' = {} /\ swapped' = FALSE
    /\ blurred' = ~Quiet
    /\ UNCHANGED <<server, sent>>

\* The browser's history goes from one record to another: the page stays
\* mounted and keeps its state, form and dialog included.
Jump(r) ==
    /\ page # None /\ r # page
    /\ StartLoad(r)
    /\ loads' = [loads EXCEPT ![r] = [NoLoad EXCEPT !.on = TRUE]]
    /\ page' = r
    /\ blurred' = (~Quiet \/ \E s \in Records : loads[s].on)
    /\ UNCHANGED <<server, record, badge, form, confirming, sent>>

\* To another page: what was sent still happens, nobody uses the answers.
Gone ==
    /\ page' = None /\ record' = None /\ badge' = None
    /\ loading' = FALSE /\ failed' = FALSE
    /\ loads' = [r \in Records |-> NoLoad]
    /\ editing' = FALSE /\ draft' = None /\ confirming' = FALSE
    /\ typed' = {} /\ late' = {} /\ swapped' = FALSE

Leave ==
    /\ page # None /\ Gone
    /\ sent' = [button \in Buttons |-> [sent[button] EXCEPT !.ours = FALSE]]
    /\ UNCHANGED <<server, blurred>>

ReadRecord(r) ==
    /\ loads[r].on /\ loads[r].record = None /\ r \in live
    /\ loads' = [loads EXCEPT ![r].record = OnServer(r)]
    /\ UNCHANGED <<server, page, record, badge, loading, failed, form, confirming, sent, blurred>>

ReadBadge(r) ==
    /\ loads[r].on /\ loads[r].badge = None /\ r \in live
    /\ loads' = [loads EXCEPT ![r].badge = Status(r)]
    /\ UNCHANGED <<server, page, record, badge, loading, failed, form, confirming, sent, blurred>>

LoadEnds(r) ==
    /\ loads[r].record # None /\ loads[r].badge # None
    /\ record' = loads[r].record /\ badge' = loads[r].badge
    /\ swapped' = (swapped \/ editing)
    /\ loading' = FALSE
    /\ loads' = [loads EXCEPT ![r] = NoLoad]
    /\ UNCHANGED <<server, page, failed, editing, draft, typed, late, confirming, sent, blurred>>

\* One of the reads fails: not found, refused, no connection.
LoadFails(r) ==
    /\ loads[r].on
    /\ failed' = TRUE /\ loading' = FALSE
    /\ loads' = [loads EXCEPT ![r] = NoLoad]
    /\ UNCHANGED <<server, page, record, badge, form, confirming, sent, blurred>>

-----------------------------------------------------------------------------
(* Editing.                                                                *)

StartEditing ==
    /\ Usable /\ ~editing
    /\ editing' = TRUE /\ draft' = record.fields
    /\ typed' = {} /\ late' = {} /\ swapped' = FALSE
    /\ UNCHANGED <<server, page, content, confirming, sent, blurred>>

\* The inputs stay open while the form is being saved.
Type(f, v) ==
    /\ Usable /\ editing /\ draft[f] # v
    /\ draft' = [draft EXCEPT ![f] = v]
    /\ typed' = typed \cup {f}
    /\ late' = IF Busy("save") THEN late \cup {f} ELSE late
    /\ UNCHANGED <<server, page, content, editing, swapped, confirming, sent, blurred>>

CancelEditing ==
    /\ Usable /\ editing /\ ~Busy("save")
    /\ editing' = FALSE
    /\ UNCHANGED <<server, page, content, draft, typed, late, swapped, confirming, sent, blurred>>

\* A request goes out, for the record the address names.
Send(button, changed, text) ==
    /\ ~Busy(button)
    /\ sent' = [sent EXCEPT ![button] = [Idle EXCEPT !.at = "sent", !.id = page,
                                                     !.changed = changed, !.text = text]]
    /\ blurred' = (blurred \/ ~Quiet)

\* Mutant: a full replace.
ChangedAll == Fields

\* The fields whose text is not what the page holds of them now.
Changed == {f \in Fields : record.fields[f] # draft[f]}

SaveEdits ==
    /\ Usable /\ editing /\ ~Busy("save")
    /\ IF Changed = {}
       THEN editing' = FALSE /\ UNCHANGED <<sent, blurred, late>>
       ELSE Send("save", Changed, draft) /\ late' = {} /\ UNCHANGED editing
    /\ UNCHANGED <<server, page, content, draft, typed, swapped, confirming>>

Approve ==
    /\ Usable /\ Flagged(record.fields) /\ ~record.approved
    /\ Send("approve", {}, None)
    /\ UNCHANGED <<server, page, content, form, confirming>>

Retry ==
    /\ Usable
    /\ Send("retry", {}, None)
    /\ UNCHANGED <<server, page, content, form, confirming>>

AskDelete ==
    /\ Usable /\ ~editing
    /\ confirming' = TRUE
    /\ UNCHANGED <<server, page, content, form, sent, blurred>>

Cancel ==
    /\ Drawn /\ confirming
    /\ confirming' = FALSE
    /\ UNCHANGED <<server, page, content, form, sent, blurred>>

\* Delete, whatever record the address names by then.
Delete ==
    /\ Drawn /\ confirming
    /\ confirming' = FALSE
    /\ Send("delete", {}, None)
    /\ UNCHANGED <<server, page, content, form>>

-----------------------------------------------------------------------------
(* The server acts, the answer arrives.                                    *)

Refused(button) ==
    /\ sent[button].at \in {"sent", "refreshing"}
    /\ sent[button].id \notin live \/ (button = "retry" /\ ~Ready(sent[button].id))

Serving(button) == sent[button].at = "sent" /\ ~Refused(button)
Answers(button, answer, status) ==
    sent' = [sent EXCEPT ![button].at = "done", ![button].record = answer, ![button].badge = status]

\* Mutant: the stored fields win.
MergedUnder(r, changed, text) == [f \in Fields |-> Coerced[fields[r][f]]]

Merged(r, changed, text) == [f \in Fields |-> Coerced[IF f \in changed THEN text[f] ELSE fields[r][f]]]

ServeSave ==
    LET r == sent["save"].id
        text == Merged(r, sent["save"].changed, sent["save"].text)
    IN
    /\ Serving("save")
    /\ fields' = [fields EXCEPT ![r] = text]
    /\ approved' = [approved EXCEPT ![r] = FALSE]
    /\ Answers("save", [id |-> r, fields |-> text, approved |-> FALSE], None)
    /\ UNCHANGED <<live, job, page, content, form, confirming, blurred>>

ServeApprove ==
    LET r == sent["approve"].id IN
    /\ Serving("approve")
    /\ approved' = [approved EXCEPT ![r] = TRUE]
    /\ Answers("approve", [OnServer(r) EXCEPT !.approved = TRUE], None)
    /\ UNCHANGED <<live, fields, job, page, content, form, confirming, blurred>>

ServeRetry ==
    /\ Serving("retry")
    /\ job' = [job EXCEPT ![sent["retry"].id] = "pending"]
    /\ Answers("retry", None, "pending")
    /\ UNCHANGED <<live, fields, approved, page, content, form, confirming, blurred>>

ServeDelete ==
    /\ Serving("delete")
    /\ live' = live \ {sent["delete"].id}
    /\ Answers("delete", None, None)
    /\ UNCHANGED <<fields, approved, job, page, content, form, confirming, blurred>>

\* What a saved or an approved record makes of the page; both badges are
\* read again next (refreshJobStatuses()).
Heard(button) == sent[button].at = "done" /\ sent[button].ours

\* Mutant: the badges are left as they were.
RefreshingNothing(button) == sent' = [sent EXCEPT ![button] = Idle]

Refreshing(button) == sent' = [sent EXCEPT ![button] = [Idle EXCEPT !.at = "refreshing", !.id = sent[button].id]]

HearSaved ==
    /\ Heard("save")
    /\ record' = sent["save"].record
    /\ editing' = FALSE
    /\ Refreshing("save")
    /\ UNCHANGED <<server, page, badge, loading, failed, loads, draft, typed, late, swapped, confirming, blurred>>

HearApproved ==
    /\ Heard("approve")
    /\ record' = sent["approve"].record
    /\ swapped' = (swapped \/ editing)
    /\ Refreshing("approve")
    /\ UNCHANGED <<server, page, badge, loading, failed, loads, editing, draft, typed, late, confirming, blurred>>

ReadBadges(button) ==
    /\ sent[button].at = "refreshing" /\ ~Refused(button)
    /\ sent' = [sent EXCEPT ![button].at = "refreshed", ![button].badge = Status(sent[button].id)]
    /\ UNCHANGED <<server, page, content, form, confirming, blurred>>

HearRetried ==
    /\ Heard("retry")
    /\ badge' = sent["retry"].badge
    /\ sent' = [sent EXCEPT !["retry"] = Idle]
    /\ UNCHANGED <<server, page, record, loading, failed, loads, form, confirming, blurred>>

HearBadges(button) ==
    /\ sent[button].at = "refreshed" /\ sent[button].ours
    /\ badge' = sent[button].badge
    /\ sent' = [sent EXCEPT ![button] = Idle]
    /\ UNCHANGED <<server, page, record, loading, failed, loads, form, confirming, blurred>>

\* navigate("/"), wherever the user is by then.
HearDeleted ==
    /\ sent["delete"].at = "done"
    /\ Gone
    /\ sent' = [button \in Buttons |->
                   IF button = "delete" THEN Idle ELSE [sent[button] EXCEPT !.ours = FALSE]]
    /\ UNCHANGED <<server, blurred>>

\* The page that sent it was left.
Unheard(button) ==
    /\ button # "delete" /\ sent[button].at \in {"done", "refreshed"} /\ ~sent[button].ours
    /\ sent' = [sent EXCEPT ![button] = Idle]
    /\ UNCHANGED <<server, page, content, form, confirming, blurred>>

\* Refused, or the connection lost before or after the server acted.
Fails(button) ==
    /\ Busy(button)
    /\ sent' = [sent EXCEPT ![button] = Idle]
    /\ blurred' = TRUE
    /\ UNCHANGED <<server, page, content, form, confirming>>

-----------------------------------------------------------------------------
(* External to the page: other users of the account, the worker.           *)

EditElsewhere(r, f, v) ==
    /\ r \in live /\ fields[r][f] # v
    /\ fields' = [fields EXCEPT ![r] = Merged(r, {f}, [g \in Fields |-> v])]
    /\ approved' = [approved EXCEPT ![r] = FALSE]
    /\ blurred' = TRUE
    /\ UNCHANGED <<live, job, page, content, form, confirming, sent>>

ApproveElsewhere(r) ==
    /\ r \in live /\ ~approved[r] /\ approved' = [approved EXCEPT ![r] = TRUE]
    /\ blurred' = TRUE
    /\ UNCHANGED <<live, fields, job, page, content, form, confirming, sent>>

DeleteElsewhere(r) ==
    /\ r \in live /\ live' = live \ {r}
    /\ blurred' = TRUE
    /\ UNCHANGED <<fields, approved, job, page, content, form, confirming, sent>>

Deliver(r) ==
    /\ r \in live /\ job[r] = "pending" /\ Ready(r)
    /\ job' = [job EXCEPT ![r] = "done"]
    /\ blurred' = TRUE
    /\ UNCHANGED <<live, fields, approved, page, content, form, confirming, sent>>

-----------------------------------------------------------------------------
Init ==
    /\ live = Records /\ fields = Before
    /\ approved = [r \in Records |-> FALSE] /\ job = [r \in Records |-> "pending"]
    /\ page = None /\ record = None /\ badge = None /\ loading = FALSE /\ failed = FALSE
    /\ loads = [r \in Records |-> NoLoad]
    /\ editing = FALSE /\ draft = None /\ confirming = FALSE
    /\ sent = [button \in Buttons |-> Idle]
    /\ typed = {} /\ late = {} /\ swapped = FALSE /\ blurred = FALSE
    /\ acts = 0

Answering ==
    \/ \E r \in Records : ReadRecord(r) \/ ReadBadge(r) \/ LoadEnds(r)
    \/ ServeSave \/ ServeApprove \/ ServeRetry \/ ServeDelete
    \/ HearSaved \/ HearApproved \/ HearRetried \/ HearDeleted
    \/ \E button \in Buttons :
        ReadBadges(button) \/ HearBadges(button) \/ Unheard(button)

Failing ==
    \/ \E r \in Records : LoadFails(r)
    \/ \E button \in Buttons : Fails(button)

Using ==
    \/ \E r \in Records : Show(r) \/ Jump(r)
    \/ StartEditing \/ (\E f \in Fields, v \in Values : Type(f, v)) \/ CancelEditing \/ SaveEdits
    \/ Approve \/ Retry \/ AskDelete \/ Delete \/ Cancel \/ Leave

Elsewhere ==
    \E r \in Records :
        ApproveElsewhere(r) \/ DeleteElsewhere(r) \/ Deliver(r)
        \/ \E f \in Fields, v \in Values : EditElsewhere(r, f, v)

Next ==
    \/ (Answering \/ Failing) /\ acts' = acts
    \/ (Using \/ Elsewhere) /\ acts < MaxActs /\ acts' = acts + 1

Spec == Init /\ [][Next]_vars

-----------------------------------------------------------------------------
\* At rest, with nothing done elsewhere, no request failed and no two at a
\* time, the page shows the record and the badge the server would give:
\* "Whether a record is held for review shows in both status badges, and
\* approving or editing it changes that" (refreshJobStatuses()).
AtRestShowsServer ==
    Drawn /\ Quiet /\ ~blurred => record = OnServer(page) /\ badge = Status(page)

\* A save sends only fields that were typed, "so an untouched field is never
\* re-coerced for no reason", as long as the page holds the record the form
\* began from (handleSaveEdits()).
UntouchedIsNotSent == [][Busy("save")' /\ ~Busy("save") => swapped \/ sent'["save"].changed \subseteq typed]_vars

\* When a save closes the form, everything typed before Save is in the record
\* as validation stores it, unless the record changed hands meanwhile.
TypedIsSaved ==
    [][Heard("save") /\ sent'["save"].at = "refreshing" /\ ~swapped /\ ~blurred =>
        \A f \in typed \ late : record'.fields[f] = Coerced[draft[f]]]_vars
=============================================================================

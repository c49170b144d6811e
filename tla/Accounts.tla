------------------------------- MODULE Accounts -------------------------------
(***************************************************************************)
(* How an account comes to be, and how its password changes: pilot         *)
(* requests, invitations, sign-in, forgotten and changed passwords, each a *)
(* page with one form and a handler that commits several times.  A password *)
(* is the version of its hash (a new salt each time); what a page writes   *)
(* is left out.  Each admin is one, each form is filled in.                *)
(***************************************************************************)
EXTENDS Naturals, FiniteSets

CONSTANTS
    Tabs, Emails,
    Old,            \* accounts from before invitations: GitHub, no password
    MaxActs,        \* bound: what people do
    None

Setters == {"accept-invite", "reset-password", "settings"}
Entries == {"login", "github"}
Pages == Setters \cup Entries \cup {"pilot-form", "pilot-invite", "forgot-password"}
Words == {"accepted", "already", "invalid", "reset", "changed", "wrong", "expired", "in",
          "refused", "sent", "oauth-only", "received", "invited", "gone", "failed"}
Link == [kind : {"invite", "reset"}, email : Emails, hash : Nat, number : Nat]

ASSUME AccountsAssumption ==
    /\ Old \subseteq Emails
    /\ MaxActs \in Nat
    /\ None \notin Emails \cup Pages \cup Words \cup Link

VARIABLES
    \* the server
    state,          \* no account, invited (is_verified FALSE), active
    has,            \* has_password
    hash,           \* hashed_password, by version; 0 is nobody's
    sessions,       \* accesstoken: whose, and the hash it was granted under
    requests,       \* pilot requests stored
    \* the inboxes
    links, expired, \* every link emailed, those too old
    \* the browsers
    tab,            \* the form of each tab, and its request
    \* history
    raced,          \* two requests passed their checks before either wrote
    lapsed,         \* a password write without the rest, a sign-in across it
    acts

account == <<state, has, hash>>
history == <<raced, lapsed>>
inbox == <<links, expired>>
vars == <<account, sessions, requests, inbox, tab, history, acts>>

Steps == {"idle", "sent", "checked", "written", "flagged", "answered"}
Form == [page : Pages \cup {None}, email : Emails \cup {None}, link : Link \cup {None},
         typed : Nat, step : Steps, since : Nat, says : Words \cup {None}]
Fresh == [page |-> None, email |-> None, link |-> None, typed |-> 0, step |-> "idle",
          since |-> 0, says |-> None]

TypeOK ==
    /\ state \in [Emails -> {"none", "invited", "active"}]
    /\ has \in [Emails -> BOOLEAN] /\ hash \in [Emails -> Nat]
    /\ sessions \subseteq [email : Emails, since : Nat]
    /\ requests \subseteq Emails /\ raced \subseteq Emails /\ lapsed \subseteq Emails
    /\ links \subseteq Link /\ IsFiniteSet(links) /\ expired \subseteq links
    /\ tab \in [Tabs -> Form]
    /\ acts \in 0..MaxActs

Page(w) == tab[w].page
Email(w) == tab[w].email
Act == acts < MaxActs /\ acts' = acts + 1

-----------------------------------------------------------------------------
(* The forms.  The button of a form is off while its request is out.       *)

Submit(w, page, email, link, typed, since) ==
    /\ tab[w].step = "idle"
    /\ Act
    /\ tab' = [tab EXCEPT ![w] = [page |-> page, email |-> email, link |-> link, typed |-> typed,
                                  step |-> "sent", since |-> since, says |-> None]]
    /\ UNCHANGED <<account, sessions, requests, inbox, history>>

RequestPilot(w, e) == Submit(w, "pilot-form", e, None, 0, 0)

\* The page shows the request it read; inviting is a click.
InvitePilot(w, e) == e \in requests /\ Submit(w, "pilot-invite", e, None, 0, 0)

AcceptInvite(w, l) == l.kind = "invite" /\ Submit(w, "accept-invite", l.email, l, 0, 0)
ForgotPassword(w, e) == Submit(w, "forgot-password", e, None, 0, 0)
ResetPassword(w, l) == l.kind = "reset" /\ Submit(w, "reset-password", l.email, l, 0, 0)

\* Any password the account has had may be typed.
Login(w, e, v) == v \in 1..hash[e] /\ Submit(w, "login", e, None, v, 0)
Github(w, e) == state[e] # "none" /\ Submit(w, "github", e, None, 0, 0)
ChangePassword(w, s, v) == v <= hash[s.email] /\ Submit(w, "settings", s.email, None, v, s.since)

-----------------------------------------------------------------------------
(* The handlers: what is checked, then what is written, commit by commit.  *)

Step(w, step) == tab' = [tab EXCEPT ![w].step = step]
Reply(w, says) == tab' = [tab EXCEPT ![w] = [@ EXCEPT !.step = "answered", !.says = says]]

\* Mutant: any link from the inbox will do.
GoodLinkAny(w) == tab[w].link \in links \ expired

\* A reset link carries a fingerprint of the hash it was made for.
GoodLink(w) ==
    /\ tab[w].link \in links \ expired
    /\ tab[w].link.kind = "reset" => tab[w].link.hash = hash[Email(w)]

\* Why a request is refused, None when it is not.
Refusal(w) ==
    LET e == Email(w)
    IN  CASE Page(w) = "accept-invite" /\ ~GoodLink(w) -> "invalid"
          [] Page(w) = "accept-invite" /\ state[e] = "active" -> "already"
          [] Page(w) = "reset-password" /\ ~GoodLink(w) -> "invalid"
          [] Page(w) = "settings" /\ [email |-> e, since |-> tab[w].since] \notin sessions -> "expired"
          [] Page(w) = "settings" /\ has[e] /\ tab[w].typed # hash[e] -> "wrong"
          [] Page(w) = "login" /\ (state[e] # "active" \/ tab[w].typed # hash[e]) -> "refused"
          [] Page(w) = "github" /\ state[e] # "active" -> "refused"
          [] OTHER -> None

\* A refusal, a password too weak, or on to the writes.
Check(w) ==
    /\ tab[w].step = "sent" /\ Page(w) \in Setters \cup Entries
    /\ LET refusal == Refusal(w)
       IN  \/ refusal # None /\ Reply(w, refusal) /\ UNCHANGED raced
           \/ refusal = None /\ Page(w) \in Setters /\ Reply(w, "failed") /\ UNCHANGED raced
           \/ /\ refusal = None
              /\ tab' = [tab EXCEPT ![w] = [@ EXCEPT !.step = "checked", !.since = hash[Email(w)]]]
              /\ raced' = IF \E v \in Tabs \ {w} : /\ Page(v) \in Setters /\ Page(w) \in Setters
                                                   /\ Email(v) = Email(w) /\ tab[v].step = "checked"
                          THEN raced \cup {Email(w)} ELSE raced
    /\ UNCHANGED <<account, sessions, requests, inbox, lapsed, acts>>

\* Mutant: accept_invite() leaves has_password to a step it does not take.
HasAfterNone(e, accepting) == has

HasAfter(e, accepting) == IF accepting THEN [has EXCEPT ![e] = TRUE] ELSE has

\* accept_invite() writes the password, is_verified and has_password at once;
\* the others the password, then the flag.
Write(w) ==
    /\ tab[w].step = "checked" /\ Page(w) \in Setters
    /\ LET e == Email(w)
           accepting == Page(w) = "accept-invite"
       IN  /\ hash' = [hash EXCEPT ![e] = hash[e] + 1]
           /\ state' = IF accepting THEN [state EXCEPT ![e] = "active"] ELSE state
           /\ has' = HasAfter(e, accepting)
           /\ Step(w, IF accepting THEN "flagged" ELSE "written")
    /\ UNCHANGED <<sessions, requests, inbox, history, acts>>

SetFlag(w) ==
    /\ tab[w].step = "written"
    /\ has' = [has EXCEPT ![Email(w)] = TRUE]
    /\ Step(w, "flagged")
    /\ UNCHANGED <<state, hash, sessions, requests, inbox, history, acts>>

\* Mutant: the caller's own session alone.
EndedOwn(w) == {s \in sessions : s.email = Email(w) /\ s.since = tab[w].since /\ Page(w) = "settings"}

\* _revoke_sessions()
Ended(w) == {s \in sessions : s.email = Email(w)}

Told(w) ==
    CASE Page(w) = "accept-invite" -> "accepted"
      [] Page(w) = "reset-password" -> "reset"
      [] OTHER -> "changed"

Revoke(w) ==
    /\ tab[w].step = "flagged"
    /\ sessions' = sessions \ Ended(w)
    /\ Reply(w, Told(w))
    /\ UNCHANGED <<account, requests, inbox, history, acts>>

\* The token of a sign-in is inserted after the password was verified.
Insert(w) ==
    /\ tab[w].step = "checked" /\ Page(w) \in Entries
    /\ sessions' = sessions \cup {[email |-> Email(w), since |-> tab[w].since]}
    /\ lapsed' = IF tab[w].since = hash[Email(w)] THEN lapsed ELSE lapsed \cup {Email(w)}
    /\ Reply(w, "in")
    /\ UNCHANGED <<account, requests, inbox, raced, acts>>

\* A link is emailed; no two are the same.
SendLink(kind, e) ==
    /\ links' = links \cup {[kind |-> kind, email |-> e, hash |-> hash[e], number |-> Cardinality(links)]}
    /\ UNCHANGED expired

\* create_pilot_request()
StoreRequest(w) ==
    /\ tab[w].step = "sent" /\ Page(w) = "pilot-form"
    /\ requests' = requests \cup {Email(w)}
    /\ Reply(w, "received")
    /\ UNCHANGED <<account, sessions, inbox, history, acts>>

Invitable(e) == state[e] # "active"

\* invite_pilot_request() and invite(): the account, then the link.
Invite(w) ==
    /\ tab[w].step = "sent" /\ Page(w) = "pilot-invite"
    /\ LET e == Email(w)
       IN  \/ e \notin requests /\ Reply(w, "gone") /\ UNCHANGED <<state, inbox>>
           \/ e \in requests /\ ~Invitable(e) /\ Reply(w, "already") /\ UNCHANGED <<state, inbox>>
           \/ /\ e \in requests /\ Invitable(e)
              /\ state' = [state EXCEPT ![e] = IF @ = "none" THEN "invited" ELSE @]
              /\ SendLink("invite", e)
              /\ Reply(w, "invited")
    /\ UNCHANGED <<has, hash, sessions, requests, history, acts>>

\* forgot_password_handler(): no link for an account without a password.
SendReset(w) ==
    /\ tab[w].step = "sent" /\ Page(w) = "forgot-password"
    /\ LET e == Email(w)
       IN  /\ IF has[e] THEN SendLink("reset", e) ELSE UNCHANGED inbox
           /\ Reply(w, IF state[e] = "active" /\ ~has[e] THEN "oauth-only" ELSE "sent")
    /\ UNCHANGED <<account, sessions, requests, history, acts>>

-----------------------------------------------------------------------------
(* What the page makes of it.                                              *)

Hear(w) ==
    /\ tab[w].step = "answered"
    /\ Step(w, "idle")
    /\ UNCHANGED <<account, sessions, requests, inbox, history, acts>>

\* No answer: the request or its answer was lost, or its handler stopped
\* between two commits.  The forgotten-password page says "sent" anyway.
Lost(w) ==
    /\ tab[w].step # "idle"
    /\ tab' = [tab EXCEPT ![w] = [@ EXCEPT !.step = "idle",
                      !.says = IF Page(w) = "forgot-password" THEN "sent" ELSE "failed"]]
    /\ lapsed' = IF tab[w].step \in {"written", "flagged"} THEN lapsed \cup {Email(w)} ELSE lapsed
    /\ UNCHANGED <<account, sessions, requests, inbox, raced, acts>>

\* A link expires; a pilot request is swept; a session is ended.
Expire ==
    /\ Act
    /\ \/ (\E l \in links \ expired : expired' = expired \cup {l}) /\ UNCHANGED <<sessions, requests>>
       \/ (\E e \in requests : requests' = requests \ {e}) /\ UNCHANGED <<sessions, expired>>
       \/ (\E s \in sessions : sessions' = sessions \ {s}) /\ UNCHANGED <<requests, expired>>
    /\ UNCHANGED <<account, links, tab, history>>

-----------------------------------------------------------------------------

Init ==
    /\ state = [e \in Emails |-> IF e \in Old THEN "active" ELSE "none"]
    /\ has = [e \in Emails |-> FALSE] /\ hash = [e \in Emails |-> 0]
    /\ sessions = {} /\ requests = {} /\ links = {} /\ expired = {}
    /\ tab = [w \in Tabs |-> Fresh]
    /\ raced = {} /\ lapsed = {}
    /\ acts = 0

Using ==
    \E w \in Tabs :
        \/ \E e \in Emails : \/ RequestPilot(w, e) \/ InvitePilot(w, e) \/ ForgotPassword(w, e)
                             \/ Github(w, e) \/ (\E v \in 1..MaxActs : Login(w, e, v))
        \/ \E l \in links : AcceptInvite(w, l) \/ ResetPassword(w, l)
        \/ \E s \in sessions, v \in 0..MaxActs : ChangePassword(w, s, v)

Answering(w) ==
    Check(w) \/ Write(w) \/ SetFlag(w) \/ Revoke(w) \/ Insert(w) \/ StoreRequest(w) \/ Invite(w)
    \/ SendReset(w) \/ Hear(w)

Next == Using \/ (\E w \in Tabs : Answering(w)) \/ (\E w \in Tabs : Lost(w)) \/ Expire

Spec == Init /\ [][Next]_vars

-----------------------------------------------------------------------------
Writing(w) == tab[w].step = "checked" /\ tab'[w].step \in {"written", "flagged"}

\* "This link [...] can only be used once" (both emails): a link sets a
\* password only in the account it was made for, still pending or with the
\* same password, unless two such requests overlapped.
LinksWorkOnce ==
    [][\A w \in Tabs : Writing(w) /\ Email(w) \notin raced /\ tab[w].link # None =>
         IF tab[w].link.kind = "invite" THEN state[Email(w)] = "invited"
         ELSE hash[Email(w)] = tab[w].link.hash]_vars

\* After a password change no session granted before it is left, "the
\* caller's own included" (_revoke_sessions()), once the change is over:
\* unless it stopped half-way, or a sign-in went across it.
OldSessionsEnd ==
    \A s \in sessions :
        \/ s.since = hash[s.email]
        \/ s.email \in lapsed
        \/ \E w \in Tabs : Email(w) = s.email /\ tab[w].step \in {"written", "flagged"}

\* What a page says of an account is so, and stays so: accepted, active
\* already, or a link no longer good.
PagesTellTheTruth ==
    \A w \in Tabs : tab[w].step = "idle" =>
        /\ tab[w].says \in {"accepted", "already"} => state[Email(w)] = "active"
        /\ tab[w].says = "accepted" => has[Email(w)]
        /\ tab[w].says = "invited" => state[Email(w)] # "none"
        /\ tab[w].says = "invalid" => ~GoodLink(w)
=============================================================================

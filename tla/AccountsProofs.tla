---------------------------- MODULE AccountsProofs ----------------------------
(***************************************************************************)
(* Proofs about Accounts for any tabs, addresses and bound.  Sound adds to *)
(* the types what each form holds and what each link was made for; the     *)
(* three properties rest on it and on one fact about every step: accounts  *)
(* and inboxes only move on (Moves).                                       *)
(***************************************************************************)
EXTENDS Accounts, FiniteSetTheorems, TLAPS

\* What the form of tab w holds.
FormOK(w) ==
    /\ Page(w) # None => Email(w) \in Emails
    /\ Page(w) = None => tab[w].step = "idle" /\ tab[w].says = None
    /\ tab[w].link # None =>
        /\ tab[w].link \in links /\ tab[w].link.email = Email(w)
        /\ Page(w) = IF tab[w].link.kind = "invite" THEN "accept-invite" ELSE "reset-password"
    /\ Page(w) \in {"accept-invite", "reset-password"} => tab[w].link # None
    /\ tab[w].step = "written" => Page(w) \in {"reset-password", "settings"}
    /\ tab[w].step = "flagged" => Page(w) \in Setters
    /\ tab[w].step = "flagged" /\ Page(w) = "accept-invite" => state[Email(w)] = "active" /\ has[Email(w)]

\* What link l was made for.
LinkOK(l) == l.hash <= hash[l.email] /\ (l.kind = "invite" => state[l.email] # "none")

Sound == TypeOK /\ (\A w \in Tabs : FormOK(w)) /\ (\A l \in links : LinkOK(l))

\* What a page says, whether the form is in use or not.
SaidOK(w) ==
    /\ tab[w].says \in {"accepted", "already"} => state[Email(w)] = "active"
    /\ tab[w].says = "accepted" => has[Email(w)]
    /\ tab[w].says = "invited" => state[Email(w)] # "none"
    /\ tab[w].says = "invalid" => ~GoodLink(w)

Checked(w) == tab[w].step = "checked" /\ Page(w) \in Setters

\* A checked link is still good, unless two checks overlapped.
CheckedOK(w) ==
    Checked(w) /\ Email(w) \notin raced /\ tab[w].link # None =>
        IF tab[w].link.kind = "invite" THEN state[Email(w)] = "invited"
        ELSE hash[Email(w)] = tab[w].link.hash

Overlaps == \A v, w \in Tabs : v # w /\ Checked(v) /\ Checked(w) /\ Email(v) = Email(w) => Email(v) \in raced

-----------------------------------------------------------------------------
(* What a handler does to its tab.                                         *)

Same(v) == tab'[v].page = Page(v) /\ tab'[v].email = Email(v) /\ tab'[v].link = tab[v].link

LEMMA StepFacts ==
  ASSUME TypeOK, NEW w \in Tabs, NEW step \in Steps, Step(w, step)
  PROVE  /\ tab' \in [Tabs -> Form]
         /\ \A v \in Tabs : Same(v) /\ tab'[v].says = tab[v].says
         /\ tab'[w].step = step
         /\ \A v \in Tabs \ {w} : tab'[v] = tab[v]
BY DEF TypeOK, Step, Form, Same, Page, Email

LEMMA ReplyFacts ==
  ASSUME TypeOK, NEW w \in Tabs, NEW says \in Words, Reply(w, says)
  PROVE  /\ tab' \in [Tabs -> Form]
         /\ \A v \in Tabs : Same(v)
         /\ tab'[w].step = "answered" /\ tab'[w].says = says
         /\ \A v \in Tabs \ {w} : tab'[v] = tab[v]
<1>1. [tab[w] EXCEPT !.step = "answered", !.says = says] \in Form
  BY DEF TypeOK, Form, Steps
<1> QED
  BY <1>1 DEF TypeOK, Form, Reply, Same, Page, Email

-----------------------------------------------------------------------------
(* Every step keeps Sound, and accounts and inboxes only move on.          *)

Moves ==
    /\ \A e \in Emails : /\ state[e] = "active" => state'[e] = "active"
                         /\ state[e] # "none" => state'[e] # "none"
                         /\ has[e] => has'[e]
                         /\ hash[e] <= hash'[e]
    /\ links \subseteq links' /\ expired \subseteq expired'
    /\ \A l \in links' \ links : LinkOK(l)' /\ l \notin expired'

LEMMA Still ==
  ASSUME TypeOK, UNCHANGED <<account, inbox>>
  PROVE  Moves
BY DEF Moves, TypeOK, account, inbox

LEMMA LinksStill ==
  ASSUME Sound, TypeOK', Moves
  PROVE  \A l \in links' : LinkOK(l)'
<1> SUFFICES ASSUME NEW l \in links' PROVE LinkOK(l)'
  OBVIOUS
<1>1. CASE l \in links
  <2>1. l.email \in Emails /\ l.hash \in Nat /\ LinkOK(l)
    BY <1>1 DEF Sound, TypeOK, Link
  <2>2. hash[l.email] \in Nat /\ hash[l.email] <= hash'[l.email]
    BY <2>1 DEF Sound, TypeOK, Moves
  <2>3. l.kind = "invite" => state'[l.email] # "none"
    BY <2>1 DEF LinkOK, Moves
  <2>4. hash'[l.email] \in Nat
    BY <2>1 DEF Sound, TypeOK
  <2> QED
    BY <2>1, <2>2, <2>3, <2>4 DEF LinkOK
<1> QED
  BY <1>1 DEF Moves

\* A tab whose form and step are as they were is as sound as it was.
LEMMA FormStill ==
  ASSUME Sound, Moves, NEW v \in Tabs, Same(v),
         tab'[v].step = tab[v].step, tab'[v].says = tab[v].says
  PROVE  FormOK(v)'
<1>1. FormOK(v)
  BY DEF Sound
<1>2. tab[v].step = "flagged" => Email(v) \in Emails
  BY <1>1, AccountsAssumption DEF FormOK, Setters, Pages, Page
<1> QED
  BY <1>1, <1>2 DEF FormOK, Moves, Same, Page, Email

LEMMA KnownEmail ==
  ASSUME Sound, NEW v \in Tabs, tab[v].step # "idle"
  PROVE  Email(v) \in Emails /\ Page(v) \in Pages
BY DEF Sound, FormOK, TypeOK, Form, Page

\* A tab that has its answer, or none, is sound.
LEMMA FormAnswered ==
  ASSUME Sound, Moves, NEW v \in Tabs, Same(v), tab[v].step # "idle",
         tab'[v].step \in {"answered", "idle", "checked"}
  PROVE  FormOK(v)'
<1>1. FormOK(v) /\ Page(v) # None
  BY DEF Sound, FormOK
<1> QED
  BY <1>1 DEF FormOK, Moves, Same, Page, Email

LEMMA SubmitSound ==
  ASSUME Sound, NEW w \in Tabs, NEW page \in Pages, NEW email \in Emails, NEW link \in links \cup {None},
         NEW typed \in Nat, NEW since \in Nat,
         Submit(w, page, email, link, typed, since),
         link # None => /\ link.email = email
                        /\ page = IF link.kind = "invite" THEN "accept-invite" ELSE "reset-password",
         page \in {"accept-invite", "reset-password"} => link # None
  PROVE  Sound' /\ Moves
<1> DEFINE form == [page |-> page, email |-> email, link |-> link, typed |-> typed,
                    step |-> "sent", since |-> since, says |-> None]
<1>1. form \in Form
  BY DEF Form, Sound, TypeOK, Steps
<1>2. tab' = [tab EXCEPT ![w] = form] /\ UNCHANGED <<account, sessions, requests, inbox, history>>
  BY DEF Submit
<1>3. TypeOK'
  BY <1>1, <1>2, AccountsAssumption DEF Sound, TypeOK, Submit, Act, account, inbox, history
<1>4. Moves
  BY <1>2, Still DEF Sound
<1>5. \A v \in Tabs \ {w} : FormOK(v)'
  BY <1>2, <1>4, FormStill DEF Same, Page, Email, Sound, TypeOK
<1>6. FormOK(w)'
  <2>1. tab'[w] = form
    BY <1>2 DEF Sound, TypeOK
  <2> HIDE DEF form
  <2>2. /\ form.page = page /\ form.email = email /\ form.link = link /\ form.step = "sent" /\ page # None
    BY AccountsAssumption DEF form
  <2>3. links' = links
    BY <1>2 DEF inbox
  <2> QED
    BY <2>1, <2>2, <2>3 DEF FormOK, Page, Email
<1> QED
  BY <1>3, <1>4, <1>5, <1>6, LinksStill DEF Sound

LEMMA HandlerSound ==
  ASSUME Sound, NEW w \in Tabs, Answering(w) \/ Lost(w)
  PROVE  Sound' /\ Moves
<1> DEFINE e == Email(w)
<1> USE DEF Sound
<1>0. \A v \in Tabs : FormOK(v) /\ tab[v] \in Form
  BY DEF TypeOK
<1>1. CASE Check(w)
  <2>1. e \in Emails /\ hash[e] \in Nat
    BY <1>1, KnownEmail DEF Check, TypeOK
  <2>2. Moves
    BY <1>1, Still DEF Check, account, inbox
  <2>3. CASE \E says \in Words : Reply(w, says) /\ UNCHANGED raced
    <3>1. PICK says \in Words : Reply(w, says) /\ UNCHANGED raced
      BY <2>3
    <3>2. TypeOK'
      BY <1>1, <3>1, ReplyFacts DEF Check, TypeOK, account, inbox
    <3>3. \A v \in Tabs : FormOK(v)'
      BY <1>1, <2>2, <3>1, ReplyFacts, FormStill, FormAnswered DEF Check, Same, Page, Email
    <3> QED
      BY <2>2, <3>2, <3>3, LinksStill
  <2>4. CASE tab' = [tab EXCEPT ![w] = [@ EXCEPT !.step = "checked", !.since = hash[e]]]
    <3>1. [tab[w] EXCEPT !.step = "checked", !.since = hash[e]] \in Form
      BY <1>0, <2>1 DEF Form, Steps
    <3>2. /\ tab' \in [Tabs -> Form] /\ \A v \in Tabs : Same(v)
          /\ tab'[w].step = "checked" /\ \A v \in Tabs \ {w} : tab'[v] = tab[v]
      BY <1>0, <2>4, <3>1 DEF TypeOK, Form, Same, Page, Email
    <3>3. TypeOK'
      BY <1>1, <2>1, <3>2 DEF Check, TypeOK, account, inbox
    <3>4. \A v \in Tabs : FormOK(v)'
      BY <1>1, <2>2, <3>2, FormStill, FormAnswered DEF Check, Same, Page, Email
    <3> QED
      BY <2>2, <3>3, <3>4, LinksStill
  <2>5. Refusal(w) # None => Refusal(w) \in Words
    BY DEF Refusal, Words
  <2> QED
    BY <1>1, <2>3, <2>4, <2>5 DEF Check, Words
<1>2. CASE Write(w)
  <2>1. e \in Emails
    BY <1>2, KnownEmail DEF Write
  <2>2. PICK step \in {"written", "flagged"} :
          /\ Step(w, step)
          /\ step = "flagged" => Page(w) = "accept-invite" /\ state' = [state EXCEPT ![e] = "active"] /\ has' = [has EXCEPT ![e] = TRUE]
          /\ step = "written" => Page(w) # "accept-invite" /\ state' = state /\ has' = has
    BY <1>2 DEF Write, HasAfter
  <2>3. /\ tab' \in [Tabs -> Form]
        /\ \A v \in Tabs : Same(v) /\ tab'[v].says = tab[v].says
        /\ tab'[w].step = step
        /\ \A v \in Tabs \ {w} : tab'[v] = tab[v]
    BY <2>2, StepFacts DEF Steps
  <2>4. TypeOK'
    BY <1>2, <2>1, <2>2, <2>3 DEF Write, HasAfter, TypeOK, inbox, history
  <2>5. Moves
    BY <1>2, <2>1, <2>2 DEF Moves, Write, HasAfter, TypeOK, inbox
  <2>6. \A v \in Tabs \ {w} : FormOK(v)'
    BY <2>3, <2>5, FormStill DEF Same, Page, Email
  <2>7. FormOK(w)'
    BY <1>0, <1>2, <2>1, <2>2, <2>3, <2>5, AccountsAssumption DEF FormOK, Same, Page, Email, Moves, Write, HasAfter, Setters, Pages, TypeOK
  <2> QED
    BY <2>4, <2>5, <2>6, <2>7, LinksStill
<1>3. CASE SetFlag(w)
  <2>1. e \in Emails
    BY <1>3, KnownEmail DEF SetFlag
  <2>2. /\ tab' \in [Tabs -> Form]
        /\ \A v \in Tabs : Same(v) /\ tab'[v].says = tab[v].says
        /\ tab'[w].step = "flagged"
        /\ \A v \in Tabs \ {w} : tab'[v] = tab[v]
    BY <1>3, StepFacts DEF SetFlag, Steps
  <2>3. TypeOK'
    BY <1>3, <2>1, <2>2 DEF SetFlag, TypeOK, inbox, history
  <2>4. Moves
    BY <1>3, <2>1 DEF Moves, SetFlag, TypeOK, inbox
  <2>5. \A v \in Tabs \ {w} : FormOK(v)'
    BY <2>2, <2>4, FormStill DEF Same, Page, Email
  <2>6. FormOK(w)'
    BY <1>0, <1>3, <2>2, <2>4, AccountsAssumption DEF FormOK, Same, Page, Email, Moves, SetFlag, Setters, Pages
  <2> QED
    BY <2>3, <2>4, <2>5, <2>6, LinksStill
<1>4. CASE Revoke(w) \/ Insert(w) \/ StoreRequest(w)
  <2>1. e \in Emails /\ tab[w].since \in Nat
    BY <1>0, <1>4, KnownEmail DEF Revoke, Insert, StoreRequest, Form
  <2>2. Moves
    BY <1>4, Still DEF Revoke, Insert, StoreRequest, account, inbox
  <2>3. PICK says \in Words : Reply(w, says)
    BY <1>4 DEF Revoke, Insert, StoreRequest, Told, Words
  <2>4. TypeOK'
    BY <1>4, <2>1, <2>3, ReplyFacts DEF Revoke, Insert, StoreRequest, TypeOK, account, inbox, history, Ended
  <2>5. \A v \in Tabs : FormOK(v)'
    BY <1>4, <2>2, <2>3, ReplyFacts, FormStill, FormAnswered DEF Revoke, Insert, StoreRequest, Same, Page, Email
  <2> QED
    BY <2>2, <2>4, <2>5, LinksStill
<1>5. CASE Invite(w) \/ SendReset(w)
  <2>1. e \in Emails
    BY <1>5, KnownEmail DEF Invite, SendReset
  <2>2. PICK says \in Words : Reply(w, says)
    BY <1>5 DEF Invite, SendReset, Words
  <2>3. /\ state' \in [Emails -> {"none", "invited", "active"}]
        /\ \A f \in Emails : /\ state[f] = "active" => state'[f] = "active"
                             /\ state[f] # "none" => state'[f] # "none"
    BY <1>5, <2>1 DEF Invite, SendReset, Invitable, TypeOK, account
  <2>4. /\ links' \subseteq Link /\ IsFiniteSet(links') /\ links \subseteq links' /\ expired' = expired
        /\ \A l \in links' \ links : LinkOK(l)'
    <3>1. CASE UNCHANGED inbox
      BY <3>1 DEF inbox, TypeOK
    <3>2. ASSUME NEW kind \in {"invite", "reset"}, SendLink(kind, e), hash' = hash,
                 kind = "invite" => state'[e] # "none"
          PROVE  <2>4
      <4>1. Cardinality(links) \in Nat
        BY FS_CardinalityType DEF TypeOK
      <4>2. PICK l \in Link : /\ l.kind = kind /\ l.email = e /\ l.hash = hash[e]
                            /\ links' = links \cup {l} /\ expired' = expired
        BY <2>1, <3>2, <4>1 DEF SendLink, Link, TypeOK
      <4>3. IsFiniteSet(links \cup {l})
        BY FS_AddElement DEF TypeOK
      <4>4. LinkOK(l)'
        BY <2>1, <3>2, <4>2 DEF LinkOK, TypeOK
      <4> QED
        BY <4>2, <4>3, <4>4 DEF TypeOK
    <3>3. hash' = hash
      BY <1>5 DEF Invite, SendReset, account
    <3>4. CASE SendLink("invite", e) /\ state' = [state EXCEPT ![e] = IF @ = "none" THEN "invited" ELSE @]
      BY <2>1, <3>2, <3>3, <3>4 DEF TypeOK
    <3>5. CASE SendLink("reset", e)
      BY <3>2, <3>3, <3>5
    <3> QED
      BY <1>5, <3>1, <3>4, <3>5 DEF Invite, SendReset
  <2>5. TypeOK'
    BY <1>5, <2>2, <2>3, <2>4, ReplyFacts DEF Invite, SendReset, TypeOK, account, history
  <2>6. Moves
    <3>1. has' = has /\ hash' = hash /\ hash \in [Emails -> Nat] /\ expired \subseteq links
      BY <1>5 DEF Invite, SendReset, account, TypeOK
    <3>2. \A f \in Emails : has'[f] = has[f] /\ hash[f] <= hash'[f]
      BY <3>1
    <3>3. \A l \in links' \ links : LinkOK(l)' /\ l \notin expired'
      BY <2>4, <3>1
    <3>4. links \subseteq links' /\ expired \subseteq expired'
      BY <2>4
    <3> QED
      BY <2>3, <3>2, <3>3, <3>4, Zenon DEF Moves
  <2>7. \A v \in Tabs : FormOK(v)'
    BY <1>5, <2>2, <2>6, ReplyFacts, FormStill, FormAnswered DEF Invite, SendReset, Same, Page, Email
  <2> QED
    BY <2>5, <2>6, <2>7, LinksStill
<1>6. CASE Hear(w)
  <2>1. Moves
    BY <1>6, Still DEF Hear, account, inbox
  <2>2. Step(w, "idle") /\ "idle" \in Steps
    BY <1>6 DEF Hear, Steps
  <2>3. TypeOK'
    BY <1>6, <2>2, StepFacts DEF Hear, TypeOK, account, inbox, history
  <2>4. \A v \in Tabs : FormOK(v)'
    BY <1>6, <2>1, <2>2, StepFacts, FormStill, FormAnswered DEF Hear, Same, Page, Email
  <2> QED
    BY <2>1, <2>3, <2>4, LinksStill
<1>7. CASE Lost(w)
  <2>1. Moves
    BY <1>7, Still DEF Lost, account, inbox
  <2>2. PICK says \in {"sent", "failed"} : tab' = [tab EXCEPT ![w] = [@ EXCEPT !.step = "idle", !.says = says]]
    BY <1>7 DEF Lost
  <2>3. [tab[w] EXCEPT !.step = "idle", !.says = says] \in Form
    BY <1>0 DEF Form, Steps, Words
  <2>4. /\ tab' \in [Tabs -> Form] /\ \A v \in Tabs : Same(v)
        /\ tab'[w].step = "idle" /\ \A v \in Tabs \ {w} : tab'[v] = tab[v]
    BY <1>0, <2>2, <2>3 DEF TypeOK, Form, Same, Page, Email
  <2>5. e \in Emails
    BY <1>7, KnownEmail DEF Lost
  <2>6. TypeOK'
    BY <1>7, <2>4, <2>5 DEF Lost, TypeOK, account, inbox
  <2>7. \A v \in Tabs : FormOK(v)'
    BY <1>7, <2>1, <2>4, FormStill, FormAnswered DEF Lost, Same, Page, Email
  <2> QED
    BY <2>1, <2>6, <2>7, LinksStill
<1> QED
  BY <1>1, <1>2, <1>3, <1>4, <1>5, <1>6, <1>7 DEF Answering

LEMMA ExpireSound ==
  ASSUME Sound, Expire
  PROVE  Sound' /\ Moves /\ tab' = tab
<1>1. tab' = tab /\ UNCHANGED <<account, links, history>>
  BY DEF Expire
<1>2. /\ sessions' \subseteq sessions /\ requests' \subseteq requests
      /\ expired' \subseteq links /\ expired \subseteq expired' /\ acts' \in 0..MaxActs
  BY AccountsAssumption DEF Expire, Act, Sound, TypeOK
<1>3. TypeOK'
  BY <1>1, <1>2 DEF Sound, TypeOK, account, history
<1>4. Moves
  BY <1>1, <1>2 DEF Moves, Sound, TypeOK, account
<1> QED
  BY <1>1, <1>3, <1>4, FormStill, LinksStill DEF Sound, Same, Page, Email

LEMMA UsingSound ==
  ASSUME Sound, Using
  PROVE  /\ Sound' /\ Moves
         /\ \E w \in Tabs, page \in Pages, email \in Emails, link \in links \cup {None},
               typed \in Nat, since \in Nat : Submit(w, page, email, link, typed, since)
<1> DEFINE Goal == /\ Sound' /\ Moves
                   /\ \E w \in Tabs, page \in Pages, email \in Emails, link \in links \cup {None},
                         typed \in Nat, since \in Nat : Submit(w, page, email, link, typed, since)
<1>1. ASSUME NEW w \in Tabs, NEW page \in Pages \ {"accept-invite", "reset-password"}, NEW e \in Emails,
             NEW typed \in Nat, NEW since \in Nat, Submit(w, page, e, None, typed, since)
      PROVE  Goal
  BY <1>1, SubmitSound
<1>2. ASSUME NEW w \in Tabs, NEW l \in links, AcceptInvite(w, l) \/ ResetPassword(w, l)
      PROVE  Goal
  <2>1. l.email \in Emails /\ l.kind \in {"invite", "reset"}
    BY DEF Sound, TypeOK, Link
  <2>0. l # None
    BY AccountsAssumption DEF Sound, TypeOK
  <2>2. PICK page \in {"accept-invite", "reset-password"} :
          /\ Submit(w, page, l.email, l, 0, 0)
          /\ page = IF l.kind = "invite" THEN "accept-invite" ELSE "reset-password"
    BY <1>2 DEF AcceptInvite, ResetPassword
  <2>3. page \in Pages
    BY <2>2 DEF Pages, Setters
  <2>4. Sound' /\ Moves
    BY <2>0, <2>1, <2>2, <2>3, SubmitSound
  <2> QED
    BY <2>1, <2>2, <2>3, <2>4
<1>3. ASSUME NEW w \in Tabs, NEW e \in Emails,
             \/ RequestPilot(w, e) \/ InvitePilot(w, e) \/ ForgotPassword(w, e) \/ Github(w, e)
             \/ \E v \in 1..MaxActs : Login(w, e, v)
      PROVE  Goal
  <2>1. PICK page \in {"pilot-form", "pilot-invite", "forgot-password", "github", "login"}, v \in Nat :
          Submit(w, page, e, None, v, 0)
    BY <1>3, AccountsAssumption DEF RequestPilot, InvitePilot, ForgotPassword, Github, Login
  <2>2. page \in Pages \ {"accept-invite", "reset-password"}
    BY <2>1 DEF Pages, Setters, Entries
  <2> QED
    BY <1>1, <2>1, <2>2
<1>4. ASSUME NEW w \in Tabs, NEW s \in sessions, NEW v \in 0..MaxActs, ChangePassword(w, s, v)
      PROVE  Goal
  <2>1. s.email \in Emails /\ s.since \in Nat /\ v \in Nat
    BY AccountsAssumption DEF Sound, TypeOK
  <2>2. "settings" \in Pages \ {"accept-invite", "reset-password"} /\ Submit(w, "settings", s.email, None, v, s.since)
    BY <1>4 DEF ChangePassword, Pages, Setters
  <2> QED
    BY <1>1, <2>1, <2>2
<1> QED
  BY <1>2, <1>3, <1>4 DEF Using

LEMMA StepSound ==
  ASSUME Sound, [Next]_vars
  PROVE  Sound' /\ Moves
<1>1. CASE UNCHANGED vars
  <2>1. Moves /\ TypeOK'
    BY <1>1, Still DEF vars, account, inbox, history, Sound, TypeOK
  <2>2. \A w \in Tabs : FormOK(w)'
    BY <1>1, <2>1, FormStill DEF vars, Same, Page, Email
  <2> QED
    BY <2>1, <2>2, LinksStill DEF Sound
<1> QED
  BY <1>1, HandlerSound, ExpireSound, UsingSound DEF Next

LEMMA InitSound == Init => Sound
<1> SUFFICES ASSUME Init PROVE Sound
  OBVIOUS
<1>1. Fresh \in Form
  BY DEF Fresh, Form, Steps
<1>2. TypeOK
  BY <1>1, FS_EmptySet, AccountsAssumption DEF Init, TypeOK
<1>3. \A w \in Tabs : FormOK(w)
  BY AccountsAssumption DEF Init, Fresh, FormOK, Page, Email, Pages, Setters
<1> QED
  BY <1>2, <1>3 DEF Sound, Init

\* Every state is of its type, and what a form or a link stands for is so.
THEOREM SoundAlways == Spec => [](TypeOK /\ Sound)
<1>1. Sound /\ [Next]_vars => Sound'
  BY StepSound
<1>2. Sound => TypeOK
  BY DEF Sound
<1> QED
  BY InitSound, <1>1, <1>2, PTL DEF Spec

-----------------------------------------------------------------------------
(* What the pages say.                                                     *)

LEMMA BadLinkStays ==
  ASSUME Sound, Sound', Moves, NEW v \in Tabs, Same(v), ~GoodLink(v)
  PROVE  ~GoodLink(v)'
<1> DEFINE l == tab[v].link
<1>1. tab'[v].link = l /\ tab'[v].email = Email(v)
  BY DEF Same
<1>2. CASE l = None
  BY <1>1, <1>2, AccountsAssumption DEF GoodLink, Sound, TypeOK
<1>3. CASE l # None
  <2>1. l \in links /\ l.email = Email(v) /\ LinkOK(l) /\ l.email \in Emails /\ l.hash \in Nat
    BY <1>3 DEF Sound, FormOK, TypeOK, Link
  <2>2. hash[Email(v)] \in Nat /\ hash'[Email(v)] \in Nat /\ hash[Email(v)] <= hash'[Email(v)]
    BY <2>1 DEF Sound, TypeOK, Moves
  <2>3. l.hash <= hash[Email(v)]
    BY <2>1 DEF LinkOK
  <2>4. CASE l \in expired
    BY <1>1, <2>4 DEF GoodLink, Moves
  <2>5. CASE l.kind = "reset" /\ l.hash # hash[Email(v)]
    BY <1>1, <2>1, <2>2, <2>3, <2>5 DEF GoodLink, Email
  <2> QED
    BY <2>1, <2>4, <2>5 DEF GoodLink
<1> QED
  BY <1>2, <1>3

LEMMA SaidStill ==
  ASSUME Sound, Sound', Moves, NEW v \in Tabs, SaidOK(v), Same(v), tab'[v].says = tab[v].says
  PROVE  SaidOK(v)'
<1>1. CASE Page(v) = None
  BY <1>1, AccountsAssumption DEF Sound, FormOK, SaidOK, Words
<1>2. CASE Page(v) # None
  <2>1. Email(v) \in Emails /\ tab'[v].email = Email(v)
    BY <1>2 DEF Sound, FormOK, Same
  <2>2. tab[v].says = "invalid" => ~GoodLink(v)'
    BY BadLinkStays DEF SaidOK
  <2> QED
    BY <2>1, <2>2 DEF SaidOK, Moves, Email
<1> QED
  BY <1>1, <1>2

LEMMA SaidStep ==
  ASSUME Sound, \A v \in Tabs : SaidOK(v), [Next]_vars
  PROVE  \A v \in Tabs : SaidOK(v)'
<1>0. Sound' /\ Moves /\ TypeOK
  BY StepSound DEF Sound
<1>1. CASE tab' = tab
  BY <1>0, <1>1, SaidStill DEF Same, Page, Email
<1>2. CASE Using
  <2>1. PICK w \in Tabs, page \in Pages, email \in Emails, link \in links \cup {None},
             typed \in Nat, since \in Nat : Submit(w, page, email, link, typed, since)
    BY <1>2, UsingSound
  <2>2. tab'[w].says = None /\ \A v \in Tabs \ {w} : tab'[v] = tab[v]
    BY <1>0, <2>1 DEF Submit, TypeOK
  <2>3. SaidOK(w)'
    BY <2>2, AccountsAssumption DEF SaidOK, Words
  <2> QED
    BY <1>0, <2>2, <2>3, SaidStill DEF Same, Page, Email
<1>3. ASSUME NEW w \in Tabs, Answering(w) \/ Lost(w) PROVE \A v \in Tabs : SaidOK(v)'
  <2>1. tab[w].step # "idle" => Email(w) \in Emails
    BY KnownEmail
  <2>2. ASSUME NEW says \in Words, Reply(w, says),
               tab'[w].says = says /\ Same(w) => SaidOK(w)'
        PROVE  \A v \in Tabs : SaidOK(v)'
    BY <1>0, <2>2, ReplyFacts, SaidStill DEF Same, Page, Email
  <2>3. ASSUME NEW step \in Steps, Step(w, step) PROVE \A v \in Tabs : SaidOK(v)'
    BY <1>0, <2>3, StepFacts, SaidStill DEF Same, Page, Email
  <2>4. CASE Check(w)
    <3>1. CASE Reply(w, "failed")
      BY <2>2, <3>1 DEF SaidOK, Words
    <3>2. CASE Refusal(w) # None /\ Reply(w, Refusal(w))
      <4>1. Refusal(w) \in Words /\ UNCHANGED <<account, inbox>>
        BY <2>4, <3>2 DEF Check, Refusal, Words
      <4>2. Refusal(w) = "invalid" => ~GoodLink(w)
        BY AccountsAssumption DEF Refusal, Words
      <4>3. Refusal(w) = "already" => state[Email(w)] = "active"
        BY AccountsAssumption DEF Refusal, Words
      <4>4. Refusal(w) \notin {"accepted", "invited"}
        BY AccountsAssumption DEF Refusal, Words
      <4>5. tab'[w].says = Refusal(w) /\ Same(w) => SaidOK(w)'
        BY <1>0, <4>1, <4>2, <4>3, <4>4, BadLinkStays DEF SaidOK, account, Same, Email
      <4> QED
        BY <2>2, <3>2, <4>1, <4>5
    <3>3. CASE tab' = [tab EXCEPT ![w] = [@ EXCEPT !.step = "checked", !.since = hash[Email(w)]]]
      BY <1>0, <3>3, SaidStill DEF Same, Page, Email, TypeOK, Form
    <3> QED
      BY <2>4, <3>1, <3>2, <3>3 DEF Check
  <2>5. CASE Write(w) \/ SetFlag(w) \/ Hear(w)
    BY <2>3, <2>5 DEF Write, SetFlag, Hear, Steps
  <2>6. CASE Revoke(w)
    <3>1. Told(w) \in Words \ {"already", "invited", "invalid"} /\ Reply(w, Told(w)) /\ UNCHANGED account
      BY <2>6 DEF Revoke, Told, Words
    <3>2. Told(w) = "accepted" => state[Email(w)] = "active" /\ has[Email(w)]
      BY <2>6 DEF Revoke, Told, Sound, FormOK
    <3>3. tab'[w].says = Told(w) /\ Same(w) => SaidOK(w)'
      BY <3>1, <3>2 DEF SaidOK, account, Same, Email
    <3> QED
      BY <2>2, <3>1, <3>3
  <2>7. CASE Insert(w)
    BY <2>2, <2>7 DEF Insert, SaidOK, Words
  <2>8. CASE StoreRequest(w)
    BY <2>2, <2>8 DEF StoreRequest, SaidOK, Words
  <2>9. CASE Invite(w)
    <3>1. PICK says \in {"gone", "already", "invited"} :
            /\ Reply(w, says)
            /\ says = "already" => state'[Email(w)] = "active"
            /\ says = "invited" => state'[Email(w)] # "none"
      BY <1>0, <2>1, <2>9 DEF Invite, Invitable, TypeOK
    <3>2. tab'[w].says = says /\ Same(w) => SaidOK(w)'
      BY <3>1 DEF SaidOK, Same, Email
    <3> QED
      BY <2>2, <3>1, <3>2 DEF Words
  <2>10. CASE SendReset(w)
    BY <2>2, <2>10 DEF SendReset, SaidOK, Words
  <2>11. CASE Lost(w)
    <3>1. tab'[w].says \in {"sent", "failed"} /\ \A v \in Tabs \ {w} : tab'[v] = tab[v]
      BY <1>0, <2>11 DEF Lost, TypeOK, Form
    <3>2. SaidOK(w)'
      BY <3>1 DEF SaidOK
    <3> QED
      BY <1>0, <3>1, <3>2, SaidStill DEF Same, Page, Email
  <2> QED
    BY <1>3, <2>4, <2>5, <2>6, <2>7, <2>8, <2>9, <2>10, <2>11 DEF Answering
<1> QED
  BY <1>1, <1>2, <1>3, ExpireSound DEF Next, vars

\* What a page says of an account or a link is so: whatever the interleaving,
\* the answers lost and the links expired meanwhile.
THEOREM PagesTellTheTruthAlways == Spec => []PagesTellTheTruth
<1> DEFINE I == Sound /\ \A w \in Tabs : SaidOK(w)
<1>1. Init => I
  BY InitSound, AccountsAssumption DEF Init, Fresh, SaidOK, Words
<1>2. I /\ [Next]_vars => I'
  BY StepSound, SaidStep
<1>3. I => PagesTellTheTruth
  BY DEF SaidOK, PagesTellTheTruth
<1> QED
  BY <1>1, <1>2, <1>3, PTL DEF Spec

-----------------------------------------------------------------------------
(* Sessions granted before a password change.                              *)

Changing(e) == \E w \in Tabs : Email(w) = e /\ tab[w].step \in {"written", "flagged"}
SessionOK(s) == s.since = hash[s.email] \/ s.email \in lapsed \/ Changing(s.email)

LEMMA SessionsStill ==
  ASSUME Sound, \A s \in sessions : SessionOK(s), sessions' \subseteq sessions, hash' = hash, lapsed' = lapsed,
         \A v \in Tabs : tab[v].step \in {"written", "flagged"} =>
             tab'[v].email = Email(v) /\ tab'[v].step \in {"written", "flagged"}
  PROVE  \A s \in sessions' : SessionOK(s)'
<1> SUFFICES ASSUME NEW s \in sessions' PROVE SessionOK(s)'
  OBVIOUS
<1>1. SessionOK(s)
  OBVIOUS
<1>2. Changing(s.email) => Changing(s.email)'
  BY DEF Changing, Email
<1> QED
  BY <1>1, <1>2 DEF SessionOK

LEMMA SessionsStep ==
  ASSUME Sound, \A s \in sessions : SessionOK(s), [Next]_vars
  PROVE  \A s \in sessions' : SessionOK(s)'
<1>0. TypeOK
  BY DEF Sound
<1>1. CASE UNCHANGED vars
  BY <1>1, SessionsStill DEF vars, account, history, Email
<1>2. CASE Expire
  <2>1. sessions' \subseteq sessions /\ tab' = tab /\ UNCHANGED <<account, history>>
    BY <1>2 DEF Expire
  <2> QED
    BY <2>1, SessionsStill DEF account, history, Email
<1>3. CASE Using
  <2>1. PICK w \in Tabs, page \in Pages, email \in Emails, link \in links \cup {None},
             typed \in Nat, since \in Nat : Submit(w, page, email, link, typed, since)
    BY <1>3, UsingSound
  <2>2. /\ tab[w].step = "idle" /\ \A v \in Tabs \ {w} : tab'[v] = tab[v]
        /\ UNCHANGED <<account, sessions, history>>
    BY <1>0, <2>1 DEF Submit, TypeOK
  <2> QED
    BY <2>2, SessionsStill DEF account, history, Email
<1>4. ASSUME NEW w \in Tabs, Answering(w) \/ Lost(w) PROVE \A s \in sessions' : SessionOK(s)'
  <2> DEFINE e == Email(w)
  <2>1. tab[w].step # "idle" => e \in Emails
    BY KnownEmail
  <2>2. CASE Check(w)
    <3>1. /\ tab[w].step = "sent" /\ \A v \in Tabs \ {w} : tab'[v] = tab[v]
          /\ sessions' = sessions /\ hash' = hash /\ lapsed' = lapsed
      BY <1>0, <2>2 DEF Check, Reply, TypeOK, account
    <3> QED
      BY <3>1, SessionsStill DEF Email
  <2>3. CASE Write(w)
    <3>1. \E step \in {"written", "flagged"} : Step(w, step)
      BY <2>3 DEF Write
    <3>2. /\ tab'[w].step \in {"written", "flagged"} /\ \A v \in Tabs : tab'[v].email = Email(v)
          /\ \A v \in Tabs \ {w} : tab'[v] = tab[v]
      BY <1>0, <3>1, StepFacts DEF Same, Steps
    <3>3. /\ e \in Emails /\ hash' = [hash EXCEPT ![e] = hash[e] + 1]
          /\ sessions' = sessions /\ lapsed' = lapsed
      BY <2>1, <2>3 DEF Write, history
    <3> SUFFICES ASSUME NEW s \in sessions PROVE SessionOK(s)'
      BY <3>3
    <3>4. SessionOK(s) /\ s.email \in Emails
      BY <1>0 DEF TypeOK
    <3>5. Changing(s.email) => Changing(s.email)'
      BY <3>2 DEF Changing, Email
    <3>6. s.email = e => Changing(s.email)'
      BY <3>2 DEF Changing, Email
    <3>7. s.email # e => hash'[s.email] = hash[s.email]
      BY <1>0, <3>3, <3>4 DEF TypeOK
    <3> QED
      BY <3>3, <3>4, <3>5, <3>6, <3>7 DEF SessionOK
  <2>4. CASE SetFlag(w) \/ Hear(w)
    <3>1. PICK step \in {"flagged", "idle"} : Step(w, step) /\ (step = "idle" => tab[w].step = "answered")
      BY <2>4 DEF SetFlag, Hear
    <3>2. /\ tab'[w].step = step /\ \A v \in Tabs : tab'[v].email = Email(v)
          /\ \A v \in Tabs \ {w} : tab'[v] = tab[v]
      BY <1>0, <3>1, StepFacts DEF Same, Steps
    <3>3. sessions' = sessions /\ hash' = hash /\ lapsed' = lapsed
      BY <2>4 DEF SetFlag, Hear, account, history
    <3> QED
      BY <3>1, <3>2, <3>3, SessionsStill
  <2>5. CASE Revoke(w)
    <3>1. Told(w) \in Words /\ Reply(w, Told(w))
      BY <2>5 DEF Revoke, Told, Words
    <3>2. \A v \in Tabs \ {w} : tab'[v] = tab[v]
      BY <1>0, <3>1, ReplyFacts
    <3>3. hash' = hash /\ lapsed' = lapsed /\ \A s \in sessions' : s \in sessions /\ s.email # e
      BY <2>5 DEF Revoke, account, history, Ended
    <3> SUFFICES ASSUME NEW s \in sessions' PROVE SessionOK(s)'
      OBVIOUS
    <3>4. SessionOK(s) /\ s.email # e
      BY <3>3
    <3>5. Changing(s.email) => Changing(s.email)'
      BY <3>2, <3>4 DEF Changing, Email
    <3> QED
      BY <3>3, <3>4, <3>5 DEF SessionOK
  <2>6. CASE Insert(w)
    <3>1. \A v \in Tabs \ {w} : tab'[v] = tab[v]
      BY <1>0, <2>6, ReplyFacts DEF Insert, Words
    <3>2. tab[w].step = "checked" /\ hash' = hash /\ e \in Emails
      BY <2>1, <2>6 DEF Insert, account
    <3>3. /\ sessions' = sessions \cup {[email |-> e, since |-> tab[w].since]}
          /\ lapsed' = IF tab[w].since = hash[e] THEN lapsed ELSE lapsed \cup {e}
      BY <2>6 DEF Insert
    <3> SUFFICES ASSUME NEW s \in sessions' PROVE SessionOK(s)'
      OBVIOUS
    <3>4. CASE s \in sessions
      <4>1. SessionOK(s)
        BY <3>4
      <4>2. Changing(s.email) => Changing(s.email)'
        BY <3>1, <3>2 DEF Changing, Email
      <4> QED
        BY <3>2, <3>3, <4>1, <4>2 DEF SessionOK
    <3>5. CASE s = [email |-> e, since |-> tab[w].since]
      <4>1. s.email = e /\ s.since = tab[w].since
        BY <3>5
      <4> QED
        BY <3>2, <3>3, <4>1 DEF SessionOK
    <3> QED
      BY <3>3, <3>4, <3>5
  <2>7. CASE StoreRequest(w) \/ Invite(w) \/ SendReset(w)
    <3>1. \E says \in Words : Reply(w, says)
      BY <2>7 DEF StoreRequest, Invite, SendReset, Words
    <3>2. /\ tab[w].step = "sent" /\ \A v \in Tabs \ {w} : tab'[v] = tab[v]
      BY <1>0, <2>7, <3>1, ReplyFacts DEF StoreRequest, Invite, SendReset
    <3>3. sessions' = sessions /\ hash' = hash /\ lapsed' = lapsed
      BY <2>7 DEF StoreRequest, Invite, SendReset, account, history
    <3> QED
      BY <3>2, <3>3, SessionsStill DEF Email
  <2>8. CASE Lost(w)
    <3>1. /\ \A v \in Tabs \ {w} : tab'[v] = tab[v]
          /\ sessions' = sessions /\ hash' = hash
          /\ lapsed' = IF tab[w].step \in {"written", "flagged"} THEN lapsed \cup {e} ELSE lapsed
      BY <1>0, <2>8 DEF Lost, TypeOK, account
    <3> SUFFICES ASSUME NEW s \in sessions PROVE SessionOK(s)'
      BY <3>1
    <3>2. SessionOK(s)
      OBVIOUS
    <3>3. Changing(s.email) => Changing(s.email)' \/ s.email \in lapsed'
      BY <3>1 DEF Changing, Email
    <3> QED
      BY <3>1, <3>2, <3>3 DEF SessionOK
  <2> QED
    BY <1>4, <2>2, <2>3, <2>4, <2>5, <2>6, <2>7, <2>8 DEF Answering
<1> QED
  BY <1>1, <1>2, <1>3, <1>4 DEF Next

\* No session outlives the password it was granted under, once the change
\* that ended it is over, unless the change stopped or a sign-in crossed it.
THEOREM OldSessionsEndAlways == Spec => []OldSessionsEnd
<1> DEFINE I == Sound /\ \A s \in sessions : SessionOK(s)
<1>1. Init => I
  BY InitSound DEF Init
<1>2. I /\ [Next]_vars => I'
  BY StepSound, SessionsStep
<1>3. I => OldSessionsEnd
  BY DEF SessionOK, Changing, OldSessionsEnd
<1> QED
  BY <1>1, <1>2, <1>3, PTL DEF Spec

-----------------------------------------------------------------------------
(* A link that was checked is still good when the password is written.     *)

LinksOnce == (\A w \in Tabs : CheckedOK(w)) /\ Overlaps

\* Tabs that were checked before, with accounts as they were.
LEMMA CheckedStill ==
  ASSUME Sound, LinksOnce, account' = account, raced' = raced,
         \A v \in Tabs : tab'[v].step = "checked" => tab'[v] = tab[v]
  PROVE  LinksOnce'
<1>1. \A v \in Tabs : Checked(v)' => Checked(v) /\ tab'[v] = tab[v]
  BY DEF Checked, Page
<1>2. \A v \in Tabs : CheckedOK(v)'
  BY <1>1 DEF LinksOnce, CheckedOK, account, Email
<1>3. Overlaps'
  BY <1>1 DEF LinksOnce, Overlaps, Email
<1> QED
  BY <1>2, <1>3 DEF LinksOnce

LEMMA LinksStep ==
  ASSUME Sound, LinksOnce, [Next]_vars
  PROVE  LinksOnce'
<1>0. TypeOK
  BY DEF Sound
<1>1. CASE UNCHANGED vars
  BY <1>1, CheckedStill DEF vars, history
<1>2. CASE Expire
  <2>1. tab' = tab /\ account' = account /\ raced' = raced
    BY <1>2 DEF Expire, history
  <2> QED
    BY <2>1, CheckedStill
<1>3. CASE Using
  <2>1. PICK w \in Tabs, page \in Pages, email \in Emails, link \in links \cup {None},
             typed \in Nat, since \in Nat : Submit(w, page, email, link, typed, since)
    BY <1>3, UsingSound
  <2>2. /\ tab'[w].step = "sent" /\ \A v \in Tabs \ {w} : tab'[v] = tab[v]
        /\ account' = account /\ raced' = raced
    BY <1>0, <2>1 DEF Submit, TypeOK, history
  <2> QED
    BY <2>2, CheckedStill
<1>4. ASSUME NEW w \in Tabs, Answering(w) \/ Lost(w) PROVE LinksOnce'
  <2> DEFINE e == Email(w)
  <2>1. tab[w].step # "idle" => e \in Emails
    BY KnownEmail
  <2>2. CASE Check(w)
    <3>1. account' = account /\ links' = links /\ \A v \in Tabs \ {w} : tab'[v] = tab[v]
      BY <1>0, <2>2 DEF Check, Reply, TypeOK, inbox
    <3>2. CASE \E says \in Words : Reply(w, says) /\ UNCHANGED raced
      <4>1. tab'[w].step = "answered" /\ raced' = raced
        BY <1>0, <3>2, ReplyFacts
      <4> QED
        BY <3>1, <4>1, CheckedStill
    <3>3. CASE /\ Refusal(w) = None
               /\ tab' = [tab EXCEPT ![w] = [@ EXCEPT !.step = "checked", !.since = hash[e]]]
               /\ raced' = IF \E v \in Tabs \ {w} : /\ Page(v) \in Setters /\ Page(w) \in Setters
                                                    /\ Email(v) = e /\ tab[v].step = "checked"
                           THEN raced \cup {e} ELSE raced
      <4>1. tab'[w].page = Page(w) /\ tab'[w].email = e /\ tab'[w].link = tab[w].link
        BY <1>0, <3>3 DEF TypeOK, Form, Page, Email
      <4>2. raced \subseteq raced'
        BY <3>3
      <4>3. ASSUME NEW v \in Tabs \ {w} PROVE CheckedOK(v)'
        BY <3>1, <4>2 DEF LinksOnce, CheckedOK, Checked, account, Page, Email
      <4>4. CheckedOK(w)'
        <5> SUFFICES ASSUME Page(w) \in Setters, tab[w].link # None
                     PROVE IF tab[w].link.kind = "invite" THEN state'[e] = "invited" ELSE hash'[e] = tab[w].link.hash
          BY <4>1 DEF CheckedOK, Checked, Page, Email
        <5>1. /\ tab[w].link \in links /\ tab[w].link.email = e
              /\ Page(w) = IF tab[w].link.kind = "invite" THEN "accept-invite" ELSE "reset-password"
          BY DEF Sound, FormOK
        <5>2. e \in Emails /\ state[e] \in {"none", "invited", "active"} /\ tab[w].link.kind \in {"invite", "reset"}
          BY <1>0, <2>1, <2>2, <5>1 DEF Check, TypeOK, Link
        <5>3. GoodLink(w)
          BY <3>3, <5>1, AccountsAssumption DEF Refusal, Words
        <5>4. CASE tab[w].link.kind = "invite"
          <6>1. state[e] # "none"
            BY <5>1, <5>4 DEF Sound, LinkOK
          <6>2. state[e] # "active"
            BY <3>3, <5>1, <5>4, AccountsAssumption DEF Refusal, Words
          <6> QED
            BY <3>1, <5>2, <5>4, <6>1, <6>2 DEF account
        <5>5. CASE tab[w].link.kind = "reset"
          BY <3>1, <5>3, <5>5 DEF GoodLink, account
        <5> QED
          BY <5>2, <5>4, <5>5
      <4>5. Overlaps'
        <5> SUFFICES ASSUME NEW u \in Tabs, NEW v \in Tabs, u # v, Checked(u)', Checked(v)', tab'[u].email = tab'[v].email
                     PROVE tab'[u].email \in raced'
          BY DEF Overlaps, Email
        <5>1. CASE u # w /\ v # w
          BY <3>1, <4>2, <5>1 DEF LinksOnce, Overlaps, Checked, Page, Email
        <5>2. CASE u = w
          BY <3>1, <3>3, <4>1, <5>2 DEF Checked, Page, Email
        <5>3. CASE v = w
          BY <3>1, <3>3, <4>1, <5>3 DEF Checked, Page, Email
        <5> QED
          BY <5>1, <5>2, <5>3
      <4> QED
        BY <4>3, <4>4, <4>5 DEF LinksOnce
    <3>4. Refusal(w) # None => Refusal(w) \in Words
      BY DEF Refusal, Words
    <3> QED
      BY <2>2, <3>2, <3>3, <3>4 DEF Check, Words
  <2>3. CASE Write(w)
    <3>1. \E step \in {"written", "flagged"} : Step(w, step)
      BY <2>3 DEF Write
    <3>2. /\ tab'[w].step # "checked" /\ \A v \in Tabs \ {w} : tab'[v] = tab[v]
      BY <1>0, <3>1, StepFacts DEF Steps
    <3>3. Checked(w) /\ raced' = raced
      BY <2>3 DEF Write, Checked, history
    <3>4. \A f \in Emails \ {e} : state'[f] = state[f] /\ hash'[f] = hash[f]
      BY <1>0, <2>3 DEF Write, TypeOK
    <3>5. ASSUME NEW v \in Tabs PROVE CheckedOK(v)'
      <4> SUFFICES ASSUME v # w, Checked(v), Email(v) \notin raced
                   PROVE CheckedOK(v)'
        BY <3>2, <3>3 DEF CheckedOK, Checked, Page, Email
      <4>1. Email(v) \in Emails /\ Email(v) # e /\ CheckedOK(v)
        BY <3>3, KnownEmail DEF LinksOnce, Overlaps, Checked
      <4> QED
        BY <3>2, <3>3, <3>4, <4>1 DEF CheckedOK, Checked, Page, Email
    <3>6. Overlaps'
      BY <3>2, <3>3 DEF LinksOnce, Overlaps, Checked, Page, Email
    <3> QED
      BY <3>5, <3>6 DEF LinksOnce
  <2>4. CASE SetFlag(w) \/ Hear(w)
    <3>1. PICK step \in {"flagged", "idle"} : Step(w, step)
      BY <2>4 DEF SetFlag, Hear
    <3>2. tab'[w].step = step /\ \A v \in Tabs \ {w} : tab'[v] = tab[v]
      BY <1>0, <3>1, StepFacts DEF Steps
    <3>3. state' = state /\ hash' = hash /\ raced' = raced
      BY <2>4 DEF SetFlag, Hear, account, history
    <3>4. \A v \in Tabs : Checked(v)' => Checked(v) /\ tab'[v] = tab[v]
      BY <3>1, <3>2 DEF Checked, Page
    <3> QED
      BY <3>3, <3>4 DEF LinksOnce, CheckedOK, Overlaps, Email
  <2>5. CASE Revoke(w) \/ Insert(w) \/ StoreRequest(w) \/ SendReset(w)
    <3>1. \E says \in Words : Reply(w, says)
      BY <2>5 DEF Revoke, Insert, StoreRequest, SendReset, Told, Words
    <3>2. tab'[w].step = "answered" /\ \A v \in Tabs \ {w} : tab'[v] = tab[v]
      BY <1>0, <3>1, ReplyFacts
    <3>3. account' = account /\ raced' = raced
      BY <2>5 DEF Revoke, Insert, StoreRequest, SendReset, history
    <3> QED
      BY <3>2, <3>3, CheckedStill
  <2>6. CASE Invite(w)
    <3>1. \E says \in Words : Reply(w, says)
      BY <2>6 DEF Invite, Words
    <3>2. tab'[w].step = "answered" /\ \A v \in Tabs \ {w} : tab'[v] = tab[v]
      BY <1>0, <3>1, ReplyFacts
    <3>3. hash' = hash /\ raced' = raced /\ \A f \in Emails : state[f] = "invited" => state'[f] = "invited"
      BY <1>0, <2>1, <2>6 DEF Invite, Invitable, TypeOK, history
    <3>4. \A v \in Tabs : Checked(v)' => Checked(v) /\ tab'[v] = tab[v] /\ Email(v) \in Emails
      BY <3>2, KnownEmail DEF Checked, Page
    <3> QED
      BY <3>3, <3>4 DEF LinksOnce, CheckedOK, Overlaps, Email
  <2>7. CASE Lost(w)
    <3>1. /\ tab'[w].step = "idle" /\ \A v \in Tabs \ {w} : tab'[v] = tab[v]
          /\ account' = account /\ raced' = raced
      BY <1>0, <2>7 DEF Lost, TypeOK, Form
    <3> QED
      BY <3>1, CheckedStill
  <2> QED
    BY <1>4, <2>2, <2>3, <2>4, <2>5, <2>6, <2>7 DEF Answering
<1> QED
  BY <1>1, <1>2, <1>3, <1>4 DEF Next

\* "This link [...] can only be used once": with an invitation only a
\* pending account gets a password, with a reset link only the password it
\* was made for is replaced, unless two requests for the account overlapped.
THEOREM LinksWorkOnceAlways == Spec => LinksWorkOnce
<1> DEFINE I == Sound /\ LinksOnce
           Once == \A w \in Tabs : Writing(w) /\ Email(w) \notin raced /\ tab[w].link # None =>
                     IF tab[w].link.kind = "invite" THEN state[Email(w)] = "invited"
                     ELSE hash[Email(w)] = tab[w].link.hash
<1>1. Init => I
  <2>1. Init => LinksOnce
    BY DEF Init, Fresh, LinksOnce, CheckedOK, Overlaps, Checked
  <2> QED
    BY <2>1, InitSound
<1>2. I /\ [Next]_vars => I'
  BY StepSound, LinksStep
<1>3. I => Once
  <2> SUFFICES ASSUME I, NEW w \in Tabs, tab[w].step = "checked", Email(w) \notin raced, tab[w].link # None
               PROVE  IF tab[w].link.kind = "invite" THEN state[Email(w)] = "invited"
                      ELSE hash[Email(w)] = tab[w].link.hash
    BY DEF Writing
  <2>1. Page(w) \in Setters
    BY DEF Sound, FormOK, Setters
  <2> QED
    BY <2>1 DEF LinksOnce, CheckedOK, Checked
<1>4. I => [Once]_vars
  BY <1>3
<1> QED
  BY <1>1, <1>2, <1>4, PTL DEF Spec, LinksWorkOnce

=============================================================================

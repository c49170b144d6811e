--------------------------- MODULE RecordPageProofs ---------------------------
(***************************************************************************)
(* Proofs about RecordPage for any records, fields, values and bound.      *)
(* Sound adds to the types what the form was opened on (FormOK), what a    *)
(* save in flight carries (SavingOK) and, while nothing has happened that  *)
(* the page cannot know of, that whatever it shows or has been told is     *)
(* what the server has (ViewOK).                                           *)
(***************************************************************************)
EXTENDS RecordPage, TLAPS

Request == [at : {"idle", "sent", "done", "refreshing", "refreshed"},
            id : Records \cup {None}, changed : SUBSET Fields,
            text : Text \cup {None}, record : Shown \cup {None},
            badge : Badges \cup {None}, ours : BOOLEAN]

Reading == [on : BOOLEAN, record : Shown \cup {None}, badge : Badges \cup {None}]

\* A record without a read in flight has nothing read; no page, no reads.
LoadsOK == \A r \in Records : (~loads[r].on => loads[r] = NoLoad) /\ (page = None => ~loads[r].on)

\* No page hears a button of a page that was left.
SentOK ==
    /\ sent["save"].at = "sent" => sent["save"].text \in Text
    /\ page = None => \A b \in Buttons : Busy(b) => ~sent[b].ours

FormOK ==
    /\ editing => draft \in Text
    /\ editing /\ ~swapped => \A f \in Fields \ typed : draft[f] = record.fields[f]

Saving(step) == sent["save"].at = step /\ sent["save"].ours

SavingOK ==
    /\ Saving("sent") \/ Saving("done") => editing
    /\ Saving("sent") => \A f \in Fields \ late : sent["save"].text[f] = draft[f]
    /\ Saving("sent") /\ ~swapped =>
        \A f \in Fields \ sent["save"].changed : record.fields[f] = sent["save"].text[f]
    /\ Saving("done") /\ ~swapped /\ ~blurred =>
        \A f \in Fields \ late : sent["save"].record.fields[f] = Coerced[draft[f]]

ShowsServer == record = OnServer(page) /\ badge = Status(page)

\* What button b's request has in hand agrees with the server.
CarriesOK(b) ==
    /\ sent[b].id = page /\ sent[b].ours
    /\ sent[b].at = "sent" => ShowsServer
    /\ sent[b].at = "done" =>
        CASE b \in {"save", "approve"} -> sent[b].record = OnServer(page)
          [] b = "retry" -> record = OnServer(page) /\ sent[b].badge = Status(page)
          [] b = "delete" -> TRUE
    /\ sent[b].at = "refreshing" => record = OnServer(page)
    /\ sent[b].at = "refreshed" => record = OnServer(page) /\ sent[b].badge = Status(page)

ReadOK ==
    /\ \A r \in Records \ {page} : ~loads[r].on
    /\ loading = loads[page].on
    /\ loads[page].record \in {None, OnServer(page)}
    /\ loads[page].badge \in {None, Status(page)}

ViewOK ==
    page # None /\ ~blurred =>
        /\ ReadOK
        /\ loading => Quiet
        /\ \A b, c \in Buttons : Busy(b) /\ Busy(c) => b = c
        /\ \A b \in Buttons : Busy(b) => CarriesOK(b)
        /\ ~loading /\ ~failed /\ Quiet => ShowsServer

Sound == TypeOK /\ LoadsOK /\ SentOK /\ FormOK /\ SavingOK /\ ViewOK

-----------------------------------------------------------------------------
(* Types of what the actions build.                                        *)

LEMMA SentType == TypeOK => sent \in [Buttons -> Request]
BY DEF TypeOK, Request

LEMMA LoadsType == TypeOK => loads \in [Records -> Reading]
BY DEF TypeOK, Reading

LEMMA IdleType == Idle \in Request /\ Idle.at = "idle" /\ NoLoad \in Reading /\ ~NoLoad.on /\ NoLoad.record = None
BY DEF Idle, Request, NoLoad, Reading

LEMMA ServerType ==
  ASSUME TypeOK, NEW r \in Records
  PROVE  OnServer(r) \in Shown /\ Status(r) \in Badges
BY DEF TypeOK, OnServer, Shown, Status, Badges, Ready

LEMMA MergedType ==
  ASSUME TypeOK, NEW r \in Records, NEW changed, NEW text \in Text
  PROVE  Merged(r, changed, text) \in Text
BY RecordPageAssumption DEF TypeOK, Merged, Text

-----------------------------------------------------------------------------
(* What a request becomes.                                                 *)

LEMMA RequestFacts ==
  ASSUME TypeOK, NEW b \in Buttons, NEW new \in Request, sent' = [sent EXCEPT ![b] = new]
  PROVE  /\ sent' \in [Buttons -> Request] /\ sent'[b] = new
         /\ \A c \in Buttons \ {b} : sent'[c] = sent[c]
BY SentType

LEMMA SendFacts ==
  ASSUME TypeOK, NEW b \in Buttons, NEW changed \in SUBSET Fields, NEW text \in Text \cup {None},
         Send(b, changed, text)
  PROVE  /\ sent' \in [Buttons -> Request] /\ ~Busy(b)
         /\ sent'[b].at = "sent" /\ sent'[b].id = page /\ sent'[b].ours
         /\ sent'[b].changed = changed /\ sent'[b].text = text
         /\ \A c \in Buttons \ {b} : sent'[c] = sent[c]
         /\ blurred' \in BOOLEAN /\ (~blurred' => ~blurred /\ Quiet)
<1> DEFINE new == [Idle EXCEPT !.at = "sent", !.id = page, !.changed = changed, !.text = text]
<1>1. /\ new \in Request /\ new.at = "sent" /\ new.id = page /\ new.ours
      /\ new.changed = changed /\ new.text = text
  BY DEF TypeOK, Idle, Request
<1>2. sent' = [sent EXCEPT ![b] = new]
  BY DEF Send
<1> HIDE DEF new
<1>3. sent' \in [Buttons -> Request] /\ sent'[b] = new /\ \A c \in Buttons \ {b} : sent'[c] = sent[c]
  BY <1>1, <1>2, RequestFacts
<1>4. ~Busy(b) /\ blurred' = (blurred \/ ~Quiet)
  BY DEF Send
<1>5. blurred' \in BOOLEAN /\ (~blurred' => ~blurred /\ Quiet)
  BY <1>4 DEF TypeOK
<1> QED
  BY <1>1, <1>3, <1>4, <1>5

\* The server answers, or reads both badges again.
LEMMA AnswersFacts ==
  ASSUME TypeOK, NEW b \in Buttons, NEW answer \in Shown \cup {None}, NEW status \in Badges \cup {None},
         Answers(b, answer, status)
  PROVE  /\ sent' \in [Buttons -> Request]
         /\ sent'[b].at = "done" /\ sent'[b].id = sent[b].id /\ sent'[b].ours = sent[b].ours
         /\ sent'[b].record = answer /\ sent'[b].badge = status
         /\ \A c \in Buttons \ {b} : sent'[c] = sent[c]
<1> DEFINE new == [sent[b] EXCEPT !.at = "done", !.record = answer, !.badge = status]
<1>0. sent[b] \in Request
  BY SentType
<1>1. /\ new \in Request /\ new.at = "done" /\ new.id = sent[b].id /\ new.ours = sent[b].ours
      /\ new.record = answer /\ new.badge = status
  BY <1>0 DEF Request
<1>2. sent' = [sent EXCEPT ![b] = new]
  BY <1>0, SentType DEF Answers, Request
<1> HIDE DEF new
<1> QED
  BY <1>1, <1>2, RequestFacts

LEMMA RefreshedFacts ==
  ASSUME TypeOK, NEW b \in Buttons, NEW status \in Badges,
         sent' = [sent EXCEPT ![b].at = "refreshed", ![b].badge = status]
  PROVE  /\ sent' \in [Buttons -> Request]
         /\ sent'[b].at = "refreshed" /\ sent'[b].id = sent[b].id /\ sent'[b].ours = sent[b].ours
         /\ sent'[b].badge = status
         /\ \A c \in Buttons \ {b} : sent'[c] = sent[c]
<1> DEFINE new == [sent[b] EXCEPT !.at = "refreshed", !.badge = status]
<1>0. sent[b] \in Request
  BY SentType
<1>1. /\ new \in Request /\ new.at = "refreshed" /\ new.id = sent[b].id /\ new.ours = sent[b].ours
      /\ new.badge = status
  BY <1>0 DEF Request
<1>2. sent' = [sent EXCEPT ![b] = new]
  BY <1>0, SentType DEF Request
<1> HIDE DEF new
<1> QED
  BY <1>1, <1>2, RequestFacts

LEMMA RefreshingFacts ==
  ASSUME TypeOK, NEW b \in Buttons, Refreshing(b)
  PROVE  /\ sent' \in [Buttons -> Request]
         /\ sent'[b].at = "refreshing" /\ sent'[b].id = sent[b].id /\ sent'[b].ours
         /\ \A c \in Buttons \ {b} : sent'[c] = sent[c]
<1> DEFINE new == [Idle EXCEPT !.at = "refreshing", !.id = sent[b].id]
<1>1. new \in Request /\ new.at = "refreshing" /\ new.id = sent[b].id /\ new.ours
  BY SentType DEF Idle, Request
<1>2. sent' = [sent EXCEPT ![b] = new]
  BY DEF Refreshing
<1> HIDE DEF new
<1> QED
  BY <1>1, <1>2, RequestFacts

-----------------------------------------------------------------------------
(* The page's reads.                                                       *)

LEMMA ShowKeeps ==
  ASSUME Sound, NEW r \in Records, Show(r), acts' \in 0..MaxActs
  PROVE  Sound'
<1> USE DEF server
<1> DEFINE new == [NoLoad EXCEPT !.on = TRUE]
<1>1. /\ Sound /\ TypeOK /\ page = None /\ page' = r /\ r # None
      /\ new \in Reading /\ new.on /\ new.record = None /\ new.badge = None
      /\ loads' = [loads EXCEPT ![r] = new]
      /\ loading' = TRUE /\ failed' = FALSE /\ record' = None /\ badge' = None
      /\ editing' = FALSE /\ draft' = None /\ confirming' = FALSE
      /\ typed' = {} /\ late' = {} /\ swapped' = FALSE /\ blurred' = ~Quiet
      /\ UNCHANGED <<server, sent>>
  BY RecordPageAssumption DEF Sound, Show, StartLoad, NoLoad, Reading
<1> HIDE DEF new
<1>0. loads' \in [Records -> Reading] /\ loads'[r] = new /\ \A s \in Records \ {r} : loads'[s] = loads[s]
  BY <1>1, LoadsType
<1>a. \A b \in Buttons : Busy(b) => ~sent[b].ours
  BY <1>1 DEF Sound, SentOK
<1>2. TypeOK'
  BY <1>0, <1>1 DEF TypeOK, Reading, Quiet
<1>3. LoadsOK'
  BY <1>0, <1>1 DEF Sound, LoadsOK
<1>4. SentOK'
  BY <1>1 DEF Sound, SentOK, Busy
<1>5. FormOK'
  BY <1>1 DEF FormOK
<1>6. SavingOK'
  BY <1>1, <1>a DEF SavingOK, Saving, Busy, Buttons
<1>7. ViewOK'
  BY <1>0, <1>1 DEF Sound, LoadsOK, ViewOK, ReadOK, Quiet, Busy
<1> QED
  BY <1>2, <1>3, <1>4, <1>5, <1>6, <1>7 DEF Sound

LEMMA JumpKeeps ==
  ASSUME Sound, NEW r \in Records, Jump(r), acts' \in 0..MaxActs
  PROVE  Sound'
<1> USE DEF server, form
<1> DEFINE new == [NoLoad EXCEPT !.on = TRUE]
<1>1. /\ Sound /\ TypeOK /\ page # None /\ page' = r /\ r # None
      /\ new \in Reading /\ new.on /\ new.record = None /\ new.badge = None
      /\ loads' = [loads EXCEPT ![r] = new]
      /\ loading' = TRUE /\ failed' = FALSE
      /\ blurred' = (~Quiet \/ \E s \in Records : loads[s].on)
      /\ UNCHANGED <<server, record, badge, form, confirming, sent>>
  BY RecordPageAssumption DEF Sound, Jump, StartLoad, NoLoad, Reading
<1> HIDE DEF new
<1>0. loads' \in [Records -> Reading] /\ loads'[r] = new /\ \A s \in Records \ {r} : loads'[s] = loads[s]
  BY <1>1, LoadsType
<1>a. ~blurred' => Quiet /\ \A s \in Records : ~loads[s].on
  BY <1>1
<1>b. blurred' \in BOOLEAN
  BY <1>1 DEF Quiet, Busy
<1>2. TypeOK'
  BY <1>0, <1>b, <1>1 DEF TypeOK, Reading
<1>3. LoadsOK'
  BY <1>0, <1>1 DEF Sound, LoadsOK
<1>4. SentOK'
  BY <1>1 DEF Sound, SentOK, Busy
<1>5. FormOK'
  BY <1>1 DEF Sound, FormOK
<1>6. SavingOK'
  BY <1>a, <1>1 DEF Sound, SavingOK, Saving, Quiet, Busy, Buttons
<1>7. ViewOK'
  BY <1>0, <1>a, <1>1 DEF ViewOK, ReadOK, Quiet, Busy
<1> QED
  BY <1>2, <1>3, <1>4, <1>5, <1>6, <1>7 DEF Sound

LEMMA ReadKeeps ==
  ASSUME Sound, NEW r \in Records, ReadRecord(r) \/ ReadBadge(r), acts' \in 0..MaxActs
  PROVE  Sound'
<1> USE DEF server, form
<1>1. /\ Sound /\ TypeOK /\ loads[r].on
      /\ UNCHANGED <<server, page, record, badge, loading, failed, form, confirming, sent, blurred>>
  BY DEF Sound, ReadRecord, ReadBadge
<1>a. loads[r] \in Reading /\ OnServer(r) \in Shown /\ Status(r) \in Badges
  BY <1>1, LoadsType, ServerType
<1>b. PICK new \in Reading : /\ loads' = [loads EXCEPT ![r] = new] /\ new.on
                              /\ new.record \in {loads[r].record, OnServer(r)}
                              /\ new.badge \in {loads[r].badge, Status(r)}
  <2>1. CASE ReadRecord(r)
    <3> DEFINE n == [loads[r] EXCEPT !.record = OnServer(r)]
    <3>1. n \in Reading /\ n.on /\ n.record = OnServer(r) /\ n.badge = loads[r].badge
      BY <1>a, <1>1 DEF Reading
    <3>2. loads' = [loads EXCEPT ![r] = n]
      BY <2>1, <1>1, LoadsType DEF ReadRecord, Reading
    <3> HIDE DEF n
    <3> QED
      BY <3>1, <3>2
  <2>2. CASE ReadBadge(r)
    <3> DEFINE n == [loads[r] EXCEPT !.badge = Status(r)]
    <3>1. n \in Reading /\ n.on /\ n.record = loads[r].record /\ n.badge = Status(r)
      BY <1>a, <1>1 DEF Reading
    <3>2. loads' = [loads EXCEPT ![r] = n]
      BY <2>2, <1>1, LoadsType DEF ReadBadge, Reading
    <3> HIDE DEF n
    <3> QED
      BY <3>1, <3>2
  <2> QED
    BY <2>1, <2>2
<1>0. loads' \in [Records -> Reading] /\ loads'[r] = new /\ \A s \in Records \ {r} : loads'[s] = loads[s]
  BY <1>b, <1>1, LoadsType
<1>c. \A s \in Records : OnServer(s)' = OnServer(s) /\ Status(s)' = Status(s)
  BY <1>1 DEF OnServer, Status, Ready, Flagged
<1>2. TypeOK'
  BY <1>0, <1>1 DEF TypeOK, Reading
<1>3. LoadsOK'
  BY <1>0, <1>b, <1>1 DEF Sound, LoadsOK
<1>4. SentOK'
  BY <1>1 DEF Sound, SentOK, Busy
<1>5. FormOK'
  BY <1>1 DEF Sound, FormOK
<1>6. SavingOK'
  BY <1>1 DEF Sound, SavingOK, Saving
<1>7. ViewOK'
  <2> SUFFICES ASSUME page # None, ~blurred PROVE ViewOK'
    BY <1>1 DEF ViewOK
  <2>1. page \in Records /\ r = page
    BY <1>1 DEF Sound, ViewOK, ReadOK, TypeOK
  <2>2. ReadOK'
    BY <1>0, <1>b, <1>c, <1>1, <2>1 DEF Sound, ViewOK, ReadOK
  <2>3. \A b \in Buttons : (Busy(b)' <=> Busy(b)) /\ (CarriesOK(b) => CarriesOK(b)')
    BY <1>c, <1>1, <2>1 DEF Busy, CarriesOK, ShowsServer
  <2>4. (Quiet' <=> Quiet) /\ (ShowsServer => ShowsServer')
    BY <1>c, <1>1, <2>1 DEF Quiet, Busy, ShowsServer
  <2> QED
    BY <1>1, <2>2, <2>3, <2>4 DEF Sound, ViewOK
<1> QED
  BY <1>2, <1>3, <1>4, <1>5, <1>6, <1>7 DEF Sound

LEMMA LoadEndsKeeps ==
  ASSUME Sound, NEW r \in Records, LoadEnds(r), acts' \in 0..MaxActs
  PROVE  Sound'
<1> USE DEF server, form
<1>1. /\ Sound /\ TypeOK /\ loads[r].record # None /\ loads[r].badge # None
      /\ record' = loads[r].record /\ badge' = loads[r].badge
      /\ swapped' = (swapped \/ editing) /\ loading' = FALSE
      /\ loads' = [loads EXCEPT ![r] = NoLoad]
      /\ UNCHANGED <<server, page, failed, editing, draft, typed, late, confirming, sent, blurred>>
  BY DEF Sound, LoadEnds
<1>0. loads' \in [Records -> Reading] /\ loads'[r] = NoLoad /\ \A s \in Records \ {r} : loads'[s] = loads[s]
  BY <1>1, LoadsType, IdleType
<1>a. loads[r].on /\ loads[r] \in Reading /\ page # None
  BY <1>1, LoadsType, IdleType DEF Sound, LoadsOK
<1>b. swapped' \in BOOLEAN
  BY <1>1 DEF TypeOK
<1>2. TypeOK'
  BY <1>0, <1>a, <1>b, <1>1 DEF TypeOK, Reading
<1>3. LoadsOK'
  BY <1>0, <1>1, IdleType DEF Sound, LoadsOK
<1>4. SentOK'
  BY <1>1 DEF Sound, SentOK, Busy
<1>5. FormOK'
  BY <1>1 DEF Sound, FormOK
<1>6. SavingOK'
  BY <1>1 DEF Sound, SavingOK, Saving
<1>7. ViewOK'
  <2> SUFFICES ASSUME page # None, ~blurred PROVE ViewOK'
    BY <1>1 DEF ViewOK
  <2>1. page \in Records /\ r = page /\ Quiet
    BY <1>1, <1>a DEF Sound, ViewOK, ReadOK, TypeOK
  <2>2. OnServer(page)' = OnServer(page) /\ Status(page)' = Status(page)
    BY <1>1 DEF OnServer, Status, Ready, Flagged
  <2>3. ReadOK'
    BY <1>0, <1>1, <2>1, <2>2 DEF Sound, ViewOK, ReadOK, NoLoad
  <2>4. ShowsServer'
    BY <1>1, <2>1, <2>2 DEF Sound, ViewOK, ReadOK, ShowsServer
  <2> QED
    BY <1>1, <2>1, <2>3, <2>4 DEF ViewOK, Quiet, Busy
<1> QED
  BY <1>2, <1>3, <1>4, <1>5, <1>6, <1>7 DEF Sound

LEMMA LoadFailsKeeps ==
  ASSUME Sound, NEW r \in Records, LoadFails(r), acts' \in 0..MaxActs
  PROVE  Sound'
<1> USE DEF server, form
<1>1. /\ Sound /\ TypeOK /\ loads[r].on
      /\ failed' = TRUE /\ loading' = FALSE
      /\ loads' = [loads EXCEPT ![r] = NoLoad]
      /\ UNCHANGED <<server, page, record, badge, form, confirming, sent, blurred>>
  BY DEF Sound, LoadFails
<1>0. loads' \in [Records -> Reading] /\ loads'[r] = NoLoad /\ \A s \in Records \ {r} : loads'[s] = loads[s]
  BY <1>1, LoadsType, IdleType
<1>2. TypeOK'
  BY <1>0, <1>1 DEF TypeOK, Reading
<1>3. LoadsOK'
  BY <1>0, <1>1, IdleType DEF Sound, LoadsOK
<1>4. SentOK'
  BY <1>1 DEF Sound, SentOK, Busy
<1>5. FormOK'
  BY <1>1 DEF Sound, FormOK
<1>6. SavingOK'
  BY <1>1 DEF Sound, SavingOK, Saving
<1>7. ViewOK'
  <2> SUFFICES ASSUME page # None, ~blurred PROVE ViewOK'
    BY <1>1 DEF ViewOK
  <2>1. page \in Records /\ r = page /\ Quiet
    BY <1>1 DEF Sound, ViewOK, ReadOK, TypeOK
  <2>2. ReadOK'
    BY <1>0, <1>1, <2>1 DEF Sound, ViewOK, ReadOK, NoLoad
  <2> QED
    BY <1>1, <2>1, <2>2 DEF ViewOK, Quiet, Busy
<1> QED
  BY <1>2, <1>3, <1>4, <1>5, <1>6, <1>7 DEF Sound

\* The page is gone: what is sent is nobody's.
LEMMA GoneKeeps ==
  ASSUME Sound, Gone, sent' \in [Buttons -> Request],
         \A b \in Buttons : sent'[b].at \in {"idle", sent[b].at} /\ (Busy(b)' => ~sent'[b].ours),
         sent'["save"].at = "sent" => sent'["save"].text = sent["save"].text,
         UNCHANGED <<server, blurred>>, acts' \in 0..MaxActs
  PROVE  Sound'
<1> USE DEF server
<1>1. /\ Sound /\ TypeOK /\ page' = None
      /\ record' = None /\ badge' = None /\ loading' = FALSE /\ failed' = FALSE
      /\ loads' = [r \in Records |-> NoLoad]
      /\ editing' = FALSE /\ draft' = None /\ confirming' = FALSE
      /\ typed' = {} /\ late' = {} /\ swapped' = FALSE
  BY DEF Sound, Gone
<1>0. loads' \in [Records -> Reading] /\ "save" \in Buttons
  BY <1>1, IdleType DEF Buttons
<1>2. TypeOK'
  BY <1>0, <1>1 DEF TypeOK, Reading, Request
<1>3. LoadsOK'
  BY <1>1, IdleType DEF LoadsOK
<1>4. SentOK'
  BY <1>0, <1>1 DEF Sound, SentOK, Busy
<1>5. FormOK'
  BY <1>1 DEF FormOK
<1>6. SavingOK'
  BY <1>0, <1>1 DEF SavingOK, Saving, Busy
<1>7. ViewOK'
  BY <1>1 DEF ViewOK
<1> QED
  BY <1>2, <1>3, <1>4, <1>5, <1>6, <1>7 DEF Sound

LEMMA LeaveKeeps ==
  ASSUME Sound, Leave \/ HearDeleted, acts' \in 0..MaxActs
  PROVE  Sound'
<1>1. Gone /\ UNCHANGED <<server, blurred>>
  BY DEF Leave, HearDeleted
<1> DEFINE old(b) == [sent[b] EXCEPT !.ours = FALSE]
<1>2. sent \in [Buttons -> Request] /\ "save" \in Buttons
  BY SentType DEF Sound, Buttons
<1>3. \A b \in Buttons : /\ old(b) \in Request /\ ~old(b).ours /\ old(b).at = sent[b].at
                         /\ old(b).text = sent[b].text
  BY <1>2 DEF Request
<1>4. /\ sent' \in [Buttons -> Request]
      /\ \A b \in Buttons : sent'[b] = old(b) \/ sent'[b] = Idle
  <2>1. CASE Leave
    <3>1. sent' = [b \in Buttons |-> old(b)]
      BY <2>1 DEF Leave
    <3> HIDE DEF old
    <3> QED
      BY <1>3, <3>1
  <2>2. CASE HearDeleted
    <3>1. sent' = [b \in Buttons |-> IF b = "delete" THEN Idle ELSE old(b)]
      BY <2>2 DEF HearDeleted
    <3> HIDE DEF old
    <3> QED
      BY <1>3, <3>1, IdleType
  <2> QED
    BY <2>1, <2>2
<1> HIDE DEF old
<1>5. \A b \in Buttons : sent'[b].at \in {"idle", sent[b].at} /\ (Busy(b)' => ~sent'[b].ours)
  BY <1>3, <1>4, IdleType DEF Busy
<1>6. sent'["save"].at = "sent" => sent'["save"].text = sent["save"].text
  BY <1>2, <1>3, <1>4, IdleType
<1> QED
  BY <1>1, <1>4, <1>5, <1>6, GoneKeeps

-----------------------------------------------------------------------------
(* The form and the buttons.                                               *)

\* What only the form changes leaves everything else as it was.
LEMMA FormOnly ==
  ASSUME Sound, UNCHANGED <<server, page, content, sent, blurred>>
  PROVE  LoadsOK' /\ SentOK' /\ ViewOK'
<1> USE DEF server, content
<1>1. LoadsOK'
  BY DEF Sound, LoadsOK
<1>2. SentOK'
  BY DEF Sound, SentOK, Busy
<1>3. ViewOK'
  BY DEF Sound, ViewOK, ReadOK, Quiet, Busy, CarriesOK, ShowsServer, OnServer, Status, Ready, Flagged
<1> QED
  BY <1>1, <1>2, <1>3

LEMMA StartEditingKeeps ==
  ASSUME Sound, StartEditing, acts' \in 0..MaxActs
  PROVE  Sound'
<1> USE DEF server, content
<1>1. /\ Sound /\ TypeOK /\ record # None /\ ~editing
      /\ editing' = TRUE /\ draft' = record.fields
      /\ typed' = {} /\ late' = {} /\ swapped' = FALSE
      /\ UNCHANGED <<server, page, content, confirming, sent, blurred>>
  BY DEF Sound, StartEditing, Usable, Drawn
<1>2. draft' \in Text
  BY <1>1 DEF TypeOK, Shown
<1>3. TypeOK'
  BY <1>1, <1>2 DEF TypeOK
<1>4. FormOK'
  BY <1>1, <1>2 DEF FormOK
<1>5. SavingOK'
  BY <1>1 DEF Sound, SavingOK, Saving
<1> QED
  BY <1>1, <1>3, <1>4, <1>5, FormOnly DEF Sound

LEMMA TypeKeeps ==
  ASSUME Sound, NEW f \in Fields, NEW v \in Values, Type(f, v), acts' \in 0..MaxActs
  PROVE  Sound'
<1> USE DEF server, content
<1>1. /\ Sound /\ TypeOK /\ editing
      /\ draft' = [draft EXCEPT ![f] = v] /\ typed' = typed \cup {f}
      /\ late' = IF Busy("save") THEN late \cup {f} ELSE late
      /\ UNCHANGED <<server, page, content, editing, swapped, confirming, sent, blurred>>
  BY DEF Sound, Type
<1>2. draft \in Text
  BY <1>1 DEF Sound, FormOK
<1>3. draft' \in Text /\ \A g \in Fields \ {f} : draft'[g] = draft[g]
  BY <1>1, <1>2 DEF Text
<1>4. TypeOK'
  BY <1>1, <1>3 DEF TypeOK
<1>5. FormOK'
  BY <1>1, <1>3 DEF Sound, FormOK
<1>6. SavingOK'
  BY <1>1, <1>3 DEF Sound, SavingOK, Saving, Busy
<1> QED
  BY <1>1, <1>4, <1>5, <1>6, FormOnly DEF Sound

LEMMA CancelEditingKeeps ==
  ASSUME Sound, CancelEditing, acts' \in 0..MaxActs
  PROVE  Sound'
<1> USE DEF server, content
<1>1. /\ Sound /\ TypeOK /\ ~Busy("save") /\ editing' = FALSE
      /\ UNCHANGED <<server, page, content, draft, typed, late, swapped, confirming, sent, blurred>>
  BY DEF Sound, CancelEditing
<1>2. TypeOK' /\ FormOK'
  BY <1>1 DEF TypeOK, FormOK
<1>3. SavingOK'
  BY <1>1 DEF SavingOK, Saving, Busy
<1> QED
  BY <1>1, <1>2, <1>3, FormOnly DEF Sound

LEMMA ConfirmingKeeps ==
  ASSUME Sound, AskDelete \/ Cancel, acts' \in 0..MaxActs
  PROVE  Sound'
<1> USE DEF server, content, form
<1>1. /\ Sound /\ TypeOK /\ confirming' \in BOOLEAN
      /\ UNCHANGED <<server, page, content, form, sent, blurred>>
  BY DEF Sound, AskDelete, Cancel
<1>2. TypeOK' /\ FormOK'
  BY <1>1 DEF Sound, TypeOK, FormOK
<1>3. SavingOK'
  BY <1>1 DEF Sound, SavingOK, Saving
<1> QED
  BY <1>1, <1>2, <1>3, FormOnly DEF Sound

\* A request goes out from the page as drawn.
LEMMA SendView ==
  ASSUME Sound, Drawn, NEW b \in Buttons, NEW changed \in SUBSET Fields, NEW text \in Text \cup {None},
         Send(b, changed, text), UNCHANGED <<server, page, content>>
  PROVE  LoadsOK' /\ ViewOK'
<1> USE DEF server, content
<1>1. /\ ~Busy(b) /\ sent'[b].at = "sent" /\ sent'[b].id = page /\ sent'[b].ours
      /\ \A c \in Buttons \ {b} : sent'[c] = sent[c]
      /\ (~blurred' => ~blurred /\ Quiet)
  BY SendFacts DEF Sound
<1>2. LoadsOK'
  BY DEF Sound, LoadsOK
<1>3. ASSUME page # None, ~blurred' PROVE ViewOK'
  <2>1. ReadOK /\ ~loading /\ Quiet /\ ShowsServer
    BY <1>1, <1>3 DEF Sound, ViewOK, Drawn
  <2>2. ReadOK' /\ ShowsServer'
    BY <2>1 DEF ReadOK, ShowsServer, OnServer, Status, Ready, Flagged
  <2>3. \A c \in Buttons : Busy(c)' <=> c = b
    BY <1>1, <2>1 DEF Quiet, Busy
  <2>4. CarriesOK(b)'
    BY <1>1, <2>2 DEF CarriesOK
  <2> QED
    BY <2>1, <2>2, <2>3, <2>4 DEF ViewOK
<1> QED
  BY <1>2, <1>3 DEF ViewOK

LEMMA PressKeeps ==
  ASSUME Sound, Approve \/ Retry \/ Delete, acts' \in 0..MaxActs
  PROVE  Sound'
<1> USE DEF server, content, form
<1>1. PICK b \in Buttons \ {"save"} : Send(b, {}, None)
  BY DEF Approve, Retry, Delete, Buttons
<1>2. Drawn /\ confirming' \in BOOLEAN /\ UNCHANGED <<server, page, content, form>>
  BY DEF Approve, Retry, Delete, Usable, Sound, TypeOK
<1>3. /\ sent' \in [Buttons -> Request] /\ sent'["save"] = sent["save"]
      /\ blurred' \in BOOLEAN /\ (~blurred' => ~blurred)
  BY <1>1, SendFacts DEF Sound, Buttons
<1>4. TypeOK'
  BY <1>2, <1>3 DEF Sound, TypeOK, Request
<1>5. SentOK'
  BY <1>2, <1>3 DEF Sound, SentOK, Drawn
<1>6. FormOK'
  BY <1>2 DEF Sound, FormOK
<1>7. SavingOK'
  BY <1>2, <1>3 DEF Sound, SavingOK, Saving
<1> QED
  BY <1>1, <1>2, <1>4, <1>5, <1>6, <1>7, SendView DEF Sound

LEMMA SaveEditsKeeps ==
  ASSUME Sound, SaveEdits, acts' \in 0..MaxActs
  PROVE  Sound'
<1> USE DEF server, content
<1>1. /\ TypeOK /\ Drawn /\ editing /\ ~Busy("save") /\ "save" \in Buttons
      /\ UNCHANGED <<server, page, content, draft, typed, swapped, confirming>>
  BY DEF Sound, SaveEdits, Usable, Buttons
<1>2. CASE Changed = {}
  <2>1. editing' = FALSE /\ UNCHANGED <<sent, blurred, late>>
    BY <1>2 DEF SaveEdits
  <2>2. TypeOK' /\ FormOK'
    BY <1>1, <2>1 DEF TypeOK, FormOK
  <2>3. SavingOK'
    BY <1>1, <2>1 DEF SavingOK, Saving, Busy
  <2> QED
    BY <1>1, <2>1, <2>2, <2>3, FormOnly DEF Sound
<1>3. CASE Changed # {}
  <2>1. Send("save", Changed, draft) /\ late' = {} /\ UNCHANGED editing
    BY <1>3 DEF SaveEdits
  <2>2. draft \in Text /\ Changed \subseteq Fields
    BY <1>1 DEF Sound, FormOK, Changed
  <2>3. /\ sent' \in [Buttons -> Request]
        /\ sent'["save"].at = "sent" /\ sent'["save"].changed = Changed /\ sent'["save"].text = draft
        /\ blurred' \in BOOLEAN
    BY <1>1, <2>1, <2>2, SendFacts
  <2>4. TypeOK'
    BY <1>1, <2>1, <2>3 DEF TypeOK, Request
  <2>5. SentOK'
    BY <1>1, <2>2, <2>3 DEF SentOK, Drawn
  <2>6. FormOK'
    BY <1>1, <2>1 DEF Sound, FormOK
  <2>7. SavingOK'
    BY <1>1, <2>1, <2>3 DEF SavingOK, Saving, Changed
  <2> QED
    BY <1>1, <2>1, <2>2, <2>4, <2>5, <2>6, <2>7, SendView DEF Sound
<1> QED
  BY <1>2, <1>3

-----------------------------------------------------------------------------
(* The server acts.                                                        *)

\* A button on a page that knows everything is the only one in use, and the
\* page is not being loaded.
LEMMA OneAtATime ==
  ASSUME Sound, page # None, ~blurred, NEW b \in Buttons, Busy(b)
  PROVE  /\ page \in Records /\ CarriesOK(b) /\ ~loading /\ \A r \in Records : ~loads[r].on /\ loads[r] = NoLoad
         /\ \A c \in Buttons \ {b} : ~Busy(c)
<1>1. /\ ReadOK /\ page \in Records /\ CarriesOK(b)
      /\ loading => Quiet
      /\ \A c \in Buttons : Busy(c) /\ Busy(b) => b = c
  BY DEF Sound, ViewOK, TypeOK
<1>2. ~loading
  BY <1>1 DEF Quiet
<1> QED
  BY <1>1, <1>2 DEF ReadOK, Sound, LoadsOK

\* What the server does for the one button in use, and that button's answer.
LEMMA ServedView ==
  ASSUME Sound, NEW b \in Buttons, Busy(b), Busy(b)',
         \A c \in Buttons \ {b} : sent'[c] = sent[c],
         UNCHANGED <<page, content, blurred>>,
         page # None /\ ~blurred => CarriesOK(b)'
  PROVE  LoadsOK' /\ ViewOK'
<1> USE DEF content
<1>1. LoadsOK'
  BY DEF Sound, LoadsOK
<1>2. ASSUME page # None, ~blurred PROVE ViewOK'
  <2>1. /\ page \in Records /\ ~loading /\ \A r \in Records : ~loads[r].on /\ loads[r] = NoLoad
        /\ \A c \in Buttons \ {b} : ~Busy(c)
    BY <1>2, OneAtATime
  <2>2. ReadOK'
    <3>1. loading = loads[page].on
      BY <1>2 DEF Sound, ViewOK, ReadOK
    <3> QED
      BY <2>1, <3>1 DEF ReadOK, NoLoad
  <2>3. \A c \in Buttons : Busy(c)' <=> c = b
    BY <2>1 DEF Busy
  <2> QED
    BY <1>2, <2>1, <2>2, <2>3 DEF ViewOK, Quiet
<1> QED
  BY <1>1, <1>2 DEF ViewOK

\* A server action that answers another button than "save".
LEMMA ServedElse ==
  ASSUME Sound, NEW b \in Buttons \ {"save"}, NEW answer \in Shown \cup {None}, NEW status \in Badges \cup {None},
         sent[b].at = "sent", Answers(b, answer, status),
         UNCHANGED <<page, content, form, confirming, blurred>>,
         live' \subseteq Records, fields' \in [Records -> Text], approved' \in [Records -> BOOLEAN],
         job' \in [Records -> {"pending", "done"}],
         page # None /\ ~blurred /\ sent[b].id = page =>
            CASE b = "approve" -> answer = OnServer(page)'
              [] b = "retry" -> record = OnServer(page)' /\ status = Status(page)'
              [] b = "delete" -> TRUE,
         acts' \in 0..MaxActs
  PROVE  Sound'
<1> USE DEF content, form
<1>1. /\ Sound /\ TypeOK /\ "save" \in Buttons /\ sent' \in [Buttons -> Request]
      /\ sent'[b].at = "done" /\ sent'[b].id = sent[b].id /\ sent'[b].ours = sent[b].ours
      /\ sent'[b].record = answer /\ sent'[b].badge = status
      /\ \A c \in Buttons \ {b} : sent'[c] = sent[c]
  BY AnswersFacts DEF Sound, Buttons
<1>2. TypeOK'
  BY <1>1 DEF TypeOK, Request
<1>3. SentOK'
  BY <1>1 DEF Sound, SentOK, Busy
<1>4. FormOK'
  BY <1>1 DEF Sound, FormOK
<1>5. SavingOK'
  BY <1>1 DEF Sound, SavingOK, Saving
<1>6. ASSUME page # None, ~blurred PROVE CarriesOK(b)'
  <2>1. CarriesOK(b)
    BY <1>1, <1>6, OneAtATime DEF Busy
  <2> QED
    BY <1>1, <1>6, <2>1 DEF CarriesOK, Buttons
<1>7. LoadsOK' /\ ViewOK'
  BY <1>1, <1>6, ServedView DEF Busy
<1> QED
  BY <1>2, <1>3, <1>4, <1>5, <1>7 DEF Sound

LEMMA ServingFacts ==
  ASSUME Sound, NEW b \in Buttons, Serving(b)
  PROVE  /\ sent[b].at = "sent" /\ sent[b].id \in Records /\ sent[b].id \in live
         /\ b = "retry" => Ready(sent[b].id)
         /\ page # None /\ ~blurred => sent[b].id = page /\ ShowsServer
<1>1. sent[b].at = "sent" /\ sent[b].id \in live /\ (b = "retry" => Ready(sent[b].id))
  BY DEF Serving, Refused
<1>2. page # None /\ ~blurred => CarriesOK(b)
  BY <1>1, OneAtATime DEF Busy
<1> QED
  BY <1>1, <1>2 DEF CarriesOK, Sound, TypeOK

LEMMA ServeApproveKeeps ==
  ASSUME Sound, ServeApprove, acts' \in 0..MaxActs
  PROVE  Sound'
<1>1. "approve" \in Buttons \ {"save"} /\ Serving("approve")
  BY DEF Buttons, ServeApprove
<1>2. PICK r \in Records : r = sent["approve"].id /\ sent["approve"].at = "sent"
  BY <1>1, ServingFacts
<1> DEFINE answer == [OnServer(r) EXCEPT !.approved = TRUE]
<1>3. /\ approved' = [approved EXCEPT ![r] = TRUE] /\ Answers("approve", answer, None)
      /\ UNCHANGED <<live, fields, job, page, content, form, confirming, blurred>>
  BY <1>2 DEF ServeApprove
<1>4. live \subseteq Records /\ fields \in [Records -> Text] /\ approved' \in [Records -> BOOLEAN]
      /\ job \in [Records -> {"pending", "done"}]
  BY <1>3 DEF Sound, TypeOK
<1>5. answer \in Shown /\ answer = OnServer(r)'
  <2>1. OnServer(r) \in Shown /\ OnServer(r).id = r /\ OnServer(r).fields = fields[r]
    BY ServerType DEF Sound, OnServer
  <2>2. answer \in Shown /\ answer.id = r /\ answer.fields = fields[r] /\ answer.approved = TRUE
    BY <2>1 DEF Shown
  <2>3. OnServer(r)' = [id |-> r, fields |-> fields[r], approved |-> TRUE]
    BY <1>3 DEF OnServer, Sound, TypeOK
  <2> HIDE DEF answer
  <2> QED
    BY <2>2, <2>3 DEF Shown
<1>6. page # None /\ sent["approve"].id = page => answer = OnServer(page)'
  BY <1>2, <1>3, <1>5
<1> HIDE DEF answer
<1> QED
  BY <1>1, <1>2, <1>3, <1>4, <1>5, <1>6, ServedElse

LEMMA ServeRetryKeeps ==
  ASSUME Sound, ServeRetry, acts' \in 0..MaxActs
  PROVE  Sound'
<1>1. "retry" \in Buttons \ {"save"} /\ Serving("retry")
  BY DEF Buttons, ServeRetry
<1>2. PICK r \in Records :
        /\ r = sent["retry"].id /\ sent["retry"].at = "sent" /\ Ready(r)
        /\ page # None /\ ~blurred => r = page /\ ShowsServer
  BY <1>1, ServingFacts
<1>3. /\ job' = [job EXCEPT ![r] = "pending"] /\ Answers("retry", None, "pending")
      /\ UNCHANGED <<live, fields, approved, page, content, form, confirming, blurred>>
  BY <1>2 DEF ServeRetry
<1>4. live \subseteq Records /\ fields \in [Records -> Text] /\ approved \in [Records -> BOOLEAN]
      /\ job' \in [Records -> {"pending", "done"}] /\ job'[r] = "pending"
  BY <1>2, <1>3 DEF Sound, TypeOK
<1>5. Status(r)' = "pending" /\ OnServer(r)' = OnServer(r) /\ "pending" \in Badges
  BY <1>2, <1>3, <1>4 DEF Status, Ready, Flagged, OnServer, Badges
<1>6. page # None /\ ~blurred /\ sent["retry"].id = page => record = OnServer(page)' /\ "pending" = Status(page)'
  BY <1>2, <1>3, <1>5 DEF ShowsServer
<1> QED
  BY <1>1, <1>2, <1>3, <1>4, <1>5, <1>6, ServedElse

LEMMA ServeDeleteKeeps ==
  ASSUME Sound, ServeDelete, acts' \in 0..MaxActs
  PROVE  Sound'
<1>1. "delete" \in Buttons \ {"save"} /\ Serving("delete")
  BY DEF Buttons, ServeDelete
<1>2. sent["delete"].at = "sent"
  BY <1>1, ServingFacts
<1>3. /\ live' = live \ {sent["delete"].id} /\ Answers("delete", None, None)
      /\ UNCHANGED <<fields, approved, job, page, content, form, confirming, blurred>>
  BY DEF ServeDelete
<1>4. live' \subseteq Records /\ fields \in [Records -> Text] /\ approved \in [Records -> BOOLEAN]
      /\ job \in [Records -> {"pending", "done"}]
  BY <1>3 DEF Sound, TypeOK
<1> QED
  BY <1>1, <1>2, <1>3, <1>4, ServedElse

\* What a save stores, whatever it was sent as changed: the text in the form
\* when Save was pressed, as validation rewrites it.
LEMMA ServeSaveKeeps ==
  ASSUME Sound, ServeSave, acts' \in 0..MaxActs
  PROVE  Sound'
<1> USE DEF content, form
<1>1. Sound /\ TypeOK /\ "save" \in Buttons /\ Serving("save")
  BY DEF Sound, Buttons, ServeSave
<1>2. PICK r \in Records :
        /\ r = sent["save"].id /\ sent["save"].at = "sent" /\ Busy("save")
        /\ page # None /\ ~blurred => r = page /\ ShowsServer
  BY <1>1, ServingFacts DEF Busy
<1>3. PICK text \in Text : text = Merged(r, sent["save"].changed, sent["save"].text)
  BY <1>1, <1>2, MergedType DEF Sound, SentOK
<1> DEFINE answer == [id |-> r, fields |-> text, approved |-> FALSE]
<1>4. /\ fields' = [fields EXCEPT ![r] = text] /\ approved' = [approved EXCEPT ![r] = FALSE]
      /\ Answers("save", answer, None)
      /\ UNCHANGED <<live, job, page, content, form, confirming, blurred>>
  BY <1>2, <1>3 DEF ServeSave
<1>5. answer = OnServer(r)'
  BY <1>1, <1>2, <1>4 DEF OnServer, TypeOK
<1>6. answer \in Shown
  BY <1>2, <1>3 DEF Shown
<1>7. /\ sent' \in [Buttons -> Request]
      /\ sent'["save"].at = "done" /\ sent'["save"].id = r /\ sent'["save"].ours = sent["save"].ours
      /\ sent'["save"].record = answer
      /\ \A c \in Buttons \ {"save"} : sent'[c] = sent[c]
  BY <1>1, <1>2, <1>4, <1>6, AnswersFacts
<1>8. TypeOK'
  BY <1>1, <1>2, <1>3, <1>4, <1>7 DEF TypeOK, Request
<1>9. SentOK' /\ FormOK'
  BY <1>1, <1>2, <1>4, <1>7 DEF Sound, SentOK, FormOK, Busy
<1>10. SavingOK'
  <2>1. ASSUME Saving("done")', ~swapped, ~blurred, NEW f \in Fields \ late
        PROVE  answer.fields[f] = Coerced[draft[f]]
    <3>1. Saving("sent") /\ page # None
      BY <1>1, <1>2, <1>7, <2>1 DEF Saving, Sound, SentOK
    <3>2. record = OnServer(r) /\ sent["save"].text[f] = draft[f]
      BY <1>1, <1>2, <2>1, <3>1 DEF ShowsServer, Sound, SavingOK
    <3>3. f \notin sent["save"].changed => fields[r][f] = sent["save"].text[f]
      BY <1>1, <2>1, <3>1, <3>2 DEF Sound, SavingOK, OnServer
    <3>4. answer.fields[f] = Coerced[IF f \in sent["save"].changed THEN sent["save"].text[f] ELSE fields[r][f]]
      BY <1>3 DEF Merged
    <3> QED
      BY <3>2, <3>3, <3>4
  <2>2. Saving("done")' => editing
    BY <1>1, <1>2, <1>7 DEF Sound, SavingOK, Saving
  <2> HIDE DEF answer
  <2> QED
    BY <1>4, <1>7, <2>1, <2>2 DEF SavingOK, Saving
<1>11. ASSUME page # None, ~blurred PROVE CarriesOK("save")'
  <2>1. CarriesOK("save")
    BY <1>1, <1>2, <1>11, OneAtATime
  <2> HIDE DEF answer
  <2> QED
    BY <1>2, <1>4, <1>5, <1>7, <1>11, <2>1 DEF CarriesOK
<1>12. LoadsOK' /\ ViewOK'
  BY <1>1, <1>2, <1>4, <1>7, <1>11, ServedView DEF Busy
<1> QED
  BY <1>8, <1>9, <1>10, <1>12 DEF Sound

LEMMA ReadBadgesKeeps ==
  ASSUME Sound, NEW b \in Buttons, ReadBadges(b), acts' \in 0..MaxActs
  PROVE  Sound'
<1> USE DEF server, content, form
<1>1. PICK r \in Records :
        /\ Sound /\ TypeOK /\ "save" \in Buttons /\ sent[b].at = "refreshing" /\ r = sent[b].id
        /\ sent' = [sent EXCEPT ![b].at = "refreshed", ![b].badge = Status(r)]
        /\ UNCHANGED <<server, page, content, form, confirming, blurred>>
  BY DEF Sound, ReadBadges, Refused, TypeOK, Buttons
<1>2. Status(r) \in Badges /\ Status(r)' = Status(r) /\ OnServer(r)' = OnServer(r)
  BY <1>1, ServerType DEF Status, Ready, Flagged, OnServer
<1> DEFINE status == Status(r)
<1> HIDE DEF status
<1>3. /\ sent' \in [Buttons -> Request]
      /\ sent'[b].at = "refreshed" /\ sent'[b].id = r /\ sent'[b].ours = sent[b].ours
      /\ sent'[b].badge = Status(r)
      /\ \A c \in Buttons \ {b} : sent'[c] = sent[c]
  <2>1. sent' = [sent EXCEPT ![b].at = "refreshed", ![b].badge = status] /\ status \in Badges
    BY <1>1, <1>2 DEF status
  <2> QED
    BY <1>1, <2>1, RefreshedFacts DEF status
<1>4. TypeOK'
  BY <1>1, <1>3 DEF TypeOK, Request
<1>5. SentOK' /\ FormOK'
  BY <1>1, <1>3 DEF Sound, SentOK, FormOK, Busy
<1>6. SavingOK'
  BY <1>1, <1>3 DEF Sound, SavingOK, Saving
<1>7. ASSUME page # None, ~blurred PROVE CarriesOK(b)'
  <2>1. CarriesOK(b)
    BY <1>1, <1>7, OneAtATime DEF Busy
  <2> QED
    BY <1>1, <1>2, <1>3, <1>7, <2>1 DEF CarriesOK
<1>8. LoadsOK' /\ ViewOK'
  BY <1>1, <1>3, <1>7, ServedView DEF Busy
<1> QED
  BY <1>4, <1>5, <1>6, <1>8 DEF Sound

-----------------------------------------------------------------------------
(* The page hears, or no longer does.                                      *)

LEMMA HeardView ==
  ASSUME Sound, NEW b \in Buttons, Busy(b), \A c \in Buttons \ {b} : sent'[c] = sent[c],
         UNCHANGED <<server, page, loading, failed, loads, blurred>>,
         page # None /\ ~blurred => IF Busy(b)' THEN CarriesOK(b)' ELSE ShowsServer'
  PROVE  LoadsOK' /\ ViewOK'
<1> USE DEF server
<1>1. LoadsOK'
  BY DEF Sound, LoadsOK
<1>2. ASSUME page # None, ~blurred PROVE ViewOK'
  <2>1. ~loading /\ ReadOK /\ \A c \in Buttons \ {b} : ~Busy(c)
    BY <1>2, OneAtATime DEF Sound, ViewOK
  <2>2. ReadOK'
    BY <2>1 DEF ReadOK, OnServer, Status, Ready, Flagged
  <2>3. \A c \in Buttons \ {b} : ~Busy(c)'
    BY <2>1 DEF Busy
  <2>4. CASE Busy(b)'
    BY <1>2, <2>1, <2>2, <2>3, <2>4 DEF ViewOK, Quiet
  <2>5. CASE ~Busy(b)'
    BY <1>2, <2>1, <2>2, <2>3, <2>5 DEF ViewOK, Quiet
  <2> QED
    BY <2>4, <2>5
<1> QED
  BY <1>1, <1>2 DEF ViewOK

LEMMA HearSavedKeeps ==
  ASSUME Sound, HearSaved, acts' \in 0..MaxActs
  PROVE  Sound'
<1> USE DEF server
<1>1. /\ Sound /\ TypeOK /\ "save" \in Buttons /\ sent["save"].at = "done" /\ sent["save"].ours
      /\ record' = sent["save"].record /\ editing' = FALSE /\ Refreshing("save")
      /\ UNCHANGED <<server, page, badge, loading, failed, loads, draft, typed, late, swapped, confirming, blurred>>
  BY DEF Sound, HearSaved, Heard, Buttons
<1>2. /\ sent' \in [Buttons -> Request]
      /\ sent'["save"].at = "refreshing" /\ sent'["save"].id = sent["save"].id /\ sent'["save"].ours
      /\ \A c \in Buttons \ {"save"} : sent'[c] = sent[c]
  BY <1>1, RefreshingFacts
<1>3. page # None
  BY <1>1 DEF Sound, SentOK, Busy
<1>4. TypeOK'
  BY <1>1, <1>2 DEF TypeOK, Request
<1>5. SentOK' /\ FormOK' /\ SavingOK'
  BY <1>1, <1>2, <1>3 DEF SentOK, FormOK, SavingOK, Saving
<1>6. ASSUME ~blurred PROVE CarriesOK("save")'
  <2>1. CarriesOK("save")
    BY <1>1, <1>3, <1>6, OneAtATime DEF Busy
  <2> QED
    BY <1>1, <1>2, <2>1 DEF CarriesOK, OnServer
<1>7. LoadsOK' /\ ViewOK'
  BY <1>1, <1>2, <1>6, HeardView DEF Busy
<1> QED
  BY <1>4, <1>5, <1>7 DEF Sound

LEMMA HearApprovedKeeps ==
  ASSUME Sound, HearApproved, acts' \in 0..MaxActs
  PROVE  Sound'
<1> USE DEF server
<1>1. /\ Sound /\ TypeOK /\ "approve" \in Buttons /\ "save" \in Buttons
      /\ sent["approve"].at = "done" /\ sent["approve"].ours
      /\ record' = sent["approve"].record /\ swapped' = (swapped \/ editing) /\ Refreshing("approve")
      /\ UNCHANGED <<server, page, badge, loading, failed, loads, editing, draft, typed, late, confirming, blurred>>
  BY DEF Sound, HearApproved, Heard, Buttons
<1>2. /\ sent' \in [Buttons -> Request]
      /\ sent'["approve"].at = "refreshing" /\ sent'["approve"].id = sent["approve"].id /\ sent'["approve"].ours
      /\ \A c \in Buttons \ {"approve"} : sent'[c] = sent[c]
  BY <1>1, RefreshingFacts
<1>3. page # None
  BY <1>1 DEF Sound, SentOK, Busy
<1>4. TypeOK'
  BY <1>1, <1>2 DEF TypeOK, Request
<1>5. SentOK' /\ FormOK' /\ SavingOK'
  BY <1>1, <1>2, <1>3 DEF Sound, SentOK, FormOK, SavingOK, Saving
<1>6. ASSUME ~blurred PROVE CarriesOK("approve")'
  <2>1. CarriesOK("approve")
    BY <1>1, <1>3, <1>6, OneAtATime DEF Busy
  <2> QED
    BY <1>1, <1>2, <2>1 DEF CarriesOK, OnServer
<1>7. LoadsOK' /\ ViewOK'
  BY <1>1, <1>2, <1>6, HeardView DEF Busy
<1> QED
  BY <1>4, <1>5, <1>7 DEF Sound

\* The badge arrives: the button's, or both after a save or an approval.
LEMMA HearBadgeKeeps ==
  ASSUME Sound, NEW b \in Buttons, HearBadges(b) \/ (b = "retry" /\ HearRetried), acts' \in 0..MaxActs
  PROVE  Sound'
<1> USE DEF server, form
<1>1. /\ Sound /\ TypeOK /\ "save" \in Buttons
      /\ sent[b].at = "refreshed" \/ (b = "retry" /\ sent[b].at = "done")
      /\ badge' = sent[b].badge /\ sent' = [sent EXCEPT ![b] = Idle]
      /\ UNCHANGED <<server, page, record, loading, failed, loads, form, confirming, blurred>>
  BY DEF Sound, HearBadges, HearRetried, Heard, Buttons
<1>2. sent' \in [Buttons -> Request] /\ sent'[b] = Idle /\ \A c \in Buttons \ {b} : sent'[c] = sent[c]
  BY <1>1, IdleType, RequestFacts
<1>3. TypeOK'
  BY <1>1, <1>2 DEF TypeOK, Request
<1>4. SentOK' /\ FormOK'
  BY <1>1, <1>2, IdleType DEF Sound, SentOK, FormOK, Busy
<1>5. SavingOK'
  BY <1>1, <1>2, IdleType DEF Sound, SavingOK, Saving
<1>6. ASSUME page # None, ~blurred PROVE ShowsServer'
  <2>1. CarriesOK(b)
    BY <1>1, <1>6, OneAtATime DEF Busy
  <2> QED
    BY <1>1, <2>1 DEF CarriesOK, ShowsServer, OnServer, Status, Ready, Flagged
<1>7. LoadsOK' /\ ViewOK'
  BY <1>1, <1>2, <1>6, IdleType, HeardView DEF Busy
<1> QED
  BY <1>3, <1>4, <1>5, <1>7 DEF Sound

LEMMA UnheardKeeps ==
  ASSUME Sound, NEW b \in Buttons, Unheard(b), acts' \in 0..MaxActs
  PROVE  Sound'
<1> USE DEF server, content, form
<1>1. /\ Sound /\ TypeOK /\ "save" \in Buttons /\ Busy(b) /\ ~sent[b].ours
      /\ sent' = [sent EXCEPT ![b] = Idle]
      /\ UNCHANGED <<server, page, content, form, confirming, blurred>>
  BY DEF Sound, Unheard, Busy, Buttons
<1>2. sent' \in [Buttons -> Request] /\ sent'[b] = Idle /\ \A c \in Buttons \ {b} : sent'[c] = sent[c]
  BY <1>1, IdleType, RequestFacts
<1>3. TypeOK'
  BY <1>1, <1>2 DEF TypeOK, Request
<1>4. SentOK' /\ FormOK'
  BY <1>1, <1>2, IdleType DEF Sound, SentOK, FormOK, Busy
<1>5. SavingOK'
  BY <1>1, <1>2, IdleType DEF Sound, SavingOK, Saving
<1>6. page # None /\ ~blurred => FALSE
  BY <1>1, OneAtATime DEF CarriesOK
<1>7. LoadsOK' /\ ViewOK'
  BY <1>1, <1>2, <1>6, HeardView
<1> QED
  BY <1>3, <1>4, <1>5, <1>7 DEF Sound

LEMMA FailsKeeps ==
  ASSUME Sound, NEW b \in Buttons, Fails(b), acts' \in 0..MaxActs
  PROVE  Sound'
<1> USE DEF server, content, form
<1>1. /\ Sound /\ TypeOK /\ "save" \in Buttons /\ sent' = [sent EXCEPT ![b] = Idle] /\ blurred' = TRUE
      /\ UNCHANGED <<server, page, content, form, confirming>>
  BY DEF Sound, Fails, Buttons
<1>2. sent' \in [Buttons -> Request] /\ sent'[b] = Idle /\ \A c \in Buttons \ {b} : sent'[c] = sent[c]
  BY <1>1, IdleType, RequestFacts
<1>3. TypeOK'
  BY <1>1, <1>2 DEF TypeOK, Request
<1>4. LoadsOK' /\ SentOK' /\ FormOK' /\ ViewOK'
  BY <1>1, <1>2, IdleType DEF Sound, LoadsOK, SentOK, FormOK, ViewOK, Busy
<1>5. SavingOK'
  BY <1>1, <1>2, IdleType DEF Sound, SavingOK, Saving
<1> QED
  BY <1>3, <1>4, <1>5 DEF Sound

LEMMA ElsewhereKeeps ==
  ASSUME Sound, Elsewhere, acts' \in 0..MaxActs
  PROVE  Sound'
<1> USE DEF content, form
<1>1. Sound /\ TypeOK /\ blurred' = TRUE /\ UNCHANGED <<page, content, form, confirming, sent>>
  BY DEF Sound, Elsewhere, EditElsewhere, ApproveElsewhere, DeleteElsewhere, Deliver
<1>2. live' \subseteq Records
  BY <1>1 DEF TypeOK, Elsewhere, EditElsewhere, ApproveElsewhere, DeleteElsewhere, Deliver
<1>3. /\ approved' \in [Records -> BOOLEAN] /\ job' \in [Records -> {"pending", "done"}]
  BY <1>1 DEF TypeOK, Elsewhere, EditElsewhere, ApproveElsewhere, DeleteElsewhere, Deliver
<1>4. fields' \in [Records -> Text]
  <2>1. ASSUME NEW r \in Records, NEW f \in Fields, NEW v \in Values, EditElsewhere(r, f, v)
        PROVE  fields' \in [Records -> Text]
    <3>1. [g \in Fields |-> v] \in Text
      BY DEF Text
    <3>2. Merged(r, {f}, [g \in Fields |-> v]) \in Text
      BY <1>1, <3>1, MergedType
    <3>3. fields' = [fields EXCEPT ![r] = Merged(r, {f}, [g \in Fields |-> v])]
      BY <2>1 DEF EditElsewhere
    <3> QED
      BY <1>1, <3>2, <3>3 DEF TypeOK
  <2> QED
    BY <1>1, <2>1 DEF TypeOK, Elsewhere, ApproveElsewhere, DeleteElsewhere, Deliver
<1>5. TypeOK'
  BY <1>1, <1>2, <1>3, <1>4 DEF TypeOK
<1>6. LoadsOK' /\ SentOK' /\ FormOK' /\ ViewOK'
  BY <1>1 DEF Sound, LoadsOK, SentOK, FormOK, ViewOK, Busy
<1>7. SavingOK'
  BY <1>1 DEF Sound, SavingOK, Saving
<1> QED
  BY <1>5, <1>6, <1>7 DEF Sound

-----------------------------------------------------------------------------
(* Every step.                                                             *)

LEMMA InitSound == Init => Sound
<1> SUFFICES ASSUME Init PROVE Sound
  OBVIOUS
<1> USE DEF Init
<1>1. "save" \in Buttons /\ \A b \in Buttons : sent[b] = Idle
  BY DEF Buttons
<1>2. sent \in [Buttons -> Request] /\ loads \in [Records -> Reading]
  BY IdleType
<1>3. fields \in [Records -> Text]
  BY RecordPageAssumption DEF Text
<1>4. acts \in 0..MaxActs
  BY RecordPageAssumption
<1>5. TypeOK
  BY <1>2, <1>3, <1>4 DEF TypeOK, Request, Reading
<1>6. LoadsOK
  BY IdleType DEF LoadsOK
<1>7. SentOK /\ FormOK /\ SavingOK /\ ViewOK
  BY <1>1, IdleType DEF SentOK, FormOK, SavingOK, Saving, ViewOK, Busy
<1> QED
  BY <1>5, <1>6, <1>7 DEF Sound

LEMMA NextKeeps == Sound /\ [Next]_vars => Sound'
<1> SUFFICES ASSUME Sound, [Next]_vars PROVE Sound'
  OBVIOUS
<1>1. CASE UNCHANGED vars
  <2>1. LoadsOK' /\ SentOK' /\ ViewOK'
    BY <1>1, FormOnly DEF vars
  <2>2. TypeOK' /\ FormOK' /\ SavingOK'
    BY <1>1 DEF vars, server, content, form, Sound, TypeOK, FormOK, SavingOK, Saving
  <2> QED
    BY <2>1, <2>2 DEF Sound
<1>2. Next => acts' \in 0..MaxActs
  BY RecordPageAssumption DEF Next, Sound, TypeOK
<1>3. ASSUME Next, Answering PROVE Sound'
  <2>1. CASE \E r \in Records : ReadRecord(r) \/ ReadBadge(r) \/ LoadEnds(r)
    BY <1>2, <1>3, <2>1, ReadKeeps, LoadEndsKeeps
  <2>2. CASE ServeSave \/ ServeApprove \/ ServeRetry \/ ServeDelete
    BY <1>2, <1>3, <2>2, ServeSaveKeeps, ServeApproveKeeps, ServeRetryKeeps, ServeDeleteKeeps
  <2>3. CASE HearSaved \/ HearApproved \/ HearDeleted
    BY <1>2, <1>3, <2>3, HearSavedKeeps, HearApprovedKeeps, LeaveKeeps
  <2>4. CASE HearRetried
    BY <1>2, <1>3, <2>4, HearBadgeKeeps DEF Buttons
  <2>5. CASE \E b \in Buttons : ReadBadges(b) \/ HearBadges(b) \/ Unheard(b)
    BY <1>2, <1>3, <2>5, ReadBadgesKeeps, HearBadgeKeeps, UnheardKeeps
  <2> QED
    BY <1>3, <2>1, <2>2, <2>3, <2>4, <2>5 DEF Answering
<1>4. ASSUME Next, Failing PROVE Sound'
  BY <1>2, <1>4, LoadFailsKeeps, FailsKeeps DEF Failing
<1>5. ASSUME Next, Using PROVE Sound'
  BY <1>2, <1>5, ShowKeeps, JumpKeeps, StartEditingKeeps, TypeKeeps, CancelEditingKeeps, SaveEditsKeeps,
     PressKeeps, ConfirmingKeeps, LeaveKeeps DEF Using
<1>6. ASSUME Next, Elsewhere PROVE Sound'
  BY <1>2, <1>6, ElsewhereKeeps
<1> QED
  BY <1>1, <1>3, <1>4, <1>5, <1>6 DEF Next

LEMMA Invariance == Spec => []Sound
<1> QED
  BY InitSound, NextKeeps, PTL DEF Spec

-----------------------------------------------------------------------------
(* The theorems.                                                           *)

\* The page, its form and its requests keep their types: what is typed is
\* typed into a form that is open.
THEOREM RecordPageTypes == Spec => []TypeOK
<1>1. Sound => TypeOK
  BY DEF Sound
<1> QED
  BY <1>1, Invariance, PTL

\* At rest, with nothing the page cannot know of, it shows the record and
\* the badge the server would give, whatever was saved, approved, retried,
\* left or reloaded before.
THEOREM AtRestShowsServerAlways == Spec => []AtRestShowsServer
<1>1. Sound => AtRestShowsServer
  BY DEF Sound, ViewOK, ShowsServer, AtRestShowsServer, Drawn
<1> QED
  BY <1>1, Invariance, PTL

\* How the save button's request moves on.
SaveMoves ==
    \/ SaveEdits \/ HearSaved
    \/ sent'["save"].at \in {"idle", sent["save"].at}
    \/ sent["save"].at = "sent" /\ sent'["save"].at = "done"
    \/ sent["save"].at = "refreshing" /\ sent'["save"].at = "refreshed"

LEMMA SaveSteps ==
  ASSUME Sound, [Next]_vars
  PROVE  SaveMoves
<1>1. TypeOK /\ "save" \in Buttons /\ sent \in [Buttons -> Request]
  BY SentType DEF Sound, Buttons
<1>2. ASSUME UNCHANGED sent PROVE SaveMoves
  BY <1>2 DEF SaveMoves
<1>3. ASSUME NEW b \in Buttons, \A c \in Buttons \ {b} : sent'[c] = sent[c], b # "save" PROVE SaveMoves
  BY <1>1, <1>3 DEF SaveMoves
<1>4. ASSUME NEW b \in Buttons, NEW new \in Request, sent' = [sent EXCEPT ![b] = new],
             b = "save" => new.at = "idle"
      PROVE  SaveMoves
  BY <1>1, <1>4, RequestFacts DEF SaveMoves
<1>5. CASE \E r \in Records : ReadRecord(r) \/ ReadBadge(r) \/ LoadEnds(r) \/ LoadFails(r) \/ Show(r) \/ Jump(r)
  BY <1>2, <1>5 DEF ReadRecord, ReadBadge, LoadEnds, LoadFails, Show, Jump
<1>6. CASE StartEditing \/ (\E f \in Fields, v \in Values : Type(f, v)) \/ CancelEditing \/ AskDelete \/ Cancel
  BY <1>2, <1>6 DEF StartEditing, Type, CancelEditing, AskDelete, Cancel
<1>7. CASE Elsewhere
  BY <1>2, <1>7 DEF Elsewhere, EditElsewhere, ApproveElsewhere, DeleteElsewhere, Deliver
<1>8. CASE Approve \/ Retry \/ Delete
  <2>1. PICK b \in Buttons \ {"save"} : Send(b, {}, None)
    BY <1>8 DEF Approve, Retry, Delete, Buttons
  <2> QED
    BY <1>1, <1>3, <2>1, SendFacts
<1>9. CASE ServeApprove \/ ServeRetry \/ ServeDelete
  <2>1. PICK b \in Buttons \ {"save"} : \E answer, status : Answers(b, answer, status)
    BY <1>9 DEF ServeApprove, ServeRetry, ServeDelete, Buttons
  <2>2. sent'["save"] = sent["save"]
    BY <1>1, <2>1 DEF Answers
  <2> QED
    BY <2>2 DEF SaveMoves
<1>10. CASE ServeSave
  <2>1. PICK answer, status : Answers("save", answer, status)
    BY <1>10 DEF ServeSave
  <2>2. sent["save"].at = "sent"
    BY <1>10 DEF ServeSave, Serving
  <2>3. sent'["save"].at = "done"
    BY <1>1, <2>1 DEF Answers, Request
  <2> QED
    BY <2>2, <2>3 DEF SaveMoves
<1>11. CASE SaveEdits \/ HearSaved
  BY <1>11 DEF SaveMoves
<1>12. CASE HearApproved
  BY <1>1, <1>3, <1>12, RefreshingFacts DEF HearApproved, Buttons
<1>13. CASE HearRetried
  BY <1>4, <1>13, IdleType DEF HearRetried, Buttons
<1>14. CASE Leave \/ HearDeleted
  <2>1. sent'["save"] = [sent["save"] EXCEPT !.ours = FALSE]
    BY <1>1, <1>14 DEF Leave, HearDeleted
  <2>2. sent'["save"].at = sent["save"].at
    BY <1>1, <2>1 DEF Request
  <2> QED
    BY <2>2 DEF SaveMoves
<1>15. ASSUME NEW b \in Buttons, HearBadges(b) \/ Unheard(b) \/ Fails(b) PROVE SaveMoves
  BY <1>4, <1>15, IdleType DEF HearBadges, Unheard, Fails
<1>16. ASSUME NEW b \in Buttons, ReadBadges(b) PROVE SaveMoves
  <2>1. PICK status : sent' = [sent EXCEPT ![b].at = "refreshed", ![b].badge = status]
    BY <1>16 DEF ReadBadges
  <2>2. CASE b = "save"
    <3>1. sent["save"].at = "refreshing" /\ sent'["save"].at = "refreshed"
      BY <1>1, <1>16, <2>1, <2>2 DEF ReadBadges, Request
    <3> QED
      BY <3>1 DEF SaveMoves
  <2>3. CASE b # "save"
    BY <1>1, <2>1, <2>3 DEF SaveMoves
  <2> QED
    BY <2>2, <2>3
<1>17. CASE UNCHANGED vars
  BY <1>2, <1>17 DEF vars
<1>18. Next => Answering \/ Failing \/ Using \/ Elsewhere
  BY DEF Next
<1>19. Answering => SaveMoves
  BY <1>5, <1>9, <1>10, <1>11, <1>12, <1>13, <1>14, <1>15, <1>16 DEF Answering
<1>20. Failing => SaveMoves
  BY <1>5, <1>15 DEF Failing
<1>21. Using => SaveMoves
  BY <1>5, <1>6, <1>8, <1>11, <1>14 DEF Using
<1> QED
  BY <1>7, <1>17, <1>18, <1>19, <1>20, <1>21

\* A save sends what was typed and nothing else, unless the record under the
\* form was replaced.
THEOREM UntouchedIsNotSentEver == Spec => UntouchedIsNotSent
<1>1. ASSUME Sound, [Next]_vars, Busy("save")', ~Busy("save"), ~swapped
      PROVE  sent'["save"].changed \subseteq typed
  <2>1. SaveEdits
    <3>1. SaveMoves
      BY <1>1, SaveSteps
    <3> QED
      BY <1>1, <3>1 DEF SaveMoves, Busy, HearSaved, Heard
  <2>2. editing /\ Send("save", Changed, draft)
    BY <1>1, <2>1 DEF SaveEdits, Busy
  <2>3. sent'["save"].changed = Changed
    <3>1. draft \in Text /\ Changed \subseteq Fields /\ "save" \in Buttons /\ TypeOK
      BY <1>1, <2>2 DEF Sound, FormOK, Changed, Buttons
    <3> QED
      BY <2>2, <3>1, SendFacts
  <2>4. Changed \subseteq typed
    BY <1>1, <2>2 DEF Sound, FormOK, Changed
  <2> QED
    BY <2>3, <2>4
<1>2. Sound /\ [Next]_vars =>
        [Busy("save")' /\ ~Busy("save") => swapped \/ sent'["save"].changed \subseteq typed]_vars
  BY <1>1
<1> QED
  BY <1>2, Invariance, PTL DEF Spec, UntouchedIsNotSent

\* What was typed before Save is in the record when the save closes the form,
\* whichever answers of the page's reads and buttons arrived in between.
THEOREM TypedIsSavedAlways == Spec => TypedIsSaved
<1>1. ASSUME Sound, [Next]_vars, Heard("save"), sent'["save"].at = "refreshing", ~swapped, ~blurred,
             NEW f \in typed \ late
      PROVE  record'.fields[f] = Coerced[draft[f]]
  <2>1. SaveMoves
    BY <1>1, SaveSteps
  <2>2. HearSaved
    BY <1>1, <2>1 DEF SaveMoves, Heard, SaveEdits, Busy
  <2>3. record' = sent["save"].record /\ Saving("done") /\ f \in Fields \ late
    BY <1>1, <2>2 DEF HearSaved, Heard, Saving, Sound, TypeOK
  <2> QED
    BY <1>1, <2>3 DEF Sound, SavingOK
<1>2. Sound /\ [Next]_vars =>
        [Heard("save") /\ sent'["save"].at = "refreshing" /\ ~swapped /\ ~blurred =>
            \A f \in typed \ late : record'.fields[f] = Coerced[draft[f]]]_vars
  BY <1>1
<1> QED
  BY <1>2, Invariance, PTL DEF Spec, TypedIsSaved
==============================================================================

---------------------------- MODULE SessionProofs -----------------------------
(***************************************************************************)
(* Proofs about Session for any tabs, accounts and bounds.  Sound adds to  *)
(* the types who the tokens in use were issued to (TokensOK) and, for a    *)
(* tab under which the token has not changed, that its requests carry the  *)
(* stored token and its user owns it (TabOK).                              *)
(***************************************************************************)
EXTENDS Session, TLAPS

Request == [at : {"idle", "sent", "done", "refused"},
            token : Tokens \cup {None}, user : CurrentUser \cup {None},
            page : Pages \cup {None}]

Requests == [Kinds -> Request]

\* A token in use has been issued, and one the server takes is somebody's.
Issued(t) == t = None \/ owner[t] # None

TokensOK ==
    /\ \A t \in live : owner[t] \in known
    /\ Issued(stored)
    /\ \A w \in Tabs, k \in Kinds : Issued(sent[w][k].token)

\* Request k of tab w is what the token, and the answer, say it is.
RequestOK(w, k) ==
    /\ k = "login" => sent[w][k].at # "refused"
    /\ sent[w][k].at = "done" => sent[w][k].token # None
    /\ k # "login" /\ sent[w][k].at = "done" => sent[w][k].user.account = owner[sent[w][k].token]
    /\ k # "login" /\ Busy(w, k) /\ ~crossed[w] => stored # None /\ sent[w][k].token = stored

TabOK(w) ==
    /\ \A k \in Kinds : RequestOK(w, k)
    /\ user[w] # None /\ ~crossed[w] /\ ~Busy(w, "me") => stored # None /\ owner[stored] = user[w].account
    /\ stuck[w] \subseteq {"export"} \/ crossed[w]

Sound == TypeOK /\ TokensOK /\ \A w \in Tabs : TabOK(w)

\* What every step keeps: a token stays whose it was.
OwnerStays == \A t \in Tokens : owner[t] # None => owner'[t] = owner[t]

-----------------------------------------------------------------------------
(* The pieces of the actions.                                              *)

LEMMA IdleType == Idle \in Request
BY DEF Idle, Request

LEMMA RouteType ==
  ASSUME NEW p \in Pages, NEW u \in CurrentUser \cup {None}
  PROVE  Route(p, u) \in Pages
BY DEF Route, Pages

LEMMA SentType == TypeOK => sent \in [Tabs -> Requests]
BY DEF TypeOK, Requests, Request

LEMMA ShowFacts ==
  ASSUME TypeOK, NEW w \in Tabs, NEW p \in Pages, NEW u \in CurrentUser \cup {None}, Show(w, p, u)
  PROVE  /\ user' \in [Tabs -> CurrentUser \cup {None}] /\ at' \in [Tabs -> Pages]
         /\ user'[w] = u /\ \A v \in Tabs \ {w} : user'[v] = user[v]
BY RouteType DEF TypeOK, Show

LEMMA SetTokenFacts ==
  ASSUME TypeOK, NEW w \in Tabs, NEW k \in Kinds, NEW t \in Tokens \cup {None}, SetToken(w, k, t)
  PROVE  /\ stored' = t /\ crossed' \in [Tabs -> BOOLEAN]
         /\ \A v \in Tabs : crossed[v] => crossed'[v]
         /\ \A v \in Tabs \ {w} : ~crossed'[v] => ~crossed[v] /\ t = stored
         /\ ~crossed'[w] => ~crossed[w] /\ (t = stored \/ \A j \in Kinds \ {k} : ~Busy(w, j))
<1>1. \A v \in Tabs : (t # stored /\ (v # w \/ BusyBut(w, k))) \in BOOLEAN
  BY DEF BusyBut
<1>2. \A v \in Tabs : crossed'[v] = (crossed[v] \/ (t # stored /\ (v # w \/ BusyBut(w, k))))
  BY DEF SetToken
<1>3. crossed' \in [Tabs -> BOOLEAN]
  BY <1>1 DEF SetToken, TypeOK
<1> QED
  BY <1>2, <1>3, Zenon DEF SetToken, BusyBut, TypeOK

LEMMA OverFacts ==
  ASSUME TypeOK, NEW w \in Tabs, NEW k \in Kinds, Over(w, k)
  PROVE  /\ sent' \in [Tabs -> Requests]
         /\ sent'[w][k] = Idle
         /\ \A v \in Tabs, j \in Kinds : v # w \/ j # k => sent'[v][j] = sent[v][j]
BY SentType, IdleType DEF Over, Requests

LEMMA SendFacts ==
  ASSUME TypeOK, NEW w \in Tabs, NEW k \in Kinds, NEW u \in CurrentUser \cup {None}, Send(w, k, u)
  PROVE  /\ sent' \in [Tabs -> Requests]
         /\ sent'[w][k].at = "sent"
         /\ sent'[w][k].token = IF k = "login" THEN None ELSE stored
         /\ \A v \in Tabs, j \in Kinds : v # w \/ j # k => sent'[v][j] = sent[v][j]
<1> DEFINE new == [at |-> "sent", token |-> IF k \in Anonymous THEN None ELSE stored,
                   user |-> u, page |-> at[w]]
<1>1. new \in Request
  BY DEF Request, TypeOK
<1>2. sent' = [sent EXCEPT ![w][k] = new]
  BY DEF Send
<1> HIDE DEF new
<1>3. sent' \in [Tabs -> Requests] /\ sent'[w][k] = new
      /\ \A v \in Tabs, j \in Kinds : v # w \/ j # k => sent'[v][j] = sent[v][j]
  BY <1>1, <1>2, SentType DEF Requests
<1> QED
  BY <1>3 DEF new, Anonymous

LEMMA AnswerFacts ==
  ASSUME TypeOK, NEW w \in Tabs, NEW k \in Kinds, NEW u \in CurrentUser \cup {None}, Answer(w, k, u)
  PROVE  /\ sent' \in [Tabs -> Requests]
         /\ sent'[w][k].at = "done" /\ sent'[w][k].token = sent[w][k].token /\ sent'[w][k].user = u
         /\ \A v \in Tabs, j \in Kinds : v # w \/ j # k => sent'[v][j] = sent[v][j]
<1> DEFINE new == [sent[w][k] EXCEPT !.at = "done", !.user = u]
<1>0. sent[w][k] \in Request
  BY SentType DEF Requests
<1>1. new \in Request /\ new.at = "done" /\ new.token = sent[w][k].token /\ new.user = u
  BY <1>0 DEF Request
<1>2. sent' = [sent EXCEPT ![w] = [@ EXCEPT ![k] = new]]
  BY <1>0, SentType DEF Answer, Requests, Request
<1> HIDE DEF new
<1> QED
  BY <1>1, <1>2, SentType DEF Requests

LEMMA LoadFacts ==
  ASSUME TypeOK, NEW w \in Tabs, NEW p \in Pages, NEW t \in Tokens \cup {None},
         NEW asked \in SUBSET {"start", "me"}, Load(w, p, t, asked)
  PROVE  /\ stored' = t
         /\ crossed' \in [Tabs -> BOOLEAN] /\ stuck' \in [Tabs -> SUBSET Kinds]
         /\ user' \in [Tabs -> CurrentUser \cup {None}] /\ loading' \in [Tabs -> BOOLEAN]
         /\ at' \in [Tabs -> Pages] /\ sent' \in [Tabs -> Requests]
         /\ user'[w] = None /\ stuck'[w] = {}
         /\ \A k \in Kinds : sent'[w][k] = Idle \/ (t # None /\ k # "login" /\ sent'[w][k].at = "sent" /\ sent'[w][k].token = t)
         /\ \A v \in Tabs \ {w} : /\ user'[v] = user[v] /\ sent'[v] = sent[v]
                                  /\ stuck'[v] = stuck[v]
                                  /\ crossed[v] => crossed'[v]
                                  /\ ~crossed'[v] => ~crossed[v] /\ t = stored
<1> DEFINE new == [k \in Kinds |-> IF t # None /\ k \in asked THEN [Idle EXCEPT !.at = "sent", !.token = t] ELSE Idle]
           asking == [Idle EXCEPT !.at = "sent", !.token = t]
<1>1. asking \in Request /\ asking.at = "sent" /\ asking.token = t
  BY DEF Idle, Request
<1>2. new \in Requests
  BY <1>1, IdleType DEF Requests
<1>3. \A k \in Kinds : new[k] = Idle \/ (t # None /\ k # "login" /\ new[k].at = "sent" /\ new[k].token = t)
  BY <1>1
<1>4. sent' = [sent EXCEPT ![w] = new]
  BY DEF Load
<1> HIDE DEF new
<1>5. sent' \in [Tabs -> Requests] /\ sent'[w] = new /\ \A v \in Tabs \ {w} : sent'[v] = sent[v]
  BY <1>2, <1>4, SentType
<1>6. at' \in [Tabs -> Pages]
  BY RouteType DEF Load, TypeOK
<1>7. /\ user' \in [Tabs -> CurrentUser \cup {None}] /\ loading' \in [Tabs -> BOOLEAN]
      /\ stuck' \in [Tabs -> SUBSET Kinds] /\ stored' = t
      /\ user'[w] = None /\ stuck'[w] = {}
      /\ \A v \in Tabs \ {w} : user'[v] = user[v] /\ stuck'[v] = stuck[v]
  BY DEF Load, TypeOK
<1>8. \A v \in Tabs : crossed'[v] = (v # w /\ (crossed[v] \/ t # stored))
  BY DEF Load
<1>9. crossed' \in [Tabs -> BOOLEAN]
  BY DEF Load, TypeOK
<1> QED
  BY <1>3, <1>5, <1>6, <1>7, <1>8, <1>9, Zenon DEF TypeOK

-----------------------------------------------------------------------------
(* What a step has to show.                                                *)

LEMMA IssuedStays ==
  ASSUME TypeOK, OwnerStays, NEW t \in Tokens \cup {None}, Issued(t)
  PROVE  Issued(t)' /\ (t # None => owner'[t] = owner[t])
BY DEF Issued, OwnerStays

\* A request that is as it was.
LEMMA RequestStays ==
  ASSUME Sound, OwnerStays, NEW w \in Tabs, NEW k \in Kinds,
         sent'[w][k] = sent[w][k], crossed[w] => crossed'[w], ~crossed'[w] => stored' = stored
  PROVE  RequestOK(w, k)' /\ (sent'[w][k].token = None \/ owner'[sent'[w][k].token] # None)
<1>1. RequestOK(w, k) /\ Issued(sent[w][k].token)
  BY DEF Sound, TabOK, TokensOK
<1>2. sent[w][k].token \in Tokens \cup {None}
  BY SentType DEF Sound, Requests, Request
<1> QED
  BY <1>1, <1>2, IssuedStays DEF Sound, RequestOK, Busy, Issued

\* A request that is over.
LEMMA RequestOver ==
  ASSUME NEW w \in Tabs, NEW k \in Kinds, sent'[w][k] = Idle
  PROVE  RequestOK(w, k)' /\ sent'[w][k].token = None
BY DEF RequestOK, Busy, Idle

\* A tab that is as it was.
LEMMA TabStays ==
  ASSUME Sound, OwnerStays, NEW v \in Tabs, sent'[v] = sent[v], user'[v] = user[v], stuck'[v] = stuck[v],
         crossed[v] => crossed'[v], ~crossed'[v] => stored' = stored
  PROVE  TabOK(v)' /\ \A k \in Kinds : sent'[v][k].token = None \/ owner'[sent'[v][k].token] # None
<1>1. TabOK(v) /\ Issued(stored) /\ stored \in Tokens \cup {None}
  BY DEF Sound, TokensOK, TypeOK
<1>2. \A k \in Kinds : RequestOK(v, k)' /\ (sent'[v][k].token = None \/ owner'[sent'[v][k].token] # None)
  BY RequestStays
<1>3. user'[v] # None /\ ~crossed'[v] /\ ~Busy(v, "me")' => stored' # None /\ owner'[stored'] = user'[v].account
  BY <1>1, IssuedStays DEF Sound, TabOK, Busy
<1> QED
  BY <1>1, <1>2, <1>3 DEF TabOK

-----------------------------------------------------------------------------
(* One lemma per kind of step.                                             *)

LEMMA FreshStays ==
  ASSUME TypeOK, NEW t \in Tokens, NEW a \in Accounts, Fresh(t), owner' = [owner EXCEPT ![t] = a]
  PROVE  OwnerStays /\ owner' \in [Tokens -> Accounts \cup {None}] /\ owner'[t] = a /\ a # None
BY SessionAssumption DEF TypeOK, Fresh, OwnerStays

\* A request goes out.
LEMMA SendKeeps ==
  ASSUME Sound, NEW w \in Tabs, NEW k \in Kinds, NEW u \in CurrentUser \cup {None}, Send(w, k, u),
         k # "login" => SignedIn(w), ~Busy(w, k),
         UNCHANGED <<server, stored, at, user, loading, history>>, Act
  PROVE  Sound'
<1> USE DEF server, history
<1>1. TypeOK /\ TokensOK /\ OwnerStays
  BY DEF Sound, OwnerStays
<1>2. /\ sent' \in [Tabs -> Requests]
      /\ sent'[w][k].at = "sent" /\ sent'[w][k].token = IF k = "login" THEN None ELSE stored
      /\ \A v \in Tabs, j \in Kinds : v # w \/ j # k => sent'[v][j] = sent[v][j]
  BY <1>1, SendFacts
<1>3. TypeOK'
  BY <1>1, <1>2, SessionAssumption DEF TypeOK, Act, Requests, Request
<1>4. k # "login" /\ ~crossed[w] => stored # None
  <2>1. TabOK(w)
    BY DEF Sound
  <2>2. CASE Busy(w, "me")
    BY <2>1, <2>2 DEF TabOK, RequestOK, Kinds
  <2>3. CASE ~Busy(w, "me")
    BY <2>1, <2>3 DEF TabOK, SignedIn
  <2> QED
    BY <2>2, <2>3
<1>5. RequestOK(w, k)' /\ (sent'[w][k].token = None \/ owner'[sent'[w][k].token] # None)
  BY <1>1, <1>2, <1>4 DEF RequestOK, Busy, TokensOK, Issued
<1>6. \A j \in Kinds \ {k} : RequestOK(w, j)' /\ (sent'[w][j].token = None \/ owner'[sent'[w][j].token] # None)
  BY <1>1, <1>2, RequestStays
<1>7. \A v \in Tabs \ {w} : TabOK(v)' /\ \A j \in Kinds : sent'[v][j].token = None \/ owner'[sent'[v][j].token] # None
  <2> TAKE v \in Tabs \ {w}
  <2>1. sent'[v] = sent[v]
    BY <1>1, <1>2, SentType DEF Requests
  <2> QED
    BY <1>1, <2>1, TabStays
<1>8. TabOK(w)'
  <2>1. Busy(w, "me") => Busy(w, "me")'
    BY <1>2 DEF Busy, Kinds
  <2> QED
    BY <1>5, <1>6, <2>1 DEF Sound, TabOK
<1>9. TokensOK'
  BY <1>1, <1>5, <1>6, <1>7 DEF TokensOK, Issued
<1> QED
  BY <1>3, <1>7, <1>8, <1>9 DEF Sound

\* A tab loads a page.
LEMMA LoadKeeps ==
  ASSUME Sound, NEW w \in Tabs, NEW p \in Pages, NEW t \in Tokens \cup {None},
         NEW asked \in SUBSET {"start", "me"}, Load(w, p, t, asked),
         OwnerStays, owner' \in [Tokens -> Accounts \cup {None}],
         t = None \/ owner'[t] # None,
         UNCHANGED <<known, named>>, live' \subseteq Tokens, \A s \in live' : owner'[s] \in known,
         acts' \in 0..MaxActs
  PROVE  Sound'
<1>1. TypeOK /\ TokensOK
  BY DEF Sound
<1>2. /\ stored' = t
      /\ crossed' \in [Tabs -> BOOLEAN] /\ stuck' \in [Tabs -> SUBSET Kinds]
      /\ user' \in [Tabs -> CurrentUser \cup {None}] /\ loading' \in [Tabs -> BOOLEAN]
      /\ at' \in [Tabs -> Pages] /\ sent' \in [Tabs -> Requests]
      /\ user'[w] = None /\ stuck'[w] = {}
      /\ \A k \in Kinds : sent'[w][k] = Idle \/ (t # None /\ k # "login" /\ sent'[w][k].at = "sent" /\ sent'[w][k].token = t)
      /\ \A v \in Tabs \ {w} : /\ user'[v] = user[v] /\ sent'[v] = sent[v]
                               /\ stuck'[v] = stuck[v]
                               /\ crossed[v] => crossed'[v]
                               /\ ~crossed'[v] => ~crossed[v] /\ t = stored
  BY <1>1, LoadFacts
<1>3. TypeOK'
  BY <1>1, <1>2 DEF TypeOK, Requests, Request
<1>4. \A k \in Kinds : RequestOK(w, k)' /\ (sent'[w][k].token = None \/ owner'[sent'[w][k].token] # None)
  <2> TAKE k \in Kinds
  <2>1. CASE sent'[w][k] = Idle
    BY <2>1, RequestOver
  <2>2. CASE t # None /\ k # "login" /\ sent'[w][k].at = "sent" /\ sent'[w][k].token = t
    BY <1>2, <2>2 DEF RequestOK, Busy
  <2> QED
    BY <1>2, <2>1, <2>2
<1>5. TabOK(w)'
  BY <1>2, <1>4 DEF TabOK
<1>6. \A v \in Tabs \ {w} : TabOK(v)' /\ \A k \in Kinds : sent'[v][k].token = None \/ owner'[sent'[v][k].token] # None
  BY <1>2, TabStays
<1>7. TokensOK'
  BY <1>1, <1>2, <1>4, <1>6 DEF TokensOK, Issued
<1> QED
  BY <1>3, <1>5, <1>6, <1>7 DEF Sound

\* A request of tab w is over, and the tab shows its user or the one it had.
LEMMA OverKeeps ==
  ASSUME Sound, NEW w \in Tabs, NEW k \in Kinds, Over(w, k),
         UNCHANGED <<server, stored, crossed, acts>>,
         user' \in [Tabs -> CurrentUser \cup {None}], at' \in [Tabs -> Pages],
         loading' \in [Tabs -> BOOLEAN], stuck' \in [Tabs -> SUBSET Kinds],
         \A v \in Tabs \ {w} : user'[v] = user[v] /\ stuck'[v] = stuck[v],
         \/ user'[w] = user[w] /\ k # "me"
         \/ k # "login" /\ sent[w][k].at = "done" /\ user'[w] = sent[w][k].user,
         stuck'[w] \subseteq {"export"} \/ crossed[w]
  PROVE  Sound'
<1> USE DEF server
<1>1. TypeOK /\ TokensOK /\ OwnerStays /\ TabOK(w)
  BY DEF Sound, OwnerStays
<1>2. /\ sent' \in [Tabs -> Requests]
      /\ sent'[w][k] = Idle
      /\ \A v \in Tabs, j \in Kinds : v # w \/ j # k => sent'[v][j] = sent[v][j]
  BY <1>1, OverFacts
<1>3. TypeOK'
  BY <1>1, <1>2 DEF TypeOK, Requests, Request
<1>4. \A j \in Kinds : RequestOK(w, j)' /\ (sent'[w][j].token = None \/ owner'[sent'[w][j].token] # None)
  BY <1>1, <1>2, RequestOver, RequestStays
<1>5. \A v \in Tabs \ {w} : TabOK(v)' /\ \A j \in Kinds : sent'[v][j].token = None \/ owner'[sent'[v][j].token] # None
  <2> TAKE v \in Tabs \ {w}
  <2>1. sent'[v] = sent[v]
    BY <1>1, <1>2, SentType DEF Requests
  <2> QED
    BY <1>1, <2>1, TabStays
<1>6. user'[w] # None /\ ~crossed[w] /\ ~Busy(w, "me")' => stored # None /\ owner[stored] = user'[w].account
  <2>1. CASE user'[w] = user[w] /\ k # "me"
    <3>1. sent'[w]["me"] = sent[w]["me"]
      BY <1>2, <2>1 DEF Kinds
    <3> QED
      BY <1>1, <2>1, <3>1 DEF TabOK, Busy
  <2>2. CASE k # "login" /\ sent[w][k].at = "done" /\ user'[w] = sent[w][k].user
    <3>1. RequestOK(w, k)
      BY <1>1 DEF TabOK
    <3> QED
      BY <2>2, <3>1 DEF RequestOK, Busy
  <2> QED
    BY <2>1, <2>2
<1>7. TabOK(w)'
  BY <1>4, <1>6 DEF TabOK
<1>8. TokensOK'
  BY <1>1, <1>4, <1>5 DEF TokensOK, Issued
<1> QED
  BY <1>3, <1>5, <1>7, <1>8 DEF Sound

\* A tab is given another token, or none, when its request k is over: the
\* answer to "me" is all it may then wait for.
LEMMA SetTokenKeeps ==
  ASSUME Sound, NEW w \in Tabs, NEW k \in Kinds, NEW t \in Tokens \cup {None}, SetToken(w, k, t),
         UNCHANGED <<server, stuck, acts>>, t = None \/ owner[t] # None,
         sent' \in [Tabs -> Requests], at' \in [Tabs -> Pages], loading' \in [Tabs -> BOOLEAN],
         user' \in [Tabs -> CurrentUser \cup {None}],
         \A v \in Tabs \ {w} : user'[v] = user[v] /\ sent'[v] = sent[v],
         sent'[w][k] = Idle,
         \A j \in Kinds \ {k, "me"} : sent'[w][j] = sent[w][j],
         \/ user'[w] = None /\ (k # "me" => sent'[w]["me"] = sent[w]["me"])
         \/ k = "login" /\ t # None /\ sent'[w]["me"].at = "sent" /\ sent'[w]["me"].token = t
  PROVE  Sound'
<1> USE DEF server
<1>1. TypeOK /\ TokensOK /\ OwnerStays /\ TabOK(w)
  BY DEF Sound, OwnerStays
<1>2. /\ stored' = t /\ crossed' \in [Tabs -> BOOLEAN]
      /\ \A v \in Tabs : crossed[v] => crossed'[v]
      /\ \A v \in Tabs \ {w} : ~crossed'[v] => ~crossed[v] /\ t = stored
      /\ ~crossed'[w] => ~crossed[w] /\ (t = stored \/ \A j \in Kinds \ {k} : ~Busy(w, j))
  BY <1>1, SetTokenFacts
<1>3. TypeOK'
  BY <1>1, <1>2 DEF TypeOK, Requests, Request
<1>4. \A j \in Kinds : sent'[w][j] = sent[w][j] =>
        RequestOK(w, j)' /\ (sent'[w][j].token = None \/ owner'[sent'[w][j].token] # None)
  <2> SUFFICES ASSUME NEW j \in Kinds, sent'[w][j] = sent[w][j]
               PROVE  RequestOK(w, j)' /\ (sent'[w][j].token = None \/ owner'[sent'[w][j].token] # None)
    OBVIOUS
  <2>1. CASE ~crossed'[w] /\ t # stored
    <3>1. j = k \/ ~Busy(w, j)
      BY <1>2, <2>1
    <3>2. ~Busy(w, j)'
      BY <3>1 DEF Busy, Idle
    <3>3. Issued(sent[w][j].token)
      BY <1>1 DEF TokensOK
    <3> QED
      BY <3>2, <3>3 DEF RequestOK, Busy, Issued
  <2>2. CASE crossed'[w] \/ t = stored
    BY <1>1, <1>2, <2>2, RequestStays
  <2> QED
    BY <2>1, <2>2
<1>5. RequestOK(w, "me")' /\ (sent'[w]["me"].token = None \/ owner'[sent'[w]["me"].token] # None)
  <2>1. CASE k = "me"
    BY <2>1, RequestOver DEF Kinds
  <2>2. CASE sent'[w]["me"] = sent[w]["me"]
    BY <1>4, <2>2 DEF Kinds
  <2>3. CASE t # None /\ sent'[w]["me"].at = "sent" /\ sent'[w]["me"].token = t
    BY <1>2, <2>3 DEF RequestOK, Busy
  <2> QED
    BY <2>1, <2>2, <2>3
<1>6. \A j \in Kinds : RequestOK(w, j)' /\ (sent'[w][j].token = None \/ owner'[sent'[w][j].token] # None)
  BY <1>4, <1>5, RequestOver
<1>7. user'[w] # None => Busy(w, "me")'
  BY DEF Busy
<1>8. TabOK(w)'
  BY <1>1, <1>2, <1>6, <1>7 DEF TabOK
<1>9. \A v \in Tabs \ {w} : TabOK(v)' /\ \A j \in Kinds : sent'[v][j].token = None \/ owner'[sent'[v][j].token] # None
  BY <1>1, <1>2, TabStays
<1>10. TokensOK'
  BY <1>1, <1>2, <1>6, <1>9 DEF TokensOK, Issued
<1> QED
  BY <1>3, <1>8, <1>9, <1>10 DEF Sound

\* The server answers request k of tab w.
LEMMA AnswerKeeps ==
  ASSUME Sound, NEW w \in Tabs, NEW k \in Kinds, NEW new \in Request,
         sent' = [sent EXCEPT ![w] = [@ EXCEPT ![k] = new]],
         OwnerStays, owner' \in [Tokens -> Accounts \cup {None}],
         named' \subseteq known', known' \subseteq Accounts,
         live' \subseteq Tokens, \A s \in live' : owner'[s] \in known',
         UNCHANGED <<stored, at, user, loading, history, acts>>,
         sent[w][k].at = "sent", new.at # "idle",
         IF k = "login" THEN new.at = "done" /\ new.token # None /\ owner'[new.token] # None
         ELSE /\ new.token = sent[w][k].token
              /\ new.at = "done" => new.token # None /\ new.user.account = owner[new.token] /\ owner[new.token] # None
  PROVE  Sound'
<1> USE DEF history
<1>1. TypeOK /\ TokensOK /\ TabOK(w)
  BY DEF Sound
<1>2. /\ sent' \in [Tabs -> Requests] /\ sent'[w][k] = new
      /\ \A v \in Tabs, j \in Kinds : v # w \/ j # k => sent'[v][j] = sent[v][j]
      /\ \A v \in Tabs \ {w} : sent'[v] = sent[v]
  BY <1>1, SentType DEF Requests
<1>3. TypeOK'
  BY <1>1, <1>2 DEF TypeOK, Requests, Request
<1>4. RequestOK(w, k)' /\ (new.token = None \/ owner'[new.token] # None)
  <2>1. RequestOK(w, k) /\ Issued(sent[w][k].token)
    BY <1>1 DEF TabOK, TokensOK
  <2>2. sent[w][k].token \in Tokens \cup {None}
    BY <1>1, SentType DEF Requests, Request
  <2>3. k # "login" /\ new.at = "done" => owner'[new.token] = owner[new.token]
    BY <2>2 DEF OwnerStays
  <2>4. k # "login" => new.token = None \/ owner'[new.token] # None
    BY <1>1, <2>1, <2>2, IssuedStays DEF Issued
  <2> QED
    BY <1>2, <2>1, <2>3, <2>4 DEF RequestOK, Busy
<1>5. \A j \in Kinds \ {k} : RequestOK(w, j)' /\ (sent'[w][j].token = None \/ owner'[sent'[w][j].token] # None)
  BY <1>1, <1>2, RequestStays
<1>6. TabOK(w)'
  <2>1. Busy(w, "me")' <=> Busy(w, "me")
    BY <1>2 DEF Busy, Kinds
  <2>2. Issued(stored) /\ stored \in Tokens \cup {None}
    BY <1>1 DEF TokensOK, TypeOK
  <2>3. stored # None => owner'[stored] = owner[stored]
    BY <2>2, <1>1, IssuedStays
  <2> QED
    BY <1>1, <1>4, <1>5, <2>1, <2>3 DEF TabOK
<1>7. \A v \in Tabs \ {w} : TabOK(v)' /\ \A j \in Kinds : sent'[v][j].token = None \/ owner'[sent'[v][j].token] # None
  BY <1>1, <1>2, TabStays
<1>8. TokensOK'
  <2>1. Issued(stored)'
    BY <1>1, IssuedStays DEF TokensOK, TypeOK
  <2> QED
    BY <1>2, <1>4, <1>5, <1>7, <2>1 DEF TokensOK, Issued
<1> QED
  BY <1>3, <1>6, <1>7, <1>8 DEF Sound

-----------------------------------------------------------------------------
(* The actions.                                                            *)

LEMMA InitSound == Init => Sound
<1> SUFFICES ASSUME Init PROVE Sound
  OBVIOUS
<1> DEFINE first == CHOOSE a \in Accounts : TRUE
<1>1. first \in Accounts
  BY SessionAssumption
<1> HIDE DEF first
<1>2. PICK p \in {"login", "app"} :
        /\ owner = [t \in Tokens |-> IF p = "app" /\ t = 1 THEN first ELSE None]
        /\ live = IF p = "app" THEN {1} ELSE {}
        /\ known = Accounts /\ named = {first}
        /\ stored = IF p = "app" THEN 1 ELSE None
        /\ at = [w \in Tabs |-> p]
        /\ user = [w \in Tabs |-> IF p = "app" THEN [account |-> first, named |-> TRUE] ELSE None]
        /\ loading = [w \in Tabs |-> FALSE]
        /\ sent = [w \in Tabs |-> [k \in Kinds |-> Idle]]
        /\ crossed = [w \in Tabs |-> FALSE] /\ stuck = [w \in Tabs |-> {}]
        /\ acts = 0
  BY DEF Init, first
<1>3. 1 \in Tokens /\ None # 1 /\ None # first
  BY <1>1, SessionAssumption DEF Tokens
<1>4. TypeOK
  <2>1. sent \in [Tabs -> Requests]
    BY <1>2, IdleType DEF Requests
  <2>2. user \in [Tabs -> CurrentUser \cup {None}]
    BY <1>1, <1>2 DEF CurrentUser
  <2>3. owner \in [Tokens -> Accounts \cup {None}] /\ live \subseteq Tokens
    BY <1>1, <1>2, <1>3
  <2>4. named \subseteq known /\ known \subseteq Accounts /\ stored \in Tokens \cup {None}
    BY <1>1, <1>2, <1>3
  <2>5. at \in [Tabs -> Pages] /\ loading \in [Tabs -> BOOLEAN]
        /\ crossed \in [Tabs -> BOOLEAN] /\ stuck \in [Tabs -> SUBSET Kinds]
    BY <1>2 DEF Pages
  <2>6. acts \in 0..MaxActs
    BY <1>2, SessionAssumption
  <2> QED
    BY <2>1, <2>2, <2>3, <2>4, <2>5, <2>6 DEF TypeOK, Requests, Request
<1>5. \A w \in Tabs, k \in Kinds : sent[w][k] = Idle
  BY <1>2
<1>6. TokensOK
  BY <1>1, <1>2, <1>3, <1>5 DEF TokensOK, Issued, Idle
<1>7. \A w \in Tabs, k \in Kinds : RequestOK(w, k)
  BY <1>5 DEF RequestOK, Busy, Idle
<1>8. \A w \in Tabs : user[w] # None => stored # None /\ owner[stored] = user[w].account
  BY <1>2, <1>3
<1>9. \A w \in Tabs : TabOK(w)
  BY <1>2, <1>7, <1>8 DEF TabOK
<1> QED
  BY <1>4, <1>6, <1>9 DEF Sound

LEMMA ActingKeeps == Sound /\ Acting => Sound'
<1> SUFFICES ASSUME Sound, Acting PROVE Sound'
  OBVIOUS
<1>1. TypeOK /\ TokensOK
  BY DEF Sound
<1>2. Issued(stored) /\ stored \in Tokens \cup {None}
  BY <1>1 DEF TokensOK, TypeOK
<1>3. ASSUME NEW w \in Tabs, NEW p \in Pages, Open(w, p) PROVE Sound'
  <2>1. OwnerStays /\ owner' \in [Tokens -> Accounts \cup {None}]
    BY <1>1, <1>3 DEF Open, server, OwnerStays, TypeOK
  <2>2. acts' \in 0..MaxActs
    BY <1>1, <1>3, SessionAssumption DEF Open, Act, TypeOK
  <2> QED
    BY <1>1, <1>2, <1>3, <2>1, <2>2, LoadKeeps DEF Open, server, TokensOK, TypeOK, Issued
<1>4. ASSUME NEW w \in Tabs, OpenCallback(w) PROVE Sound'
  <2>1. acts' \in 0..MaxActs
    BY <1>1, <1>4, SessionAssumption DEF OpenCallback, Act, TypeOK
  <2>2. CASE Load(w, "callback", stored, {"start"}) /\ UNCHANGED <<owner, live>>
    <3>1. OwnerStays /\ owner' \in [Tokens -> Accounts \cup {None}]
      BY <1>1, <2>2 DEF OwnerStays, TypeOK
    <3>2. UNCHANGED <<known, named>>
      BY <1>4 DEF OpenCallback
    <3> QED
      BY <1>1, <1>2, <2>1, <2>2, <3>1, <3>2, LoadKeeps DEF TokensOK, TypeOK, Issued, Pages
  <2>3. ASSUME NEW a \in Accounts, NEW t \in Tokens, Fresh(t), a \in known,
               owner' = [owner EXCEPT ![t] = a], live' = live \cup {t},
               Load(w, "callback", t, {"start", "me"}), UNCHANGED <<known, named>>
        PROVE  Sound'
    <3>1. OwnerStays /\ owner' \in [Tokens -> Accounts \cup {None}] /\ owner'[t] = a /\ a # None
      BY <1>1, <2>3, FreshStays
    <3>2. \A s \in live' : owner'[s] \in known
      BY <1>1, <2>3 DEF TokensOK, TypeOK
    <3> QED
      BY <1>1, <2>1, <2>3, <3>1, <3>2, LoadKeeps DEF TypeOK, Pages
  <2> QED
    BY <1>4, <2>2, <2>3 DEF OpenCallback
<1>5. ASSUME NEW w \in Tabs, NEW p \in Pages, GoTo(w, p) PROVE Sound'
  <2>1. /\ Act /\ Show(w, p, user[w])
        /\ UNCHANGED <<server, stored, loading, sent, history>>
    BY <1>5 DEF GoTo
  <2>2. at' \in [Tabs -> Pages] /\ user' = user
    BY <1>1, <2>1, ShowFacts DEF TypeOK, Show
  <2>3. TypeOK'
    BY <1>1, <2>1, <2>2, SessionAssumption DEF TypeOK, Act, server, history
  <2>4. OwnerStays
    BY <2>1 DEF OwnerStays, server
  <2>5. \A v \in Tabs : TabOK(v)' /\ \A k \in Kinds : sent'[v][k].token = None \/ owner'[sent'[v][k].token] # None
    BY <2>1, <2>2, <2>4, TabStays DEF history
  <2>6. TokensOK'
    BY <1>1, <2>1, <2>5 DEF TokensOK, Issued, server
  <2> QED
    BY <2>3, <2>5, <2>6 DEF Sound
<1>6. ASSUME NEW w \in Tabs, NEW a \in Accounts, SignIn(w, a) PROVE Sound'
  <2>1. [account |-> a, named |-> a \in named] \in CurrentUser
    BY DEF CurrentUser
  <2> QED
    BY <1>6, <2>1, SendKeeps DEF SignIn, SigningIn, Kinds
<1>7. ASSUME NEW w \in Tabs, NEW k \in Kinds, Use(w, k) PROVE Sound'
  <2>1. user[w] \in CurrentUser \cup {None}
    BY <1>1 DEF TypeOK
  <2> QED
    BY <1>7, <2>1, SendKeeps DEF Use, InApp
<1>8. ASSUME NEW a \in Accounts, EndSessions(a) PROVE Sound'
  <2>1. TypeOK'
    BY <1>1, <1>8, SessionAssumption DEF TypeOK, EndSessions, Act, history
  <2>2. OwnerStays
    BY <1>8 DEF OwnerStays, EndSessions
  <2>3. \A v \in Tabs : TabOK(v)' /\ \A k \in Kinds : sent'[v][k].token = None \/ owner'[sent'[v][k].token] # None
    BY <1>8, <2>2, TabStays DEF EndSessions, history
  <2>4. TokensOK'
    BY <1>1, <1>8, <2>3 DEF TokensOK, Issued, EndSessions
  <2> QED
    BY <2>1, <2>3, <2>4 DEF Sound
<1> QED
  BY <1>3, <1>4, <1>5, <1>6, <1>7, <1>8 DEF Acting

LEMMA ServeLoginKeeps ==
  ASSUME Sound, NEW w \in Tabs, ServeLogin(w)
  PROVE  Sound'
<1>1. TypeOK /\ TokensOK /\ "login" \in Kinds
  BY DEF Sound, Kinds
<1>2. PICK t \in Tokens :
        /\ Fresh(t)
        /\ owner' = [owner EXCEPT ![t] = sent[w]["login"].user.account]
        /\ live' = live \cup {t}
        /\ sent' = [sent EXCEPT ![w]["login"].at = "done", ![w]["login"].token = t]
  BY DEF ServeLogin
<1> DEFINE a == sent[w]["login"].user.account
           new == [sent[w]["login"] EXCEPT !.at = "done", !.token = t]
<1>3. a \in known /\ a \in Accounts /\ sent[w]["login"].at = "sent"
      /\ UNCHANGED <<known, named, stored, at, user, loading, history, acts>>
  BY <1>1 DEF ServeLogin, TypeOK
<1>4. sent[w]["login"] \in Request
  BY <1>1, SentType DEF Requests
<1>5. new \in Request /\ new.at = "done" /\ new.token = t
  BY <1>4 DEF Request
<1>a. t # None
  BY SessionAssumption DEF Tokens
<1>6. sent' = [sent EXCEPT ![w] = [@ EXCEPT !["login"] = new]]
  BY <1>1, <1>2, <1>4, SentType DEF Requests, Request
<1> HIDE DEF a, new
<1>7. OwnerStays /\ owner' \in [Tokens -> Accounts \cup {None}] /\ owner'[t] = a /\ a # None
  BY <1>1, <1>2, <1>3, FreshStays DEF a
<1>8. \A s \in live' : owner'[s] \in known
  BY <1>1, <1>2, <1>3, <1>7 DEF TokensOK, TypeOK
<1>10. live' \subseteq Tokens /\ named' \subseteq known' /\ known' \subseteq Accounts
  BY <1>1, <1>2, <1>3 DEF TypeOK
<1>11. new.at # "idle" /\ owner'[new.token] # None /\ new.token # None
  BY <1>5, <1>7, <1>a
<1> QED
  BY <1>1, <1>3, <1>5, <1>6, <1>7, <1>8, <1>10, <1>11, AnswerKeeps

LEMMA ServeKeeps ==
  ASSUME Sound, NEW w \in Tabs, NEW k \in Kinds, Serve(w, k)
  PROVE  Sound'
<1> DEFINE t == sent[w][k].token
           a == owner[t]
<1>1. TypeOK /\ TokensOK
  BY DEF Sound
<1>2. sent[w][k] \in Request
  BY <1>1, SentType DEF Requests
<1>3. k # "login" /\ sent[w][k].at = "sent" /\ UNCHANGED <<stored, at, user, loading, history, acts>>
  BY DEF Serve
<1>4. UNCHANGED owner /\ OwnerStays
  BY DEF Serve, OwnerStays, server
<1>5. CASE ~Accepted(t)
  <2> DEFINE new == [sent[w][k] EXCEPT !.at = "refused"]
  <2>1. sent' = [sent EXCEPT ![w][k].at = "refused"] /\ UNCHANGED server
    BY <1>5 DEF Serve
  <2>2. new \in Request /\ new.at = "refused" /\ new.token = t
    BY <1>2 DEF Request
  <2>3. sent' = [sent EXCEPT ![w] = [@ EXCEPT ![k] = new]]
    BY <1>1, <1>2, <2>1, SentType DEF Requests, Request
  <2>4. new.token = sent[w][k].token /\ new.at # "idle" /\ new.at # "done"
    BY <2>2 DEF t
  <2> HIDE DEF new, t
  <2>5. /\ owner' \in [Tokens -> Accounts \cup {None}] /\ live' \subseteq Tokens
        /\ named' \subseteq known' /\ known' \subseteq Accounts
        /\ \A s \in live' : owner'[s] \in known'
    BY <1>1, <2>1 DEF TypeOK, TokensOK, server
  <2>6. new \in Request
    BY <2>2
  <2> QED
    BY <1>3, <1>4, <2>3, <2>4, <2>5, <2>6, AnswerKeeps
<1>6. CASE Accepted(t)
  <2> DEFINE u == UserOf(t, named')
             new == [sent[w][k] EXCEPT !.at = "done", !.user = u]
  <2>1. /\ known' = IF k = "delete" THEN known \ {a} ELSE known
        /\ named' = CASE k \in {"profile", "password"} -> named \cup {a}
                       [] k = "delete" -> named \ {a}
                       [] OTHER -> named
        /\ live' = CASE k = "logout" -> live \ {t}
                      [] k \in {"password", "delete"} -> {s \in live : owner[s] # a}
                      [] OTHER -> live
        /\ Answer(w, k, u)
    BY <1>6 DEF Serve
  <2>2. t \in live /\ t \in Tokens /\ a \in known /\ a \in Accounts
    BY <1>1, <1>6 DEF Accepted, TokensOK, TypeOK
  <2>3. u \in CurrentUser /\ u.account = a
    BY <2>2 DEF UserOf, CurrentUser
  <2>4. t # None /\ a # None
    BY <2>2, SessionAssumption DEF Tokens
  <2> HIDE DEF u
  <2>5. new \in Request /\ new.at = "done" /\ new.token = t /\ new.user = u
    BY <1>2, <2>3 DEF Request
  <2>6. sent' = [sent EXCEPT ![w] = [@ EXCEPT ![k] = new]]
    BY <1>1, <1>2, <2>1, SentType DEF Requests, Request, Answer
  <2> HIDE DEF new, t, a
  <2>7. named' \subseteq known' /\ known' \subseteq Accounts
    BY <1>1, <2>1, <2>2 DEF TypeOK
  <2>8. live' \subseteq live
    BY <2>1
  <2>9. \A s \in live' : owner[s] \in known'
    BY <1>1, <2>1, <2>8 DEF TokensOK, a
  <2>10. /\ new.token = sent[w][k].token /\ new.at # "idle"
         /\ new.token # None /\ new.user.account = owner[new.token] /\ owner[new.token] # None
    BY <2>3, <2>4, <2>5 DEF t, a
  <2>11. live' \subseteq Tokens /\ owner' \in [Tokens -> Accounts \cup {None}] /\ \A s \in live' : owner'[s] \in known'
    BY <1>1, <1>4, <2>8, <2>9 DEF TypeOK
  <2>12. new \in Request
    BY <2>5
  <2> QED
    BY <1>3, <1>4, <2>6, <2>7, <2>10, <2>11, <2>12, AnswerKeeps
<1> QED
  BY <1>5, <1>6

\* A 401 is an error like any other once no token is stored.
LEMMA StuckIsCrossed ==
  ASSUME Sound, NEW w \in Tabs, NEW k \in Kinds, sent[w][k].at = "refused", stored = None
  PROVE  crossed[w]
<1>1. RequestOK(w, k)
  BY DEF Sound, TabOK
<1> QED
  BY <1>1 DEF RequestOK, Busy

LEMMA RejectedKeeps ==
  ASSUME Sound, NEW w \in Tabs, NEW k \in Kinds, Rejected(w, k) \/ HearPassword(w)
  PROVE  Sound'
<1>1. Load(w, "login", None, {}) /\ UNCHANGED <<server, acts>> /\ "login" \in Pages /\ TypeOK /\ TokensOK
  BY DEF Rejected, HearPassword, Pages, Sound
<1>2. OwnerStays /\ owner' \in [Tokens -> Accounts \cup {None}] /\ UNCHANGED <<known, named, live, owner>>
  BY <1>1 DEF OwnerStays, server, TypeOK
<1>3. live' \subseteq Tokens /\ (\A s \in live' : owner'[s] \in known) /\ acts' \in 0..MaxActs
  BY <1>1, <1>2 DEF TypeOK, TokensOK
<1> QED
  BY <1>1, <1>2, <1>3, LoadKeeps

LEMMA HearUserKeeps ==
  ASSUME Sound, NEW w \in Tabs, NEW k \in Kinds, HearUser(w, k)
  PROVE  Sound'
<1>1. TypeOK /\ TabOK(w) /\ sent[w][k].user \in CurrentUser \cup {None}
  BY SentType DEF Sound, Requests, Request
<1>2. PICK p \in Landing(w, k) : Show(w, p, sent[w][k].user)
  BY DEF HearUser
<1>3. p \in Pages
  BY <1>1 DEF Landing, TypeOK, Pages
<1>4. /\ user' \in [Tabs -> CurrentUser \cup {None}] /\ at' \in [Tabs -> Pages]
      /\ user'[w] = sent[w][k].user /\ \A v \in Tabs \ {w} : user'[v] = user[v]
  BY <1>1, <1>2, <1>3, ShowFacts
<1>5. loading' \in [Tabs -> BOOLEAN]
  BY <1>1 DEF HearUser, TypeOK
<1>6. /\ k # "login" /\ sent[w][k].at = "done" /\ Over(w, k)
      /\ UNCHANGED <<server, stored, crossed, stuck, acts>>
  BY DEF HearUser, history
<1>7. stuck' \in [Tabs -> SUBSET Kinds] /\ (stuck'[w] \subseteq {"export"} \/ crossed[w])
  BY <1>1, <1>6 DEF TypeOK, TabOK
<1> QED
  BY <1>4, <1>5, <1>6, <1>7, OverKeeps

LEMMA HearProfileKeeps ==
  ASSUME Sound, NEW w \in Tabs, HearProfile(w)
  PROVE  Sound'
<1> DEFINE p == IF sent[w]["profile"].page = "complete-profile" THEN "app" ELSE at[w]
<1>1. TypeOK /\ TabOK(w) /\ "profile" \in Kinds
  BY DEF Sound, Kinds
<1>2. sent[w]["profile"].user \in CurrentUser \cup {None} /\ p \in Pages
  BY <1>1, SentType DEF Requests, Request, TypeOK, Pages
<1>3. Show(w, p, sent[w]["profile"].user)
  BY DEF HearProfile
<1>4. /\ user' \in [Tabs -> CurrentUser \cup {None}] /\ at' \in [Tabs -> Pages]
      /\ user'[w] = sent[w]["profile"].user /\ \A v \in Tabs \ {w} : user'[v] = user[v]
  BY <1>1, <1>2, <1>3, ShowFacts
<1>5. /\ sent[w]["profile"].at = "done" /\ Over(w, "profile")
      /\ UNCHANGED <<server, stored, crossed, stuck, loading, acts>>
  BY DEF HearProfile, history
<1>6. stuck' \in [Tabs -> SUBSET Kinds] /\ loading' \in [Tabs -> BOOLEAN] /\ (stuck'[w] \subseteq {"export"} \/ crossed[w])
  BY <1>1, <1>5 DEF TypeOK, TabOK
<1> QED
  BY <1>1, <1>4, <1>5, <1>6, OverKeeps

LEMMA HearReadKeeps ==
  ASSUME Sound, NEW w \in Tabs, NEW k \in Kinds, HearRead(w, k)
  PROVE  Sound'
<1>1. TypeOK /\ TabOK(w)
  BY DEF Sound
<1>2. Over(w, k) /\ k # "me" /\ UNCHANGED <<server, stored, at, user, loading, crossed, stuck, acts>>
  BY DEF HearRead, history
<1>3. /\ user' \in [Tabs -> CurrentUser \cup {None}] /\ at' \in [Tabs -> Pages]
      /\ loading' \in [Tabs -> BOOLEAN] /\ stuck' \in [Tabs -> SUBSET Kinds] /\ (stuck'[w] \subseteq {"export"} \/ crossed[w])
  BY <1>1, <1>2 DEF TypeOK, TabOK
<1> QED
  BY <1>1, <1>2, <1>3, OverKeeps

LEMMA RequestFailsKeeps ==
  ASSUME Sound, NEW w \in Tabs, NEW k \in Kinds, RequestFails(w, k)
  PROVE  Sound'
<1>1. TypeOK /\ TabOK(w)
  BY DEF Sound
<1>2. /\ k # "me" /\ Over(w, k) /\ Failing(w, k)
      /\ stuck' = [stuck EXCEPT ![w] = IF sent[w][k].at = "refused" THEN @ \cup {k} ELSE @]
      /\ UNCHANGED <<server, stored, at, user, loading, crossed, acts>>
  BY DEF RequestFails
<1>3. /\ user' \in [Tabs -> CurrentUser \cup {None}] /\ at' \in [Tabs -> Pages]
      /\ loading' \in [Tabs -> BOOLEAN] /\ \A v \in Tabs \ {w} : user'[v] = user[v] /\ stuck'[v] = stuck[v]
  BY <1>1, <1>2 DEF TypeOK
<1>4. /\ stuck' \in [Tabs -> SUBSET Kinds]
      /\ stuck'[w] = IF sent[w][k].at = "refused" THEN stuck[w] \cup {k} ELSE stuck[w]
  BY <1>1, <1>2 DEF TypeOK
<1>5. sent[w][k].at = "refused" => k = "export" \/ crossed[w]
  BY <1>2, StuckIsCrossed DEF Failing
<1>6. stuck'[w] \subseteq {"export"} \/ crossed[w]
  BY <1>1, <1>4, <1>5 DEF TabOK
<1> QED
  BY <1>2, <1>3, <1>4, <1>6, OverKeeps

LEMMA HearLoginKeeps ==
  ASSUME Sound, NEW w \in Tabs, HearLogin(w)
  PROVE  Sound'
<1> DEFINE t == sent[w]["login"].token
           me == [Idle EXCEPT !.at = "sent", !.token = t]
<1>1. TypeOK /\ TokensOK /\ "login" \in Kinds /\ "me" \in Kinds /\ TabOK(w)
  BY DEF Sound, Kinds
<1>2. /\ sent[w]["login"].at = "done" /\ SetToken(w, "login", t)
      /\ sent' = [sent EXCEPT ![w]["login"] = Idle, ![w]["me"] = me]
      /\ UNCHANGED <<server, at, user, loading, stuck, acts>>
  BY DEF HearLogin
<1>3. t \in Tokens \cup {None} /\ t # None /\ owner[t] # None
  BY <1>1, <1>2, SentType DEF Requests, Request, TabOK, RequestOK, TokensOK, Issued
<1> HIDE DEF t
<1>4. me \in Request /\ me.at = "sent" /\ me.token = t
  BY <1>3 DEF Idle, Request
<1> HIDE DEF me
<1>5. /\ sent' \in [Tabs -> Requests] /\ sent'[w]["login"] = Idle /\ sent'[w]["me"] = me
      /\ \A j \in Kinds \ {"login", "me"} : sent'[w][j] = sent[w][j]
      /\ \A v \in Tabs \ {w} : sent'[v] = sent[v]
  BY <1>1, <1>2, <1>4, SentType, IdleType DEF Requests
<1>6. /\ at' \in [Tabs -> Pages] /\ loading' \in [Tabs -> BOOLEAN]
      /\ user' \in [Tabs -> CurrentUser \cup {None}] /\ \A v \in Tabs \ {w} : user'[v] = user[v]
  BY <1>1, <1>2 DEF TypeOK
<1>7. sent'[w]["me"].at = "sent" /\ sent'[w]["me"].token = t
  BY <1>4, <1>5
<1>8. SetToken(w, "login", t) /\ UNCHANGED <<server, stuck, acts>> /\ "login" \in Kinds
  BY <1>1, <1>2
<1> QED
  BY <1>3, <1>5, <1>6, <1>7, <1>8, SetTokenKeeps

\* refreshUser()'s error, logout() and deleteAccount(): no token, no user.
LEMMA SignedOutKeeps ==
  ASSUME Sound, NEW w \in Tabs, NEW k \in Kinds, RefreshFails(w, k) \/ HearSignOut(w, k)
  PROVE  Sound'
<1>1. TypeOK /\ "me" \in Kinds /\ "login" \in Pages /\ "app" \in Pages
  BY DEF Sound, Kinds, Pages
<1>2. PICK p \in Pages : Show(w, p, None)
  BY <1>1 DEF RefreshFails, HearSignOut, TypeOK
<1>3. SetToken(w, k, None) /\ Over(w, k) /\ UNCHANGED <<server, stuck, acts>>
  BY DEF RefreshFails, HearSignOut
<1>4. loading' \in [Tabs -> BOOLEAN]
  BY <1>1 DEF RefreshFails, HearSignOut, TypeOK
<1>5. /\ user' \in [Tabs -> CurrentUser \cup {None}] /\ at' \in [Tabs -> Pages]
      /\ user'[w] = None /\ \A v \in Tabs \ {w} : user'[v] = user[v]
  BY <1>1, <1>2, ShowFacts
<1>6. /\ sent' \in [Tabs -> Requests] /\ sent'[w][k] = Idle
      /\ \A j \in Kinds \ {k} : sent'[w][j] = sent[w][j]
      /\ \A v \in Tabs \ {w} : sent'[v] = sent[v]
  BY <1>1, <1>3, OverFacts, SentType DEF Requests
<1> QED
  BY <1>1, <1>3, <1>4, <1>5, <1>6, SetTokenKeeps

LEMMA NextKeeps == Sound /\ [Next]_vars => Sound'
<1> SUFFICES ASSUME Sound, [Next]_vars PROVE Sound'
  OBVIOUS
<1>1. CASE Acting
  BY <1>1, ActingKeeps
<1>2. ASSUME NEW w \in Tabs, Answering(w) PROVE Sound'
  <2>1. "login" \in Kinds
    BY DEF Kinds
  <2> QED
    BY <1>2, <2>1, ServeLoginKeeps, HearLoginKeeps, HearProfileKeeps, RejectedKeeps, HearReadKeeps,
       RequestFailsKeeps, SignedOutKeeps, ServeKeeps, HearUserKeeps DEF Answering
<1>3. CASE Losing
  BY <1>3, RequestFailsKeeps, SignedOutKeeps DEF Losing
<1>4. CASE UNCHANGED vars
  BY <1>4 DEF vars, server, history, Sound, TypeOK, TokensOK, TabOK, RequestOK, Busy, Issued
<1> QED
  BY <1>1, <1>2, <1>3, <1>4 DEF Next

-----------------------------------------------------------------------------
(* The theorems.                                                           *)

LEMMA Invariance == Spec => []Sound
<1> QED
  BY InitSound, NextKeeps, PTL DEF Spec

\* The server's sessions and the tabs' state keep their types: the sessions
\* accepted are of accounts that exist, and a tab is on one of the pages.
THEOREM SessionTypes == Spec => []TypeOK
<1>1. Sound => TypeOK
  BY DEF Sound
<1> QED
  BY <1>1, Invariance, PTL

\* However many tabs share the stored token, a tab that shows a user sends
\* its requests for that user, until the token changes under it.
THEOREM ActsAsShownAlways == Spec => []ActsAsShown
<1>1. ASSUME Sound, NEW w \in Tabs, SignedIn(w), ~SigningIn(w), ~crossed[w]
      PROVE  stored # None /\ owner[stored] = user[w].account
  <2>1. TabOK(w)
    BY <1>1 DEF Sound
  <2> QED
    BY <1>1, <2>1 DEF TabOK, SignedIn, SigningIn
<1>2. Sound => ActsAsShown
  BY <1>1 DEF ActsAsShown
<1> QED
  BY <1>2, Invariance, PTL

\* A tab that was told 401 by request() and stayed on a signed-in page is one
\* under which the token changed; of the download's 401 nothing is claimed.
THEOREM RejectedGivesWayAlways == Spec => []RejectedGivesWay
<1>1. Sound => RejectedGivesWay
  BY DEF Sound, TabOK, RejectedGivesWay
<1> QED
  BY <1>1, Invariance, PTL
==============================================================================

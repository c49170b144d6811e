------------------------------- MODULE Session -------------------------------
(***************************************************************************)
(* Who is signed in: the tabs of one browser, which share the stored token *)
(* and each keep a user of their own, and the sessions the server accepts.  *)
(* The pages behind the layout are one page, "app"; the settings' forms    *)
(* are on it.  Form contents are left out: "profile" names the account.    *)
(***************************************************************************)
EXTENDS Naturals

CONSTANTS
    Tabs, Accounts,
    MaxTokens,      \* bound: tokens issued
    MaxActs,        \* bound: what users do, here and elsewhere
    None

ASSUME SessionAssumption ==
    /\ MaxActs \in Nat
    /\ MaxTokens \in Nat \ {0}
    /\ Accounts # {}
    /\ None \notin Accounts \cup Nat

VARIABLES
    \* the server
    owner,          \* the account a token was issued to
    live,           \* the rows of accesstoken
    known, named,   \* the accounts that exist, those with a first_name
    \* the browser
    stored,         \* localStorage's token
    at,             \* each tab's page
    user,           \* each tab's user: what /users/me last said
    loading,
    sent,           \* each tab's requests
    \* history
    crossed,        \* the token changed while a tab was not looking
    stuck,          \* requests a tab was told 401 for, and stayed where it was
    acts

server == <<owner, live, known, named>>
history == <<crossed, stuck>>
vars == <<server, stored, at, user, loading, sent, history, acts>>

Tokens == 1..MaxTokens
Pages == {"login", "callback", "complete-profile", "app"}
Public == {"login", "callback"}
CurrentUser == [account : Accounts, named : BOOLEAN]

\* "start" and "me" read /users/me, when the tab opens and after a sign-in;
\* "export" is the CSV download, which alone does not go through request();
\* "read" is any other request of a page.
Kinds == {"start", "login", "me", "profile", "password", "logout", "delete", "read", "export"}
Anonymous == {"login"}
Idle == [at |-> "idle", token |-> None, user |-> None, page |-> None]

TypeOK ==
    /\ owner \in [Tokens -> Accounts \cup {None}]
    /\ live \subseteq Tokens /\ named \subseteq known /\ known \subseteq Accounts
    /\ stored \in Tokens \cup {None}
    /\ at \in [Tabs -> Pages]
    /\ user \in [Tabs -> CurrentUser \cup {None}]
    /\ loading \in [Tabs -> BOOLEAN]
    /\ sent \in [Tabs -> [Kinds -> [at : {"idle", "sent", "done", "refused"},
                                    token : Tokens \cup {None}, user : CurrentUser \cup {None},
                                    page : Pages \cup {None}]]]
    /\ crossed \in [Tabs -> BOOLEAN] /\ stuck \in [Tabs -> SUBSET Kinds]
    /\ acts \in 0..MaxActs

Busy(w, k) == sent[w][k].at # "idle"
BusyBut(w, k) == \E other \in Kinds \ {k} : Busy(w, other)
SigningIn(w) == Busy(w, "login") \/ Busy(w, "me")

\* What the server knows of a token, if it takes it at all.
Accepted(t) == t \in live
UserOf(t, n) == [account |-> owner[t], named |-> owner[t] \in n]

\* Tokens are random: numbered here in the order they are issued.
Fresh(t) == owner[t] = None /\ \A s \in 1..t - 1 : owner[s] # None

\* Where ProtectedRoute lets a tab be.
Route(p, u) ==
    IF p \in Public THEN p
    ELSE IF u = None THEN "login"
    ELSE IF ~u.named THEN "complete-profile"
    ELSE p

\* A tab is on a protected page, drawn for its user.
SignedIn(w) == ~loading[w] /\ user[w] # None /\ at[w] \notin Public
InApp(w) == SignedIn(w) /\ at[w] = "app"

\* Where a sign-in takes its tab: from the login page, where ProtectedRoute
\* found nobody.
Landing(w, k) ==
    IF k # "me" THEN {at[w]} ELSE IF at[w] = "login" THEN {"app", "complete-profile"} ELSE {"app"}

Act == acts < MaxActs /\ acts' = acts + 1

-----------------------------------------------------------------------------
(* The pieces of the actions.                                              *)

\* A tab shows another user or page; navigation goes through ProtectedRoute.
Show(w, p, u) ==
    /\ user' = [user EXCEPT ![w] = u]
    /\ at' = [at EXCEPT ![w] = Route(p, u)]

\* setToken() and clearToken(), in the middle of tab w's request k: other
\* tabs, and tab w's other requests, were started under another token.
SetToken(w, k, t) ==
    /\ stored' = t
    /\ crossed' = [v \in Tabs |-> crossed[v] \/ (t # stored /\ (v # w \/ BusyBut(w, k)))]

\* A page load: the tab forgets everything and asks who is signed in.  On a
\* protected page nothing is routed before the answer.
Load(w, p, t, asked) ==
    /\ stored' = t
    /\ crossed' = [v \in Tabs |-> v # w /\ (crossed[v] \/ t # stored)]
    /\ stuck' = [stuck EXCEPT ![w] = {}]
    /\ user' = [user EXCEPT ![w] = None]
    /\ loading' = [loading EXCEPT ![w] = t # None]
    /\ at' = [at EXCEPT ![w] = IF t = None THEN Route(p, None) ELSE p]
    /\ sent' = [sent EXCEPT ![w] = [k \in Kinds |->
                  IF t # None /\ k \in asked THEN [Idle EXCEPT !.at = "sent", !.token = t] ELSE Idle]]

\* The header is built when the request is.
Send(w, k, u) ==
    sent' = [sent EXCEPT ![w][k] = [at |-> "sent", token |-> IF k \in Anonymous THEN None ELSE stored,
                                    user |-> u, page |-> at[w]]]

Answer(w, k, u) == sent' = [sent EXCEPT ![w][k].at = "done", ![w][k].user = u]
Over(w, k) == sent' = [sent EXCEPT ![w][k] = Idle]

-----------------------------------------------------------------------------
(* What the user does.                                                     *)

Open(w, p) ==
    /\ Act
    /\ Load(w, p, stored, {"start"})
    /\ UNCHANGED server

\* GitHub sends the browser back with a token, or without one: a message.
OpenCallback(w) ==
    /\ Act
    /\ \/ \E a \in Accounts, t \in Tokens :
            /\ Fresh(t) /\ a \in known
            /\ owner' = [owner EXCEPT ![t] = a] /\ live' = live \cup {t}
            /\ Load(w, "callback", t, {"start", "me"})
       \/ Load(w, "callback", stored, {"start"}) /\ UNCHANGED <<owner, live>>
    /\ UNCHANGED <<known, named>>

\* A link, or the browser's history.
GoTo(w, p) ==
    /\ p # at[w] /\ p # "callback"
    /\ ~loading[w] \/ p = "login"
    /\ Act
    /\ Show(w, p, user[w])
    /\ UNCHANGED <<server, stored, loading, sent, history>>

SignIn(w, a) ==
    /\ at[w] = "login" /\ ~SigningIn(w)
    /\ Act
    /\ Send(w, "login", [account |-> a, named |-> a \in named])
    /\ UNCHANGED <<server, stored, at, user, loading, history>>

\* The forms and buttons of the pages of a signed-in user.
Use(w, k) ==
    /\ k \in Kinds \ {"start", "login", "me"} /\ ~Busy(w, k)
    /\ IF k \in {"profile", "read"} THEN SignedIn(w) ELSE InApp(w)
    /\ Act
    /\ Send(w, k, user[w])
    /\ UNCHANGED <<server, stored, at, user, loading, history>>

\* A password is changed or an account deleted in another browser, or its
\* sessions expire.
EndSessions(a) ==
    /\ Act
    /\ live' = {t \in live : owner[t] # a}
    /\ UNCHANGED <<owner, known, named, stored, at, user, loading, sent, history>>

-----------------------------------------------------------------------------
(* What the server does.                                                   *)

\* The password is right: a new token.
ServeLogin(w) ==
    /\ sent[w]["login"].at = "sent" /\ sent[w]["login"].user.account \in known
    /\ \E t \in Tokens :
         /\ Fresh(t)
         /\ owner' = [owner EXCEPT ![t] = sent[w]["login"].user.account]
         /\ live' = live \cup {t}
         /\ sent' = [sent EXCEPT ![w]["login"].at = "done", ![w]["login"].token = t]
    /\ UNCHANGED <<known, named, stored, at, user, loading, history, acts>>

Serve(w, k) ==
    /\ k # "login" /\ sent[w][k].at = "sent"
    /\ LET t == sent[w][k].token
           a == owner[t]
       IN  IF ~Accepted(t)
           THEN /\ sent' = [sent EXCEPT ![w][k].at = "refused"]
                /\ UNCHANGED server
           ELSE /\ known' = IF k = "delete" THEN known \ {a} ELSE known
                /\ named' = CASE k \in {"profile", "password"} -> named \cup {a}
                              [] k = "delete" -> named \ {a}
                              [] OTHER -> named
                /\ live' = CASE k = "logout" -> live \ {t}
                             [] k \in {"password", "delete"} -> {s \in live : owner[s] # a}
                             [] OTHER -> live
                /\ Answer(w, k, UserOf(t, named'))
                /\ UNCHANGED owner
    /\ UNCHANGED <<stored, at, user, loading, history, acts>>

-----------------------------------------------------------------------------
(* What the tab does with an answer.                                       *)

\* Mutant: only the check of who is signed in minds a 401.
RejectedStart(w, k) ==
    /\ sent[w][k].at = "refused" /\ stored # None
    /\ IF k = "read"
       THEN /\ stuck' = [stuck EXCEPT ![w] = @ \cup {k}] /\ Over(w, k)
            /\ UNCHANGED <<stored, crossed, user, loading, at>>
       ELSE Load(w, "login", None, {})
    /\ UNCHANGED <<server, acts>>

\* request(): a 401 drops the token and loads the login page; with no token
\* stored, or for a download, it is an error like any other.
Rejected(w, k) ==
    /\ k # "export" /\ sent[w][k].at = "refused" /\ stored # None
    /\ Load(w, "login", None, {})
    /\ UNCHANGED <<server, acts>>

\* loginWithPassword(): the token is stored, then read back who that is.
HearLogin(w) ==
    /\ sent[w]["login"].at = "done"
    /\ LET t == sent[w]["login"].token
       IN  /\ SetToken(w, "login", t)
           /\ sent' = [sent EXCEPT ![w]["login"] = Idle,
                                   ![w]["me"] = [Idle EXCEPT !.at = "sent", !.token = t]]
    /\ UNCHANGED <<server, at, user, loading, stuck, acts>>

\* Mutant: the tab's first answer does not end its loading.
HearUserLoading(w, k) ==
    /\ k \in {"start", "me"} /\ sent[w][k].at = "done"
    /\ \E p \in Landing(w, k) : Show(w, p, sent[w][k].user)
    /\ Over(w, k)
    /\ UNCHANGED <<server, stored, loading, history, acts>>

\* refreshUser(), and the sign-in's navigation.
HearUser(w, k) ==
    /\ k \in {"start", "me"} /\ sent[w][k].at = "done"
    /\ \E p \in Landing(w, k) : Show(w, p, sent[w][k].user)
    /\ loading' = [loading EXCEPT ![w] = loading[w] /\ k # "start"]
    /\ Over(w, k)
    /\ UNCHANGED <<server, stored, history, acts>>

HearProfile(w) ==
    /\ sent[w]["profile"].at = "done"
    /\ Show(w, IF sent[w]["profile"].page = "complete-profile" THEN "app" ELSE at[w], sent[w]["profile"].user)
    /\ Over(w, "profile")
    /\ UNCHANGED <<server, stored, loading, history, acts>>

HearPassword(w) ==
    /\ sent[w]["password"].at = "done"
    /\ Load(w, "login", None, {})
    /\ UNCHANGED <<server, acts>>

\* logout() clears the token whatever came back, deleteAccount() on success.
SignedOut(w, k) ==
    \/ sent[w][k].at = "done"
    \/ k = "logout" /\ (sent[w][k].at = "sent" \/ (sent[w][k].at = "refused" /\ stored = None))

HearSignOut(w, k) ==
    /\ k \in {"logout", "delete"} /\ SignedOut(w, k)
    /\ SetToken(w, k, None)
    /\ Show(w, "login", None)
    /\ Over(w, k)
    /\ UNCHANGED <<server, loading, stuck, acts>>

HearRead(w, k) ==
    /\ k \in {"read", "export"} /\ sent[w][k].at = "done"
    /\ Over(w, k)
    /\ UNCHANGED <<server, stored, at, user, loading, history, acts>>

\* A request got no usable answer, before or after the server did its part;
\* or a 401 that request() does not see, or sees when no token is stored any more.
Failing(w, k) ==
    \/ sent[w][k].at \in {"sent", "done"}
    \/ sent[w][k].at = "refused" /\ (stored = None \/ k = "export")

\* Mutant: the error drops the token and leaves the user.
RefreshFailsShowing(w, k) ==
    /\ k \in {"start", "me"} /\ Failing(w, k)
    /\ SetToken(w, k, None)
    /\ Show(w, IF k = "me" THEN "app" ELSE at[w], user[w])
    /\ loading' = [loading EXCEPT ![w] = loading[w] /\ k # "start"]
    /\ Over(w, k)
    /\ UNCHANGED <<server, stuck, acts>>

\* refreshUser() drops the token on any error, then says nobody is in.
RefreshFails(w, k) ==
    /\ k \in {"start", "me"} /\ Failing(w, k)
    /\ SetToken(w, k, None)
    /\ Show(w, IF k = "me" THEN "app" ELSE at[w], None)
    /\ loading' = [loading EXCEPT ![w] = loading[w] /\ k # "start"]
    /\ Over(w, k)
    /\ UNCHANGED <<server, stuck, acts>>

RequestFails(w, k) ==
    /\ k \notin {"start", "me", "logout"} /\ Failing(w, k)
    /\ stuck' = [stuck EXCEPT ![w] = IF sent[w][k].at = "refused" THEN @ \cup {k} ELSE @]
    /\ Over(w, k)
    /\ UNCHANGED <<server, stored, at, user, loading, crossed, acts>>

-----------------------------------------------------------------------------

\* Nobody is signed in, or somebody is and has opened every tab.
Init ==
    LET first == CHOOSE a \in Accounts : TRUE
    IN  \E p \in {"login", "app"} :
        LET in == p = "app"
        IN  /\ owner = [t \in Tokens |-> IF in /\ t = 1 THEN first ELSE None]
            /\ live = IF in THEN {1} ELSE {}
            /\ known = Accounts /\ named = {first}
            /\ stored = IF in THEN 1 ELSE None
            /\ at = [w \in Tabs |-> p]
            /\ user = [w \in Tabs |-> IF in THEN [account |-> first, named |-> TRUE] ELSE None]
            /\ loading = [w \in Tabs |-> FALSE]
            /\ sent = [w \in Tabs |-> [k \in Kinds |-> Idle]]
            /\ crossed = [w \in Tabs |-> FALSE] /\ stuck = [w \in Tabs |-> {}]
            /\ acts = 0

Acting ==
    \/ \E w \in Tabs :
         \/ \E p \in Pages \ {"callback"} : Open(w, p) \/ GoTo(w, p)
         \/ OpenCallback(w)
         \/ \E a \in Accounts : SignIn(w, a)
         \/ \E k \in Kinds : Use(w, k)
    \/ \E a \in Accounts : EndSessions(a)

Answering(w) ==
    \/ ServeLogin(w) \/ HearLogin(w) \/ HearProfile(w) \/ HearPassword(w)
    \/ Busy(w, "login") /\ sent[w]["login"].user.account \notin known /\ RequestFails(w, "login")
    \/ \E k \in Kinds : sent[w][k].at = "refused" /\ (RefreshFails(w, k) \/ RequestFails(w, k))
    \/ \E k \in Kinds : \/ Serve(w, k) \/ Rejected(w, k)
                        \/ HearUser(w, k) \/ HearSignOut(w, k) \/ HearRead(w, k)

Losing == \E w \in Tabs, k \in Kinds : RefreshFails(w, k) \/ RequestFails(w, k)

Next == Acting \/ (\E w \in Tabs : Answering(w)) \/ Losing

\* The server goes on answering and the browser runs what awaits the answers.
Spec == Init /\ [][Next]_vars /\ WF_vars(\E w \in Tabs : Answering(w))

-----------------------------------------------------------------------------
\* A tab that shows a user acts for that user, as long as the stored token
\* has not changed under it: "AuthContext [...] is the single source of
\* truth for components" (client.ts), in one tab, one thing at a time.
ActsAsShown ==
    \A w \in Tabs : SignedIn(w) /\ ~SigningIn(w) /\ ~crossed[w] =>
        stored # None /\ owner[stored] = user[w].account

\* A signed-in page whose request() was rejected as unauthenticated gives way
\* to the login page, unless the token it was sent with is no longer stored.
RejectedGivesWay ==
    \A w \in Tabs : SignedIn(w) /\ stuck[w] \ {"export"} # {} => crossed[w]

\* When users leave it alone, every tab stops loading and every button comes
\* back, whoever answers first and whatever fails (the finally clauses).
TabsSettle == []<>\A w \in Tabs : ~loading[w] /\ \A k \in Kinds : ~Busy(w, k)
=============================================================================

------------------------ MODULE GitHubConnectionProofs ------------------------
(***************************************************************************)
(* A flow that no other one crossed comes back to its page, and a          *)
(* connection without an installation is never left lying: for any number  *)
(* of tabs, accounts and installations.                                    *)
(***************************************************************************)
EXTENDS GitHubConnection, TLAPS

(* Where the callback reads the page to return to: the URL carries it on   *)
(* the way to a route, the cookie on the way through GitHub.               *)
InUrl    == {"toLogin", "toInstall", "save"}
InCookie == {"authorize", "callback", "installing", "granted"}

OneFlow == \A t \in Tab, u \in Tab : tab[t].at \notin Idle /\ tab[u].at \notin Idle => t = u

WayHome(t) ==
  tab[t].home = t =>
    /\ tab[t].at \in InUrl => tab[t].ret = t
    /\ tab[t].at \in InCookie => cookie.ret = t
    /\ tab[t].at = "app" => tab[t].back = t

(* The values the steps of a flow rely on are there.                       *)
Carried(t) ==
  /\ tab[t].at \in {"callback", "save"} => tab[t].acct \in Account
  /\ tab[t].at = "granted" => tab[t].inst \in Installation

(* The tab that will complete the connection: its callback passed, or it   *)
(* is sent to install, or it is on GitHub or back from there and the       *)
(* cookie its callback looks for is its own, or is not there where none is *)
(* needed.                                                                 *)
Finishes(r, t, c) ==
  \/ r.at \in {"toInstall", "save"}
  \/ r.at \in {"installing", "granted"} /\ c.install = t
  \/ r.at \in {"authorize", "callback"} /\ c.auth = t
  \/ r.at = "callback" /\ r.state = Ours /\ c.auth = None

Completes(t) == Finishes(tab[t], t, cookie)

(* The state of a login is in the cookie until its callback is through.    *)
Owns(r, t) ==
  /\ r.at \in {"authorize", "callback", "save"}
  /\ r.at # "save" => r.state = t
  /\ r.at = "callback" => r.inst = None

Half == conn # None /\ conn.inst = None

IInv ==
  /\ TypeOK /\ faults \in Nat
  /\ \A t \in Tab : Carried(t)
  /\ ~mixed => OneFlow /\ \A t \in Tab : WayHome(t)
  /\ faults = 0 => \A t \in Tab : cookie.auth = t => Owns(tab[t], t)
  /\ Half /\ faults = 0 /\ ~refused => \E t \in Tab : Completes(t)

-----------------------------------------------------------------------------
(* A step of one tab.                                                      *)

LEMMA TabEffect ==
  ASSUME TypeOK, NEW t \in Tab, NEW r \in TabRecord, tab' = [tab EXCEPT ![t] = r]
  PROVE  /\ tab' \in [Tab -> TabRecord] /\ tab'[t] = r
         /\ \A u \in Tab \ {t} : tab'[u] = tab[u]
BY DEF TypeOK

(* It keeps the invariant when its own flow stays on the way home, when it *)
(* is the only flow or begins as one, and when it takes the connection to  *)
(* its installation or leaves that to the tab that was about to.           *)
LEMMA TabStep ==
  ASSUME IInv, NEW t \in Tab, NEW r \in TabRecord, tab' = [tab EXCEPT ![t] = r],
         TypeOK', faults' \in Nat,
         r.at \in {"callback", "save"} => r.acct \in Account,
         r.at = "granted" => r.inst \in Installation,
         ~mixed' => /\ ~mixed
                    /\ r.at \notin Idle \/ cookie' # cookie =>
                         tab[t].at \notin Idle \/ ~Overlaps(t)
                    /\ r.home = t =>
                         /\ r.at \in InUrl => r.ret = t
                         /\ r.at \in InCookie => cookie'.ret = t
                         /\ r.at = "app" => r.back = t,
         faults' = 0 => /\ faults = 0 /\ cookie'.auth \in {None, cookie.auth, t}
                        /\ cookie'.auth = t => Owns(r, t),
         Half' /\ faults' = 0 /\ ~refused' =>
           \/ Finishes(r, t, cookie')
           \/ /\ Half /\ ~refused
              /\ cookie'.install = cookie.install /\ cookie'.auth = cookie.auth
              /\ ~Completes(t) \/ \E u \in Tab \ {t} : Completes(u)
  PROVE  IInv'
<1>1. /\ tab' \in [Tab -> TabRecord] /\ tab'[t] = r
      /\ \A u \in Tab \ {t} : tab'[u] = tab[u]
  BY TabEffect DEF IInv
<1>2. \A u \in Tab : Carried(u)'
  BY <1>1 DEF IInv, Carried
<1>3. ~mixed' => OneFlow' /\ \A u \in Tab : WayHome(u)'
  <2> SUFFICES ASSUME ~mixed' PROVE OneFlow' /\ \A u \in Tab : WayHome(u)' OBVIOUS
  <2>1. OneFlow /\ \A u \in Tab : WayHome(u)
    BY DEF IInv
  <2>2. r.at \notin Idle \/ cookie' # cookie => \A u \in Tab \ {t} : tab[u].at \in Idle
    BY <2>1 DEF OneFlow, Overlaps
  <2>3. OneFlow'
    BY <1>1, <2>1, <2>2 DEF OneFlow
  <2>4. WayHome(t)'
    BY <1>1 DEF WayHome
  <2>5. ASSUME NEW u \in Tab \ {t} PROVE WayHome(u)'
    BY <1>1, <2>1, <2>2 DEF WayHome, InUrl, InCookie, Idle
  <2> QED BY <2>3, <2>4, <2>5
<1>4. faults' = 0 => \A u \in Tab : cookie'.auth = u => Owns(tab'[u], u)
  BY <1>1, GitHubAssumption DEF IInv
<1>5. Half' /\ faults' = 0 /\ ~refused' => \E u \in Tab : Completes(u)'
  <2> SUFFICES ASSUME Half', faults' = 0, ~refused' PROVE \E u \in Tab : Completes(u)'
    OBVIOUS
  <2>1. CASE Finishes(r, t, cookie')
    BY <1>1, <2>1 DEF Completes
  <2>2. CASE ~Finishes(r, t, cookie')
    <3>1. /\ Half /\ ~refused /\ faults = 0
          /\ cookie'.install = cookie.install /\ cookie'.auth = cookie.auth
          /\ ~Completes(t) \/ \E u \in Tab \ {t} : Completes(u)
      BY <2>2
    <3>2. PICK u \in Tab \ {t} : Completes(u)
      BY <3>1 DEF IInv
    <3> QED BY <1>1, <3>1, <3>2 DEF Completes, Finishes
  <2> QED BY <2>1, <2>2
<1> QED BY <1>2, <1>3, <1>4, <1>5 DEF IInv

-----------------------------------------------------------------------------
(* The steps.                                                              *)

LEMMA FreshType == Fresh \in TabRecord
BY DEF Fresh, TabRecord, At

(* A tab that no login sent to GitHub has not its state in the cookie.     *)
LEMMA NotOwner ==
  ASSUME IInv, faults = 0, NEW t \in Tab, tab[t].at \notin {"authorize", "callback", "save"}
  PROVE  cookie.auth # t
BY DEF IInv, Owns

(* A flow that fails, or comes home.                                       *)
LEMMA EndType ==
  ASSUME IInv, NEW t \in Tab, NEW page \in Tab \cup {None}
  PROVE  /\ \E r \in TabRecord : /\ r.at = "error" /\ r.home = None
                                /\ Failed(t) = [tab EXCEPT ![t] = r]
         /\ \E r \in TabRecord : /\ r.at = "app" /\ r.home = tab[t].home /\ r.back = page
                                /\ Home(t, page) = [tab EXCEPT ![t] = r]
<1> DEFINE e == [Fresh EXCEPT !.at = "error"]
           h == [Fresh EXCEPT !.home = tab[t].home, !.back = page]
<1>1. e \in TabRecord /\ e.at = "error" /\ e.home = None
  BY FreshType DEF Fresh, TabRecord, At
<1>2. h \in TabRecord /\ h.at = "app" /\ h.home = tab[t].home /\ h.back = page
  BY FreshType DEF Fresh, TabRecord, At, IInv, TypeOK
<1>3. Failed(t) = [tab EXCEPT ![t] = e] /\ Home(t, page) = [tab EXCEPT ![t] = h]
  BY DEF Failed, Home
<1> HIDE DEF e, h
<1> QED BY <1>1, <1>2, <1>3

(* A flow that fails because a call does.                                  *)
LEMMA FailStep ==
  ASSUME IInv, NEW t \in Tab, tab[t].at \notin Idle, Fault, tab' = Failed(t),
         UNCHANGED <<cookie, conn, installed, mixed, refused>>
  PROVE  IInv'
<1>1. PICK r \in TabRecord :
        r.at = "error" /\ r.home = None /\ tab' = [tab EXCEPT ![t] = r]
  BY EndType
<1>2. TypeOK'
  BY <1>1, TabEffect DEF IInv, TypeOK
<1>3. faults' \in Nat /\ faults' # 0
  BY DEF Fault, IInv
<1>4. r.home # t
  BY <1>1, GitHubAssumption
<1> QED BY <1>1, <1>2, <1>3, <1>4, TabStep DEF Idle

LEMMA StartStep == ASSUME IInv, NEW t \in Tab, Start(t) PROVE IInv'
<1>1. PICK at \in {"toLogin", "toInstall"} :
        tab' = [tab EXCEPT ![t] = [Fresh EXCEPT !.at = at, !.ret = t, !.home = t]]
  BY DEF Start
<1>2. /\ tab[t].at \in Idle /\ mixed' = (mixed \/ Overlaps(t))
      /\ UNCHANGED <<cookie, conn, installed, refused, faults>>
  BY DEF Start
<1> DEFINE r == [Fresh EXCEPT !.at = at, !.ret = t, !.home = t]
<1>3. r \in TabRecord /\ r.at = at /\ r.ret = t
  BY FreshType DEF Fresh, TabRecord, At
<1>4. tab' = [tab EXCEPT ![t] = r]
  BY <1>1
<1> HIDE DEF r
<1>5. TypeOK'
  BY <1>2, <1>3, <1>4, TabEffect DEF IInv, TypeOK
<1>6. ~Completes(t)
  BY <1>2 DEF Completes, Finishes, Idle
<1>7. faults = 0 => cookie.auth # t
  BY <1>2, NotOwner DEF Idle
<1> QED BY <1>2, <1>3, <1>4, <1>5, <1>6, <1>7, TabStep DEF IInv, InUrl, InCookie, Half

LEMMA LoginStep == ASSUME IInv, NEW t \in Tab, Login(t) PROVE IInv'
<1>1. tab[t].at = "toLogin" /\ UNCHANGED <<conn, installed, mixed, refused>>
  BY DEF Login
<1>2. CASE SignedOut(t)
  BY <1>1, <1>2, FailStep DEF SignedOut, Idle
<1>3. CASE /\ cookie' = [cookie EXCEPT !.auth = t, !.ret = tab[t].ret] /\ UNCHANGED faults
           /\ tab' = [tab EXCEPT ![t].at = "authorize", ![t].state = t]
  <2> DEFINE r == [tab[t] EXCEPT !.at = "authorize", !.state = t]
  <2>1. r \in TabRecord /\ r.at = "authorize" /\ r.home = tab[t].home /\ r.state = t
    BY DEF IInv, TypeOK, TabRecord, At
  <2>2. tab' = [tab EXCEPT ![t] = r]
    BY <1>3
  <2> HIDE DEF r
  <2>3. /\ cookie'.ret = tab[t].ret /\ cookie'.auth = t
        /\ cookie' \in [auth : Tab \cup {None}, install : Tab \cup {None}, ret : Tab \cup {None}]
    BY <1>3 DEF IInv, TypeOK, TabRecord
  <2>4. TypeOK'
    BY <1>1, <1>3, <2>1, <2>2, <2>3, TabEffect DEF IInv, TypeOK
  <2>5. ~mixed /\ r.home = t => cookie'.ret = t
    BY <1>1, <2>1, <2>3 DEF IInv, WayHome, InUrl
  <2>6. Finishes(r, t, cookie') /\ Owns(r, t)
    BY <2>1, <2>3 DEF Finishes, Owns
  <2> QED BY <1>1, <1>3, <2>1, <2>2, <2>3, <2>4, <2>5, <2>6, TabStep
         DEF IInv, InUrl, InCookie, Half, Idle
<1> QED BY <1>2, <1>3 DEF Login

LEMMA InstallStep == ASSUME IInv, NEW t \in Tab, Install(t) PROVE IInv'
<1>1. tab[t].at = "toInstall" /\ UNCHANGED <<conn, installed, mixed, refused>>
  BY DEF Install
<1>2. CASE SignedOut(t)
  BY <1>1, <1>2, FailStep DEF SignedOut, Idle
<1>3. CASE /\ cookie' = [cookie EXCEPT !.install = t, !.ret = tab[t].ret] /\ UNCHANGED faults
           /\ tab' = [tab EXCEPT ![t].at = "installing", ![t].state = t]
  <2> DEFINE r == [tab[t] EXCEPT !.at = "installing", !.state = t]
  <2>1. r \in TabRecord /\ r.at = "installing" /\ r.home = tab[t].home
    BY DEF IInv, TypeOK, TabRecord, At
  <2>2. tab' = [tab EXCEPT ![t] = r]
    BY <1>3
  <2> HIDE DEF r
  <2>3. /\ cookie'.ret = tab[t].ret /\ cookie'.install = t /\ cookie'.auth = cookie.auth
        /\ cookie' \in [auth : Tab \cup {None}, install : Tab \cup {None}, ret : Tab \cup {None}]
    BY <1>3 DEF IInv, TypeOK, TabRecord
  <2>4. TypeOK'
    BY <1>1, <1>3, <2>1, <2>2, <2>3, TabEffect DEF IInv, TypeOK
  <2>5. ~mixed /\ r.home = t => cookie'.ret = t
    BY <1>1, <2>1, <2>3 DEF IInv, WayHome, InUrl
  <2>6. Finishes(r, t, cookie') /\ (faults = 0 => cookie.auth # t)
    BY <1>1, <2>1, <2>3, NotOwner DEF Finishes
  <2> QED BY <1>1, <1>3, <2>1, <2>2, <2>3, <2>4, <2>5, <2>6, TabStep
         DEF IInv, InUrl, InCookie, Half, Idle
<1> QED BY <1>2, <1>3 DEF Install

(* On GitHub nothing of ours changes but where the tab is.                 *)
LEMMA AuthorizeStep == ASSUME IInv, NEW t \in Tab, Authorize(t) PROVE IInv'
<1>1. /\ tab[t].at = "authorize"
      /\ UNCHANGED <<cookie, conn, installed, mixed, refused, acts, faults>>
  BY DEF Authorize
<1>2. PICK a \in Account :
        tab' = [tab EXCEPT ![t].at = "callback", ![t].acct = a, ![t].inst = None]
  BY DEF Authorize
<1> DEFINE r == [tab[t] EXCEPT !.at = "callback", !.acct = a, !.inst = None]
<1>3. r \in TabRecord /\ r.at = "callback" /\ r.acct = a /\ r.home = tab[t].home
      /\ r.state = tab[t].state /\ r.inst = None
  BY DEF IInv, TypeOK, TabRecord, At
<1>4. tab' = [tab EXCEPT ![t] = r]
  BY <1>2
<1> HIDE DEF r
<1>5. TypeOK'
  BY <1>1, <1>3, <1>4, TabEffect DEF IInv, TypeOK
<1>6. /\ Completes(t) => Finishes(r, t, cookie)
      /\ faults = 0 /\ cookie.auth = t => Owns(r, t)
  BY <1>1, <1>3 DEF Completes, Finishes, IInv, Owns
<1>7. ~mixed /\ r.home = t => cookie'.ret = t
  BY <1>1, <1>3 DEF IInv, WayHome, InCookie
<1> QED BY <1>1, <1>3, <1>4, <1>5, <1>6, <1>7, TabStep DEF IInv, InUrl, InCookie, Half, Idle

LEMMA GrantStep == ASSUME IInv, NEW t \in Tab, Grant(t) PROVE IInv'
<1>1. tab[t].at = "installing" /\ UNCHANGED <<cookie, conn, mixed, refused, acts, faults>>
  BY DEF Grant
<1>2. PICK a \in Account, i \in Installation :
        /\ installed' = installed \cup {i}
        /\ \/ tab' = [tab EXCEPT ![t].at = "granted", ![t].inst = i]
           \/ tab' = [tab EXCEPT ![t].at = "callback", ![t].state = Ours, ![t].acct = a,
                                 ![t].inst = i, ![t].new = (i \notin installed)]
  BY GitHubAssumption DEF Grant
<1> DEFINE g == [tab[t] EXCEPT !.at = "granted", !.inst = i]
           c == [tab[t] EXCEPT !.at = "callback", !.state = Ours, !.acct = a,
                               !.inst = i, !.new = (i \notin installed)]
<1>3. g \in TabRecord /\ g.at = "granted" /\ g.inst = i /\ g.home = tab[t].home
  BY DEF IInv, TypeOK, TabRecord, At
<1>4. c \in TabRecord /\ c.at = "callback" /\ c.acct = a /\ c.home = tab[t].home /\ c.state = Ours
  BY DEF IInv, TypeOK, TabRecord, At
<1>5. tab' = [tab EXCEPT ![t] = g] \/ tab' = [tab EXCEPT ![t] = c]
  BY <1>2
<1> HIDE DEF g, c
<1>6. PICK r \in TabRecord :
        /\ tab' = [tab EXCEPT ![t] = r] /\ r.home = tab[t].home
        /\ \/ r.at = "granted" /\ r.inst = i
           \/ r.at = "callback" /\ r.acct = a /\ r.state = Ours
  BY <1>3, <1>4, <1>5
<1>7. TypeOK'
  BY <1>1, <1>2, <1>6, TabEffect DEF IInv, TypeOK
<1>8. ~mixed /\ r.home = t => cookie'.ret = t
  BY <1>1, <1>6 DEF IInv, WayHome, InCookie
<1>9. faults = 0 => cookie.auth # t
  BY <1>1, NotOwner
<1>10. faults = 0 =>
         Finishes(r, t, cookie) \/ ~Completes(t) \/ \E u \in Tab \ {t} : Completes(u)
  <2> SUFFICES ASSUME faults = 0, Completes(t), ~Finishes(r, t, cookie)
               PROVE  \E u \in Tab \ {t} : Completes(u)
    OBVIOUS
  <2>1. r.at = "callback" /\ r.state = Ours /\ cookie.auth # None
    BY <1>1, <1>6 DEF Completes, Finishes
  <2>2. cookie.auth \in Tab \ {t}
    BY <1>9, <2>1 DEF IInv, TypeOK
  <2>3. Owns(tab[cookie.auth], cookie.auth)
    BY <2>2 DEF IInv
  <2>4. Completes(cookie.auth)
    BY <2>3 DEF Owns, Completes, Finishes
  <2> QED BY <2>2, <2>4
<1> QED BY <1>1, <1>6, <1>7, <1>8, <1>9, <1>10, TabStep DEF IInv, InUrl, InCookie, Half, Idle

LEMMA GrantDirectlyStep == ASSUME IInv, NEW t \in Tab, GrantDirectly(t) PROVE IInv'
<1>1. /\ tab[t].at \in Idle /\ mixed' = (mixed \/ Overlaps(t))
      /\ UNCHANGED <<cookie, conn, refused, faults>>
  BY DEF GrantDirectly
<1>2. PICK a \in Account, state \in {GitHub, None}, i \in Installation :
        /\ installed' = installed \cup {i}
        /\ tab' = [tab EXCEPT ![t] =
             [Fresh EXCEPT !.at = "callback", !.state = state, !.acct = a, !.inst = i,
                           !.new = (i \notin installed)]]
  BY GitHubAssumption DEF GrantDirectly
<1> DEFINE r == [Fresh EXCEPT !.at = "callback", !.state = state, !.acct = a, !.inst = i,
                              !.new = (i \notin installed)]
<1>3. r \in TabRecord /\ r.at = "callback" /\ r.acct = a /\ r.home = None
  BY FreshType DEF Fresh, TabRecord, At
<1>4. tab' = [tab EXCEPT ![t] = r]
  BY <1>2
<1> HIDE DEF r
<1>5. TypeOK'
  BY <1>1, <1>2, <1>3, <1>4, TabEffect DEF IInv, TypeOK
<1>6. ~Completes(t) /\ (faults = 0 => cookie.auth # t)
  BY <1>1, NotOwner DEF Completes, Finishes, Idle
<1>7. r.home # t
  BY <1>3, GitHubAssumption
<1> QED BY <1>1, <1>3, <1>4, <1>5, <1>6, <1>7, TabStep DEF IInv, Half

-----------------------------------------------------------------------------
(* The callbacks.                                                          *)

LEMMA CallbackStep == ASSUME IInv, NEW t \in Tab, Callback(t) PROVE IInv'
<1>1. /\ tab[t].at = "callback" /\ UNCHANGED <<cookie, conn, installed, mixed, acts>>
      /\ refused' = (refused \/ (OwnAlone(t) /\ tab'[t].at = "error"))
  BY DEF Callback
<1> DEFINE ok(f) == [tab[t] EXCEPT !.at = "save", !.found = f, !.ret = cookie.ret]
<1>2. \A f \in Installation \cup {None} :
        /\ ok(f) \in TabRecord /\ ok(f).at = "save" /\ ok(f).ret = cookie.ret
        /\ ok(f).acct = tab[t].acct /\ ok(f).home = tab[t].home
  BY DEF IInv, TypeOK, TabRecord, At
(* A login whose state is in the cookie passes.                            *)
<1>3. ASSUME faults = 0, cookie.auth = t
      PROVE  ValidCallback(t) /\ \A f \in Installation : Verified(t, f)
  <2>1. tab[t].state = t /\ tab[t].inst = None
    BY <1>1, <1>3 DEF IInv, Owns
  <2>2. t # None
    BY GitHubAssumption
  <2> QED BY <1>3, <2>1, <2>2 DEF ValidCallback, Verified
<1>4. /\ faults' \in Nat /\ (faults' = faults \/ faults' # 0)
      /\ \/ tab' = Failed(t) /\ (faults' = 0 => cookie.auth # t)
         \/ \E f \in Installation \cup {None} : tab' = [tab EXCEPT ![t] = ok(f)]
  <2>1. PICK first \in Visible(t) \cup {None} :
          LET yes == [tab EXCEPT ![t].at = "save", ![t].found = first, ![t].ret = cookie.ret]
              bad == Failed(t) IN
          \/ ~ValidCallback(t) /\ tab' = bad /\ UNCHANGED faults
          \/ /\ ValidCallback(t) /\ UNCHANGED faults
             /\ first = None => Visible(t) = {}
             /\ tab' = IF first = None \/ Verified(t, first) THEN yes ELSE bad
          \/ ValidCallback(t) /\ Fault /\ tab' \in {bad, [yes EXCEPT ![t].found = None]}
    BY DEF Callback
  <2>2. first \in Installation \cup {None}
    BY <2>1 DEF Visible, IInv, TypeOK
  <2>3. [tab EXCEPT ![t].at = "save", ![t].found = first, ![t].ret = cookie.ret]
          = [tab EXCEPT ![t] = ok(first)]
    OBVIOUS
  <2>4. [[tab EXCEPT ![t] = ok(first)] EXCEPT ![t].found = None] = [tab EXCEPT ![t] = ok(None)]
    BY DEF IInv, TypeOK, TabRecord
  <2> HIDE DEF ok
  <2> QED BY <1>3, <2>1, <2>2, <2>3, <2>4 DEF Fault, IInv
<1>5. PICK r \in TabRecord :
        /\ tab' = [tab EXCEPT ![t] = r]
        /\ \/ r.at = "error" /\ r.home = None /\ (faults' = 0 => cookie.auth # t)
           \/ /\ r.at = "save" /\ r.ret = cookie.ret
              /\ r.acct = tab[t].acct /\ r.home = tab[t].home
  <2>1. \E r \in TabRecord : /\ r.at = "error" /\ r.home = None
                            /\ Failed(t) = [tab EXCEPT ![t] = r]
    BY EndType
  <2> HIDE DEF ok
  <2> QED BY <1>2, <1>4, <2>1
<1>6. TypeOK'
  BY <1>1, <1>5, TabEffect DEF IInv, TypeOK
<1>7. tab[t].acct \in Account
  BY <1>1 DEF IInv, Carried
<1>8. /\ ~mixed /\ tab[t].home = t => cookie.ret = t
      /\ r.at = "error" => r.home # t
  BY <1>1, <1>5, GitHubAssumption DEF IInv, WayHome, InCookie
<1>9. tab'[t] = r
  BY <1>5, TabEffect DEF IInv
<1>10. /\ faults' = 0 /\ ~refused' => Finishes(r, t, cookie) \/ ~Completes(t)
       /\ faults' = 0 /\ cookie.auth = t => Owns(r, t)
       /\ ~refused' => ~refused
  BY <1>1, <1>5, <1>9 DEF Completes, Finishes, Owns, OwnAlone
<1> QED BY <1>1, <1>4, <1>5, <1>6, <1>7, <1>8, <1>10, TabStep DEF IInv, InUrl, InCookie, Half, Idle

LEMMA SaveStep == ASSUME IInv, NEW t \in Tab, Save(t) PROVE IInv'
<1>1. tab[t].at = "save" /\ UNCHANGED <<installed, mixed, refused, acts>>
  BY DEF Save
<1>2. tab[t].acct \in Account /\ tab[t] \in TabRecord
  BY <1>1 DEF IInv, Carried, TypeOK
<1>3. Upserted(t) \in [acct : Account, inst : Installation \cup {None}]
      /\ (tab[t].found # None => Upserted(t).inst # None)
  BY <1>2 DEF IInv, TypeOK, TabRecord, Upserted
<1>4. ~mixed /\ tab[t].home = t => tab[t].ret = t
  BY <1>1 DEF IInv, WayHome, InUrl
<1>5. CASE /\ conn' = Upserted(t) /\ UNCHANGED faults
           /\ cookie' = [cookie EXCEPT !.auth = None, !.ret = None]
           /\ tab' = IF tab[t].found # None
                     THEN Home(t, tab[t].ret)
                     ELSE [tab EXCEPT ![t].at = "toInstall"]
  <2>1. /\ cookie'.auth = None
        /\ cookie' \in [auth : Tab \cup {None}, install : Tab \cup {None}, ret : Tab \cup {None}]
    BY <1>5 DEF IInv, TypeOK
  <2> DEFINE on == [tab[t] EXCEPT !.at = "toInstall"]
  <2>2. tab[t].ret \in Tab \cup {None}
    BY <1>2 DEF TabRecord
  <2>3. on \in TabRecord /\ on.at = "toInstall" /\ on.ret = tab[t].ret
        /\ on.home = tab[t].home
    BY <1>2 DEF TabRecord, At
  <2>4. [tab EXCEPT ![t].at = "toInstall"] = [tab EXCEPT ![t] = on]
    OBVIOUS
  <2> HIDE DEF on
  <2>5. PICK r \in TabRecord :
          /\ tab' = [tab EXCEPT ![t] = r] /\ r.home = tab[t].home
          /\ \/ r.at = "app" /\ r.back = tab[t].ret /\ tab[t].found # None
             \/ r.at = "toInstall" /\ r.ret = tab[t].ret
    <3>1. \E r \in TabRecord : /\ r.at = "app" /\ r.home = tab[t].home /\ r.back = tab[t].ret
                              /\ Home(t, tab[t].ret) = [tab EXCEPT ![t] = r]
      BY <2>2, EndType
    <3> QED BY <1>5, <2>3, <2>4, <3>1
  <2>6. TypeOK'
    BY <1>1, <1>3, <1>5, <2>1, <2>5, TabEffect DEF IInv, TypeOK
  <2>7. /\ Half' => Finishes(r, t, cookie')
        /\ cookie'.auth # t
    BY <1>3, <1>5, <2>1, <2>5, GitHubAssumption DEF Half, Finishes
  <2>8. faults' \in Nat /\ faults' = faults /\ tab[t].at \notin Idle /\ mixed' = mixed
    BY <1>1, <1>5 DEF IInv, Idle
  <2>9. r.at \notin {"callback", "save", "granted"} /\ r.at \notin InCookie
        /\ (~mixed /\ r.home = t => r.ret = t \/ r.at = "app")
        /\ (~mixed /\ r.home = t /\ r.at = "app" => r.back = t)
    BY <1>4, <2>5 DEF InCookie
  <2> QED BY <2>1, <2>5, <2>6, <2>7, <2>8, <2>9, TabStep DEF InUrl
<1>6. CASE Fault /\ tab' = Failed(t) /\ UNCHANGED <<conn, cookie>>
  BY <1>1, <1>6, FailStep DEF Idle
<1> QED BY <1>5, <1>6 DEF Save

LEMMA InstallCallbackStep == ASSUME IInv, NEW t \in Tab, InstallCallback(t) PROVE IInv'
<1>1. tab[t].at = "granted" /\ UNCHANGED <<installed, mixed, refused, acts>>
  BY DEF InstallCallback
<1>2. tab[t].inst \in Installation /\ tab[t] \in TabRecord
  BY <1>1 DEF IInv, Carried, TypeOK
<1>3. ~mixed /\ tab[t].home = t => cookie.ret = t
  BY <1>1 DEF IInv, WayHome, InCookie
<1>4. CASE cookie.install # t /\ tab' = Failed(t) /\ UNCHANGED <<conn, cookie, faults>>
  <2>1. PICK r \in TabRecord :
          r.at = "error" /\ r.home = None /\ tab' = [tab EXCEPT ![t] = r]
    BY <1>4, EndType
  <2>2. TypeOK'
    BY <1>1, <1>4, <2>1, TabEffect DEF IInv, TypeOK
  <2>3. ~Completes(t) /\ r.home # t
    BY <1>1, <1>4, <2>1, GitHubAssumption DEF Completes, Finishes
  <2> QED BY <1>1, <1>4, <2>1, <2>2, <2>3, TabStep, NotOwner DEF IInv, Idle, Half
<1>7. CASE Fault /\ tab' = Failed(t) /\ UNCHANGED <<conn, cookie>>
  BY <1>1, <1>7, FailStep DEF Idle
<1>5. CASE /\ conn = None /\ tab' = [tab EXCEPT ![t].at = "toLogin", ![t].ret = cookie.ret]
           /\ UNCHANGED <<conn, cookie, faults>>
  <2> DEFINE r == [tab[t] EXCEPT !.at = "toLogin", !.ret = cookie.ret]
  <2>1. r \in TabRecord /\ r.at = "toLogin" /\ r.ret = cookie.ret /\ r.home = tab[t].home
    BY <1>2 DEF TabRecord, At, IInv, TypeOK
  <2>2. tab' = [tab EXCEPT ![t] = r]
    BY <1>5
  <2> HIDE DEF r
  <2>3. TypeOK'
    BY <1>1, <1>5, <2>1, <2>2, TabEffect DEF IInv, TypeOK
  <2> QED
    BY <1>1, <1>3, <1>5, <2>1, <2>2, <2>3, TabStep, NotOwner DEF IInv, InUrl, InCookie, Idle, Half
<1>6. CASE /\ conn # None /\ conn' = [conn EXCEPT !.inst = tab[t].inst]
           /\ tab' = Home(t, cookie.ret)
           /\ cookie' = [cookie EXCEPT !.install = None, !.ret = None]
           /\ UNCHANGED faults
  <2>1. cookie.ret \in Tab \cup {None}
    BY DEF IInv, TypeOK
  <2>2. PICK r \in TabRecord : /\ r.at = "app" /\ r.back = cookie.ret /\ r.home = tab[t].home
                             /\ tab' = [tab EXCEPT ![t] = r]
    <3>1. \E r \in TabRecord : /\ r.at = "app" /\ r.home = tab[t].home /\ r.back = cookie.ret
                              /\ Home(t, cookie.ret) = [tab EXCEPT ![t] = r]
      BY <2>1, EndType
    <3> QED BY <1>6, <3>1
  <2>3. conn' \in [acct : Account, inst : Installation \cup {None}] /\ conn'.inst # None
    BY <1>2, <1>6, GitHubAssumption DEF IInv, TypeOK
  <2>4. /\ cookie'.auth = cookie.auth
        /\ cookie' \in [auth : Tab \cup {None}, install : Tab \cup {None}, ret : Tab \cup {None}]
    BY <1>6 DEF IInv, TypeOK
  <2>5. TypeOK'
    BY <1>1, <1>6, <2>2, <2>3, <2>4, TabEffect DEF IInv, TypeOK
  <2>6. /\ faults' \in Nat /\ tab[t].at \notin Idle /\ mixed' = mixed /\ ~Half'
        /\ faults' = 0 => faults = 0 /\ cookie'.auth # t
    BY <1>1, <1>6, <2>3, <2>4, NotOwner DEF IInv, Idle, Half
  <2>7. ~mixed' /\ r.home = t => r.at \notin InUrl /\ r.at \notin InCookie /\ r.back = t
    BY <1>1, <1>3, <2>2 DEF InUrl, InCookie
  <2> QED BY <2>2, <2>4, <2>5, <2>6, <2>7, TabStep
<1> QED BY <1>4, <1>5, <1>6, <1>7 DEF InstallCallback

-----------------------------------------------------------------------------
(* What else happens to the cookies and to the connection.                 *)

LEMMA AbandonStep == ASSUME IInv, NEW t \in Tab, Abandon(t) PROVE IInv'
<1>1. /\ tab' = [tab EXCEPT ![t] = Fresh] /\ Fault
      /\ UNCHANGED <<cookie, conn, installed, mixed, refused, acts>>
  BY DEF Abandon
<1>2. Fresh \in TabRecord /\ Fresh.at = "app" /\ Fresh.home = None
  BY FreshType DEF Fresh
<1>3. TypeOK'
  BY <1>1, <1>2, TabEffect DEF IInv, TypeOK
<1>4. faults' \in Nat /\ faults' # 0
  BY <1>1 DEF Fault, IInv
<1>5. Fresh.home # t
  BY <1>2, GitHubAssumption
<1> QED BY <1>1, <1>2, <1>3, <1>4, <1>5, TabStep DEF Idle

LEMMA QuietStep ==
  ASSUME IInv,
         \/ \E t \in Tab : Disconnect(t)
         \/ \E i \in Installation : Uninstall(i)
         \/ Expire
  PROVE  IInv'
<1>1. /\ tab' = tab /\ refused' = refused /\ ((mixed' = mixed /\ cookie' = cookie) \/ mixed' = TRUE)
      /\ faults' \in Nat /\ (faults' # 0 \/ (faults' = faults /\ cookie' = cookie))
      /\ conn' = conn \/ conn' = None
  BY DEF Disconnect, Uninstall, Expire, Fault, IInv
<1>2. /\ cookie' \in [auth : Tab \cup {None}, install : Tab \cup {None}, ret : Tab \cup {None}]
      /\ installed' \subseteq Installation
  BY DEF Disconnect, Uninstall, Expire, IInv, TypeOK
<1>3. TypeOK'
  BY <1>1, <1>2 DEF IInv, TypeOK
<1>4. \A u \in Tab : Carried(u)'
  BY <1>1 DEF IInv, Carried
<1>5. ~mixed' => OneFlow' /\ \A u \in Tab : WayHome(u)'
  BY <1>1 DEF IInv, OneFlow, WayHome
<1>6. faults' = 0 => \A u \in Tab : cookie'.auth = u => Owns(tab'[u], u)
  BY <1>1 DEF IInv
<1>7. Half' /\ faults' = 0 /\ ~refused' => \E u \in Tab : Completes(u)'
  BY <1>1 DEF IInv, Half, Completes, Finishes
<1> QED BY <1>1, <1>3, <1>4, <1>5, <1>6, <1>7 DEF IInv

-----------------------------------------------------------------------------
(* Theorems.                                                               *)

LEMMA Invariance == Spec => []IInv
<1>1. Init => IInv
  <2> SUFFICES ASSUME Init PROVE IInv OBVIOUS
  <2>1. Fresh.at = "app" /\ Fresh.home = None
    BY DEF Fresh
  <2>2. TypeOK /\ faults \in Nat
    BY FreshType DEF Init, TypeOK
  <2>3. \A t \in Tab : tab[t].at = "app" /\ tab[t].home # t
    BY <2>1, GitHubAssumption DEF Init
  <2>4. \A t \in Tab : cookie.auth # t
    BY GitHubAssumption DEF Init
  <2> QED BY <2>2, <2>3, <2>4 DEF Init, IInv, Carried, OneFlow, WayHome, Half, Idle
<1>2. IInv /\ [Next]_vars => IInv'
  <2> SUFFICES ASSUME IInv, [Next]_vars PROVE IInv'
    OBVIOUS
  <2>1. CASE UNCHANGED vars
    BY <2>1 DEF vars, IInv, TypeOK, Carried, OneFlow, WayHome, Completes, Finishes, Half
  <2>2. ASSUME NEW t \in Tab, Goes(t) \/ Start(t) \/ GrantDirectly(t) \/ Abandon(t) PROVE IInv'
    BY <2>2, LoginStep, InstallStep, AuthorizeStep, GrantStep, CallbackStep, SaveStep,
       InstallCallbackStep, StartStep, GrantDirectlyStep, AbandonStep DEF Goes
  <2>3. ASSUME (\E t \in Tab : Disconnect(t)) \/ (\E i \in Installation : Uninstall(i)) \/ Expire
        PROVE  IInv'
    BY <2>3, QuietStep
  <2> QED BY <2>1, <2>2, <2>3 DEF Next
<1> QED BY <1>1, <1>2, PTL DEF Spec

(* Tabs, cookies and the connection have their types.                      *)
THEOREM TypeCorrect == Spec => []TypeOK
<1>1. IInv => TypeOK
  BY DEF IInv
<1> QED BY <1>1, Invariance, PTL

(* The page to return to survives the redirects between the login, install *)
(* and callback routes when no other flow is under way and no cookie       *)
(* expires, in whatever order OAuth and the installation come.             *)
THEOREM FlowsReturnHome == Spec => []ReturnsHome
<1>1. IInv => ReturnsHome
  BY DEF IInv, WayHome, ReturnsHome
<1> QED BY <1>1, Invariance, PTL

(* Flows of any number of tabs may take each other's cookies, and still    *)
(* one of them will complete a connection that has no installation, unless *)
(* a call fails or the OAuth callback refuses an installation (callback    *)
(* and install-callback routes).                                           *)
THEOREM HalfIsCompleted == Spec => []HalfIsUnderWay
<1>1. IInv => HalfIsUnderWay
  <2> SUFFICES ASSUME IInv, conn # None, faults = 0, ~refused, conn.inst = None
               PROVE  \E t \in Tab : tab[t].at \notin Idle
    BY DEF HalfIsUnderWay
  <2>1. PICK t \in Tab : Completes(t)
    BY DEF IInv, Half
  <2> QED BY <2>1 DEF Completes, Finishes, Idle
<1> QED BY <1>1, Invariance, PTL
=============================================================================

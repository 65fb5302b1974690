-------------------------- MODULE GitHubConnection --------------------------
(***************************************************************************)
(* How a user connects a GitHub account and an installation of the GitHub  *)
(* App: OAuth first, then the installation, each a redirect to GitHub and  *)
(* a callback that must find its own state in a cookie.  The tabs of a     *)
(* browser share the cookies.  A user may also install the App from        *)
(* GitHub's own pages and arrive at the OAuth callback directly; where the *)
(* App asks for consent as it is installed, an installation we began ends  *)
(* there too.                                                              *)
(*                                                                         *)
(* A fresh state is named after the tab that was redirected with it: a tab *)
(* is in one flow at a time.                                               *)
(***************************************************************************)
EXTENDS Naturals

CONSTANTS
  Tab,
  Account, Installation,  (* on GitHub                                     *)
  Access,                 (* the installations each account can see        *)
  MaxActs,                (* bound: what the user begins                   *)
  MaxFaults,              (* bound: failed calls, expired cookies and      *)
                          (* flows the user leaves on GitHub               *)
  GitHub, Ours,           (* what the OAuth callback gets as the state of  *)
                          (* an installation begun on GitHub, or by us     *)
  None

ASSUME GitHubAssumption ==
  /\ Access \in [Account -> SUBSET Installation]
  /\ MaxActs \in Nat /\ MaxFaults \in Nat
  /\ None \notin Tab \cup Installation \cup {GitHub, Ours} /\ {GitHub, Ours} \cap Tab = {}

VARIABLES
  tab,        (* per tab: where its flow is, what the URL carries, the     *)
              (* page it began on and the page it came back to             *)
  cookie,     (* github_auth_state, github_install_state, github_return_to *)
  conn,       (* the user's GitHubConnection row, or None                  *)
  installed,  (* installations that exist on GitHub                        *)
  mixed,      (* history: flows overlapped, or a cookie expired            *)
  refused,    (* history: the OAuth callback took no login for ours, and   *)
              (* refused an installation that we began                     *)
  acts, faults

vars == <<tab, cookie, conn, installed, mixed, refused, acts, faults>>

At == {"app", "toLogin", "authorize", "callback", "save", "toInstall", "installing",
       "granted", "error"}
Idle == {"app", "error"}

TabRecord == [at : At, state : Tab \cup {GitHub, Ours, None}, acct : Account \cup {None},
              inst : Installation \cup {None},  (* installation_id         *)
              new : BOOLEAN,                    (* setup_action is install *)
              found : Installation \cup {None}, (* resolvedInstallationId  *)
              ret : Tab \cup {None},            (* returnTo                *)
              home : Tab \cup {None}, back : Tab \cup {None}]

Fresh == [at |-> "app", state |-> None, acct |-> None, inst |-> None, new |-> FALSE, found |-> None,
          ret |-> None, home |-> None, back |-> None]

Init ==
  /\ tab = [t \in Tab |-> Fresh]
  /\ cookie = [auth |-> None, install |-> None, ret |-> None]
  /\ conn = None
  /\ installed \in SUBSET Installation
  /\ mixed = FALSE /\ refused = FALSE /\ acts = 0 /\ faults = 0

Acted == acts < MaxActs /\ acts' = acts + 1
Fault == faults < MaxFaults /\ faults' = faults + 1

(* A flow ends in an error, or on the page it returns to.                  *)
Failed(t) == [tab EXCEPT ![t] = [Fresh EXCEPT !.at = "error"]]
Home(t, page) == [tab EXCEPT ![t] = [Fresh EXCEPT !.home = tab[t].home, !.back = page]]

Overlaps(t) == \E u \in Tab \ {t} : tab[u].at \notin Idle

-----------------------------------------------------------------------------
(* Connect or Configure; a page may show the button of an older status.    *)
Start(t) ==
  /\ Acted /\ tab[t].at \in Idle
  /\ \E at \in {"toLogin", "toInstall"} :
       tab' = [tab EXCEPT ![t] = [Fresh EXCEPT !.at = at, !.ret = t, !.home = t]]
  /\ mixed' = (mixed \/ Overlaps(t))
  /\ UNCHANGED <<cookie, conn, installed, refused, faults>>

(* /api/github/login and /api/github/install, which want a session.        *)
SignedOut(t) == Fault /\ tab' = Failed(t) /\ UNCHANGED cookie

Login(t) ==
  /\ tab[t].at = "toLogin"
  /\ \/ /\ cookie' = [cookie EXCEPT !.auth = t, !.ret = tab[t].ret]
        /\ tab' = [tab EXCEPT ![t].at = "authorize", ![t].state = t]
        /\ UNCHANGED faults
     \/ SignedOut(t)
  /\ UNCHANGED <<conn, installed, mixed, refused, acts>>

Install(t) ==
  /\ tab[t].at = "toInstall"
  /\ \/ /\ cookie' = [cookie EXCEPT !.install = t, !.ret = tab[t].ret]
        /\ tab' = [tab EXCEPT ![t].at = "installing", ![t].state = t]
        /\ UNCHANGED faults
     \/ SignedOut(t)
  /\ UNCHANGED <<conn, installed, mixed, refused, acts>>

(* On GitHub: the user consents, installs, or installs without us.         *)
Authorize(t) ==
  /\ tab[t].at = "authorize"
  /\ \E a \in Account : tab' = [tab EXCEPT ![t].at = "callback", ![t].acct = a, ![t].inst = None]
  /\ UNCHANGED <<cookie, conn, installed, mixed, refused, acts, faults>>

Grant(t) ==
  /\ tab[t].at = "installing"
  /\ \E a \in Account : \E i \in Access[a] :
       /\ installed' = installed \cup {i}
       /\ \/ tab' = [tab EXCEPT ![t].at = "granted", ![t].inst = i]
          \/ tab' = [tab EXCEPT ![t].at = "callback", ![t].state = Ours, ![t].acct = a,
                                ![t].inst = i, ![t].new = (i \notin installed)]
  /\ UNCHANGED <<cookie, conn, mixed, refused, acts, faults>>

GrantDirectly(t) ==
  /\ Acted /\ tab[t].at \in Idle
  /\ \E a \in Account, state \in {GitHub, None} : \E i \in Access[a] :
       /\ installed' = installed \cup {i}
       /\ tab' = [tab EXCEPT ![t] =
            [Fresh EXCEPT !.at = "callback", !.state = state, !.acct = a, !.inst = i,
                          !.new = (i \notin installed)]]
  /\ mixed' = (mixed \/ Overlaps(t))
  /\ UNCHANGED <<cookie, conn, refused, faults>>

-----------------------------------------------------------------------------
(* /api/github/callback up to the lookup of installations.                 *)
IsDirectGitHubInstall(t) == tab[t].inst # None /\ tab[t].new /\ cookie.auth = None
ValidCallback(t) ==
  /\ tab[t].state # None
  /\ IsDirectGitHubInstall(t) \/ cookie.auth = tab[t].state

(* verifyInstallationId, given the first installation of our app.          *)
Verified(t, first) == tab[t].inst = None \/ tab[t].inst = first

OwnAlone(t) == tab[t].state = Ours /\ cookie.auth = None
Visible(t) == Access[tab[t].acct] \cap installed

Callback(t) ==
  /\ tab[t].at = "callback"
  /\ \E first \in Visible(t) \cup {None} :
       LET ok == [tab EXCEPT ![t].at = "save", ![t].found = first, ![t].ret = cookie.ret]
           no == Failed(t) IN
       \/ ~ValidCallback(t) /\ tab' = no /\ UNCHANGED faults
       \/ /\ ValidCallback(t) /\ UNCHANGED faults
          /\ first = None => Visible(t) = {}
          /\ tab' = IF first = None \/ Verified(t, first) THEN ok ELSE no
       \/ ValidCallback(t) /\ Fault /\ tab' \in {no, [ok EXCEPT ![t].found = None]}
  /\ refused' = (refused \/ (OwnAlone(t) /\ tab'[t].at = "error"))
  /\ UNCHANGED <<cookie, conn, installed, mixed, acts>>

(* The upsert keeps the installation of the row when it found none.        *)
Upserted(t) ==
  [acct |-> tab[t].acct,
   inst |-> IF tab[t].found # None THEN tab[t].found
            ELSE IF conn # None THEN conn.inst ELSE None]

SaveGoesHome(t) ==  \* mutant: back to the page, installed or not
  /\ tab[t].at = "save"
  /\ conn' = Upserted(t)
  /\ cookie' = [cookie EXCEPT !.auth = None, !.ret = None]
  /\ tab' = Home(t, tab[t].ret)
  /\ UNCHANGED <<installed, mixed, refused, acts, faults>>

SaveKeepsState(t) ==  \* mutant: the cookie is set to the state, not cleared
  /\ tab[t].at = "save"
  /\ conn' = Upserted(t)
  /\ cookie' = [cookie EXCEPT !.auth = tab[t].state, !.ret = None]
  /\ tab' = Home(t, tab[t].ret)
  /\ UNCHANGED <<installed, mixed, refused, acts, faults>>

Save(t) ==
  /\ tab[t].at = "save"
  /\ \/ /\ conn' = Upserted(t)
        /\ cookie' = [cookie EXCEPT !.auth = None, !.ret = None]
        /\ tab' = IF tab[t].found # None
                  THEN Home(t, tab[t].ret)
                  ELSE [tab EXCEPT ![t].at = "toInstall"]
        /\ UNCHANGED faults
     \/ Fault /\ tab' = Failed(t) /\ UNCHANGED <<conn, cookie>>
  /\ UNCHANGED <<installed, mixed, refused, acts>>

InstallCallbackLoses(t) ==  \* mutant: the way back to OAuth forgets the page
  /\ tab[t].at = "granted" /\ cookie.install = t
  /\ IF conn = None
     THEN /\ tab' = [tab EXCEPT ![t].at = "toLogin", ![t].ret = None]
          /\ UNCHANGED <<conn, cookie>>
     ELSE /\ conn' = [conn EXCEPT !.inst = tab[t].inst]
          /\ tab' = Home(t, cookie.ret)
          /\ cookie' = [cookie EXCEPT !.install = None, !.ret = None]
  /\ UNCHANGED <<installed, mixed, refused, acts, faults>>

InstallCallbackAgain(t) ==  \* mutant: OAuth first, connection or not
  /\ tab[t].at = "granted" /\ cookie.install = t
  /\ tab' = [tab EXCEPT ![t].at = "toLogin", ![t].ret = cookie.ret]
  /\ UNCHANGED <<conn, cookie, installed, mixed, refused, acts, faults>>

(* /api/github/install-callback: without a connection, OAuth comes first.  *)
InstallCallback(t) ==
  /\ tab[t].at = "granted"
  /\ \/ /\ cookie.install # t
        /\ tab' = Failed(t) /\ UNCHANGED <<conn, cookie, faults>>
     \/ /\ cookie.install = t /\ conn = None
        /\ tab' = [tab EXCEPT ![t].at = "toLogin", ![t].ret = cookie.ret]
        /\ UNCHANGED <<conn, cookie, faults>>
     \/ /\ cookie.install = t /\ conn # None
        /\ conn' = [conn EXCEPT !.inst = tab[t].inst]
        /\ tab' = Home(t, cookie.ret)
        /\ cookie' = [cookie EXCEPT !.install = None, !.ret = None]
        /\ UNCHANGED faults
     \/ Fault /\ tab' = Failed(t) /\ UNCHANGED <<conn, cookie>>
  /\ UNCHANGED <<installed, mixed, refused, acts>>

-----------------------------------------------------------------------------
(* /api/github/disconnect answers success whatever delete did.             *)
Disconnect(t) ==
  /\ Acted /\ tab[t].at \in Idle
  /\ \/ conn' = None /\ UNCHANGED faults
     \/ Fault /\ UNCHANGED conn
  /\ UNCHANGED <<tab, cookie, installed, mixed, refused>>

Uninstall(i) ==
  /\ Acted /\ i \in installed
  /\ installed' = installed \ {i}
  /\ UNCHANGED <<tab, cookie, conn, mixed, refused, faults>>

(* The cookies live for ten minutes.                                       *)
Expire ==
  /\ Fault
  /\ cookie' \in [auth : {cookie.auth, None}, install : {cookie.install, None},
                  ret : {cookie.ret, None}]
  /\ mixed' = TRUE
  /\ UNCHANGED <<tab, conn, installed, refused, acts>>

Abandon(t) ==
  /\ Fault /\ tab[t].at \in {"authorize", "installing"}
  /\ tab' = [tab EXCEPT ![t] = Fresh]
  /\ UNCHANGED <<cookie, conn, installed, mixed, refused, acts>>

Goes(t) ==
  \/ Login(t) \/ Install(t) \/ Authorize(t) \/ Grant(t)
  \/ Callback(t) \/ Save(t) \/ InstallCallback(t)

Next ==
  \/ \E t \in Tab : Goes(t) \/ Start(t) \/ GrantDirectly(t) \/ Disconnect(t) \/ Abandon(t)
  \/ \E i \in Installation : Uninstall(i)
  \/ Expire

Spec == Init /\ [][Next]_vars
(* The browser follows redirects and the user goes on, or away, on GitHub. *)
FairSpec == Spec /\ \A t \in Tab : WF_vars(Goes(t))

-----------------------------------------------------------------------------
TypeOK ==
  /\ tab \in [Tab -> TabRecord]
  /\ cookie \in [auth : Tab \cup {None}, install : Tab \cup {None}, ret : Tab \cup {None}]
  /\ conn = None \/ conn \in [acct : Account, inst : Installation \cup {None}]
  /\ installed \subseteq Installation /\ mixed \in BOOLEAN /\ refused \in BOOLEAN

(* Whatever the redirects between OAuth and installation, a flow that was  *)
(* not mixed with another one returns to the page it began on.             *)
ReturnsHome == ~mixed => \A t \in Tab : tab[t].home = t /\ tab[t].at = "app" => tab[t].back = t

(* When nothing failed or was refused, a connection that has no            *)
(* installation is one that some tab is about to complete: overlapping     *)
(* flows, which overwrite and clear each other's cookies, may end in an    *)
(* error but not all of them.                                              *)
HalfIsUnderWay ==
  conn # None /\ faults = 0 /\ ~refused => conn.inst # None \/ \E t \in Tab : tab[t].at \notin Idle

(* Every flow ends, though OAuth and installation redirect to each other.  *)
FlowEnds == \A t \in Tab : tab[t].at \in {"toLogin", "toInstall"} ~> tab[t].at \in Idle
=============================================================================

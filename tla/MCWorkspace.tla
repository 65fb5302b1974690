---------------------------- MODULE MCWorkspace ----------------------------
(***************************************************************************)
(* A small instance of what happens to one workspace behind the dashboard: *)
(* its projects and keys (AccessKeys), its members and invites             *)
(* (Membership), its plan at Stripe (Subscription) and the provider keys   *)
(* its chat sessions run with (AgentKeys).                                 *)
(*                                                                         *)
(* The four modules share no variable: what one of them needs from another *)
(* (a role, a block flag, a plan) changes there by an action of            *)
(* its own environment.  So TLC looks at one part at a time: part says     *)
(* which one, and the variables of the others stay Off.  Membership is     *)
(* instantiated four times over the same variables: "roles" is about who   *)
(* is an admin, "seats" about the seats of a plan, "full" about a          *)
(* workspace that has none left once it is FREE, "invites" about one       *)
(* invite and those who hold it.                                           *)
(***************************************************************************)
EXTENDS Naturals, FiniteSets, TLC

CONSTANTS
  Requests, FewRequests,             (* under way at the same time           *)
  Founders, Leaders, People,         (* users: fewer to more of them         *)
  Projects, ApiKeys, Names, FirstProject, FirstKey, FirstName,
  InviteIds, SeatLimit, BillingEnabled,
  StripeSubs,
  ChatSessions, Messages, KeyWrites, Upserts, EnvKey,
  KeyMoves, RoleMoves, PlanMoves, StripeMoves,   (* bounds of MaxChanges     *)
  MaxRows, MaxKeys, MaxFaults,                   (* bounds                   *)
  None, Off

VARIABLES
  part,
  workspace, project, key, role, blocked, call, past, changes,
  member, invite, free, request, seen, plans,
  ws, sub, events, stripe, req, faults, applied, raced,
  row, cache, agent, msg, write, outages, acked, missed

keyVars    == <<workspace, project, key, role, blocked, call, past, changes>>
memberVars == <<member, invite, free, request, seen, plans>>
planVars   == <<ws, sub, events, stripe, req, faults, applied, raced>>
chatVars   == <<row, cache, agent, msg, write, outages, acked, missed>>
vars       == <<part, keyVars, memberVars, planVars, chatVars>>

Keys == INSTANCE AccessKeys WITH
  Call <- Requests, User <- Founders, Project <- Projects, Key <- ApiKeys, Name <- Names,
  MaxChanges <- KeyMoves

(* Membership comes with its theorems, which hold in each of its parts.    *)
Roles == INSTANCE MembershipProofs WITH
  Call <- Requests, User <- Leaders, Admins <- Leaders, Invite <- InviteIds,
  Op <- {"setRole", "remove", "add"}, MaxChanges <- RoleMoves,
  call <- request, past <- seen, changes <- plans

Seats == INSTANCE MembershipProofs WITH
  Call <- FewRequests, User <- People, Admins <- Founders, Invite <- InviteIds,
  Op <- {"invite", "cancel", "accept"}, MaxChanges <- PlanMoves,
  call <- request, past <- seen, changes <- plans

Full == INSTANCE MembershipProofs WITH
  Call <- FewRequests, User <- People, Admins <- Leaders, Invite <- InviteIds,
  Op <- {"invite", "accept"}, MaxChanges <- PlanMoves,
  call <- request, past <- seen, changes <- plans

Invites == INSTANCE MembershipProofs WITH
  Call <- Requests, User <- Leaders, Admins <- Founders, Invite <- InviteIds,
  Op <- {"remove", "invite", "cancel", "accept"}, MaxChanges <- RoleMoves,
  call <- request, past <- seen, changes <- plans

Plans == INSTANCE Subscription WITH
  Req <- Requests, Sub <- StripeSubs, MaxChanges <- StripeMoves, changes <- stripe

Providers == INSTANCE AgentKeys WITH
  Session <- ChatSessions, Msg <- Messages, Write <- KeyWrites, faults <- outages

ASSUME WorkspaceAssumption ==
  /\ Keys!AccessKeysAssumption
  /\ Roles!MembershipAssumption
  /\ Seats!MembershipAssumption /\ Full!MembershipAssumption /\ Invites!MembershipAssumption
  /\ Plans!SubscriptionAssumption /\ Providers!AgentKeysAssumption

KeysOff ==
  /\ workspace = Off /\ project = Off /\ key = Off /\ role = Off
  /\ blocked = Off /\ call = Off /\ past = Off /\ changes = Off
MembersOff ==
  /\ member = Off /\ invite = Off /\ free = Off
  /\ request = Off /\ seen = Off /\ plans = Off
PlansOff ==
  /\ ws = Off /\ sub = Off /\ events = Off /\ stripe = Off
  /\ req = Off /\ faults = Off /\ applied = Off /\ raced = Off
ChatOff ==
  /\ row = Off /\ cache = Off /\ agent = Off /\ msg = Off
  /\ write = Off /\ outages = Off /\ acked = Off /\ missed = Off

Init ==
  \/ part = "keys"    /\ Keys!Init    /\ MembersOff /\ PlansOff   /\ ChatOff
  \/ part = "roles"   /\ Roles!Init   /\ KeysOff    /\ PlansOff   /\ ChatOff
  \/ part = "seats"   /\ Seats!Init   /\ KeysOff    /\ PlansOff   /\ ChatOff
  \/ part = "full"    /\ Full!Init    /\ KeysOff    /\ PlansOff   /\ ChatOff
  \/ part = "invites" /\ Invites!Init /\ KeysOff    /\ PlansOff   /\ ChatOff
  \/ part = "plan"    /\ Plans!Init   /\ KeysOff    /\ MembersOff /\ ChatOff
  \/ part = "providers" /\ Providers!Init /\ KeysOff /\ MembersOff /\ PlansOff

Next ==
  \/ part = "keys"    /\ Keys!Next    /\ UNCHANGED <<part, memberVars, planVars, chatVars>>
  \/ part = "roles"   /\ Roles!Next   /\ UNCHANGED <<part, keyVars, planVars, chatVars>>
  \/ part = "seats"   /\ Seats!Next   /\ UNCHANGED <<part, keyVars, planVars, chatVars>>
  \/ part = "full"    /\ Full!Next    /\ UNCHANGED <<part, keyVars, planVars, chatVars>>
  \/ part = "invites" /\ Invites!Next /\ UNCHANGED <<part, keyVars, planVars, chatVars>>
  \/ part = "plan"    /\ Plans!Next   /\ UNCHANGED <<part, keyVars, memberVars, chatVars>>
  \/ /\ part = "providers" /\ Providers!Next
     /\ UNCHANGED <<part, keyVars, memberVars, planVars>>

Spec == Init /\ [][Next]_vars

(* The arrival order of requests, messages and writes does not matter, nor *)
(* which subscription Stripe creates first, nor which session is which.    *)
(* Parts are apart, so that the same values may be requests in one and     *)
(* messages in another.                                                    *)
Symmetry ==
  Permutations(Requests) \cup Permutations(StripeSubs) \cup Permutations(ChatSessions)

-----------------------------------------------------------------------------
(* The properties are those of the part TLC looks at.                      *)

(* Every part keeps its types.                                             *)
TypeOK ==
  /\ part = "keys"    => Keys!TypeOK
  /\ part = "roles"   => Roles!TypeOK
  /\ part = "seats"   => Seats!TypeOK
  /\ part = "full"    => Full!TypeOK
  /\ part = "invites" => Invites!TypeOK
  /\ part = "plan"    => Plans!TypeOK
  /\ part = "providers" => Providers!TypeOK

(* Keys, block flags and roles are checked as they were during a request.  *)
AccessIsChecked == part = "keys" => Keys!AccessIsChecked

(* Two projects of one name, or a workspace without an admin, take two     *)
(* requests that overlapped: a check alone is not enough, but it is one.   *)
BreachNeedsOverlap ==
  (part = "keys" => Keys!TwinsNeedOverlap) /\ (part = "roles" => Roles!LastAdminNeedsOverlap)

(* No late write brings back a deleted project, a deleted key or a removed *)
(* member.                                                                 *)
GoneStaysGone ==
  [][/\ part = "keys"    => Keys!StaysDeleted
     /\ part = "roles"   => Roles!LetIn
     /\ part = "invites" => Invites!LetIn]_vars

(* Every invite and acceptance that succeeds found a free seat, and an     *)
(* invite lets one request in, while it is open.                           *)
InvitesAreChecked ==
  /\ part = "seats"   => Seats!SeatIsChecked
  /\ part = "full"    => Full!SeatIsChecked
  /\ part = "invites" => Invites!InviteIsSpentOnce

(* The plan follows Stripe, unless a write came out of order.              *)
DriftNeedsRace == part = "plan" => Plans!DriftNeedsRace

(* An old provider key outlives its successor only after a missed          *)
(* invalidation.                                                           *)
OldKeyNeedsMiss == part = "providers" => Providers!OldKeyNeedsMiss
=============================================================================

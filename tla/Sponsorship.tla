---------------------------- MODULE Sponsorship ----------------------------
(***************************************************************************)
(* The sponsorship contract: sponsors that announce a policy, and the      *)
(* allowances they grant to users.  Endpoints, allowed calls and limits    *)
(* are data to the contract; nothing here depends on them.                 *)
(***************************************************************************)
EXTENDS Chain

CONSTANTS
  Sponsors, Users,
  DailyOps, GrantExpiries,   \* what set_user_grant is given
  PolicyVersions             \* policy versions that sponsors name

ASSUME SponsorshipAssumption ==
  DailyOps \subseteq Nat /\ GrantExpiries \subseteq Nat /\ PolicyVersions \subseteq Nat

VARIABLES
  sponsors,   \* [sponsor]: sponsor_record
  grants      \* [sponsor, user]: user_grant
sponsorshipVars == <<sponsors, grants>>

SponsorType == [policy_version : PolicyVersions, active : BOOLEAN, registered_at : Nat]
GrantType == [daily_ops : DailyOps, expires_at : GrantExpiries, revoked : BOOLEAN]

ASSUME SponsorshipNoneAssumption == None \notin SponsorType /\ None \notin GrantType

SponsorshipInit ==
  /\ sponsors = [s \in Sponsors |-> None]
  /\ grants = [k \in Sponsors \X Users |-> None]

SponsorshipEvent(name, s, u, ops, expires_at, version, active) ==
  Emit([from |-> "sponsorship", name |-> name, at |-> "sponsorship", timestamp |-> now,
        sponsor |-> s, user |-> u, daily_ops |-> ops, expires_at |-> expires_at,
        policy_version |-> version, active |-> active])

-----------------------------------------------------------------------------
(* Also an existing record, which keeps its first date. *)
set_sponsor(s, version, active_) ==
  LET since == IF sponsors[s] = None THEN now ELSE sponsors[s].registered_at IN
  /\ sponsors' = [sponsors EXCEPT ![s] =
       [policy_version |-> version, active |-> active_, registered_at |-> since]]
  /\ SponsorshipEvent("sponsor_set", s, None, 0, 0, version, active_)
  /\ UNCHANGED <<now, grants>>

deactivate_sponsor(s) ==
  /\ sponsors[s] # None
  /\ sponsors' = [sponsors EXCEPT ![s].active = FALSE]
  /\ SponsorshipEvent("sponsor_deactivated", s, None, 0, 0, 0, FALSE)
  /\ UNCHANGED <<now, grants>>

(* Replaces the grant of that user, a revoked one too. *)
set_user_grant(s, u, ops, expires_at) ==
  /\ u # s
  /\ ops >= 1
  /\ expires_at = 0 \/ expires_at > now
  /\ sponsors[s] # None /\ sponsors[s].active
  /\ grants' = [grants EXCEPT ![<<s, u>>] =
       [daily_ops |-> ops, expires_at |-> expires_at, revoked |-> FALSE]]
  /\ SponsorshipEvent("user_grant_set", s, u, ops, expires_at, 0, FALSE)
  /\ UNCHANGED <<now, sponsors>>

(* Of an inactive sponsor too, and a second time. *)
revoke_user_grant(s, u) ==
  /\ grants[s, u] # None
  /\ grants' = [grants EXCEPT ![<<s, u>>].revoked = TRUE]
  /\ SponsorshipEvent("user_grant_revoked", s, u, 0, 0, 0, FALSE)
  /\ UNCHANGED <<now, sponsors>>

SponsorshipNext ==
  \E s \in Sponsors :
    \/ \E v \in PolicyVersions, b \in BOOLEAN : set_sponsor(s, v, b)
    \/ deactivate_sponsor(s)
    \/ \E u \in Users :
         \/ \E ops \in DailyOps, e \in GrantExpiries : set_user_grant(s, u, ops, e)
         \/ revoke_user_grant(s, u)
=============================================================================

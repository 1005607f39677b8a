-------------------------------- MODULE Staff --------------------------------
(***************************************************************************)
(* Who may use the console (src/features/admin/staff and the setup of      *)
(* src/features/admin/auth): the first account, invitations, their         *)
(* acceptance, and what an administrator decides about a colleague later.  *)
(*                                                                         *)
(* Every call is a chain of awaited reads and writes; a step ends at one,  *)
(* calls interleave between their steps, and a call may die at one.  What  *)
(* a colleague is granted (tier, groups and scopes) is a number, one for   *)
(* each time an administrator decides it; whether the actor may grant it   *)
(* is a choice, and a call that is refused without writing is not a step.  *)
(***************************************************************************)
EXTENDS Integers, FiniteSets, FiniteSetsExt

CONSTANTS
    Owner,       \* the account of the setup, the one super admin there is
    Colleagues,  \* addresses that may be invited
    NInvites,    \* bound: invitations ever sent
    Calls,       \* bound: calls in flight at once
    MaxCalls,    \* bound: calls ever begun
    MaxFaults    \* bound: calls that die

People == Colleagues \cup {Owner}
Invites == 1..NInvites
None == 0

StaffAssumption ==
    /\ Owner \notin Colleagues
    /\ NInvites \in Nat /\ MaxCalls \in Nat /\ MaxFaults \in Nat

VARIABLES
    staff,    \* staff_users
    invites,  \* staff_invites
    calls,    \* where each call is
    decided,  \* history: what was last decided for a person, counted
    barred,   \* history: access was removed, and no invitation begun since
    excused,  \* history: people about whom calls overlapped or died, or whose
              \* permissions were set while they were invited
    begun, faults  \* what has been spent of each bound

history == <<decided, barred, excused>>
spent == <<begun, faults>>
vars == <<staff, invites, calls, history, spent>>

(* `grant` is the tier, the groups and the permissions.                    *)
Row == [status : {"absent", "invited", "active", "revoked"}, grant : Nat]
Invite == [status : {"none", "open", "used", "revoked"}, for : People, grant : Nat]
NoInvite == [status |-> "none", for |-> Owner, grant |-> 0]

(* `found` is whether the row was there when the call looked for it.       *)
Step == {"idle", "count", "setup", "find", "write", "withdraw", "issue",
         "accept", "spend", "look", "others", "revoke", "grant"}
Call == [pc : Step, who : People, found : BOOLEAN, invite : Invites \cup {None}, grant : Nat]
Idle == [pc |-> "idle", who |-> Owner, found |-> FALSE, invite |-> None, grant |-> 0]

Init ==
    /\ staff = [p \in People |-> [status |-> "absent", grant |-> 0]]
    /\ invites = [i \in Invites |-> NoInvite]
    /\ calls = [c \in Calls |-> Idle]
    /\ decided = [p \in People |-> 0]
    /\ barred = [p \in People |-> FALSE]
    /\ excused = {}
    /\ begun = 0 /\ faults = 0

Active(p) == staff[p].status = "active"
Open(p) == {i \in Invites : invites[i].status = "open" /\ invites[i].for = p}

(* Another call about the same person is between what it has read or       *)
(* written and its last write.                                             *)
Overlaps(c) ==
    \E d \in Calls \ {c} :
        /\ calls[d].who = calls[c].who
        /\ calls[d].pc \in {"withdraw", "issue", "accept", "spend"}

Excuse(c, cond) == excused' = IF cond THEN excused \cup {calls[c].who} ELSE excused

Begin(c, call) ==
    /\ calls[c] = Idle
    /\ begun < MaxCalls /\ begun' = begun + 1
    /\ calls' = [calls EXCEPT ![c] = call]

(* Whoever acts is active when the request is authenticated, and never     *)
(* acts on themselves.                                                     *)
BeginBy(c, actor, call) == Active(actor) /\ actor # call.who /\ Begin(c, call)

Goes(c, pc) == calls' = [calls EXCEPT ![c].pc = pc]
Ends(c) == calls' = [calls EXCEPT ![c] = Idle]

-------------------------------------------------------------------------------
(* bootstrap: the first account.                                           *)

BeginSetup(c) ==
    /\ Begin(c, [Idle EXCEPT !.pc = "count"])
    /\ UNCHANGED <<staff, invites, history, faults>>

CountStaff(c) ==
    /\ calls[c].pc = "count"
    /\ IF \A p \in People : staff[p].status = "absent" THEN Goes(c, "setup") ELSE Ends(c)
    /\ UNCHANGED <<staff, invites, history, spent>>

(* The address is unique: the second of two who counted nobody fails.      *)
CreateOwner(c) ==
    /\ calls[c].pc = "setup"
    /\ IF staff[Owner].status = "absent"
         THEN staff' = [staff EXCEPT ![Owner].status = "active"]
         ELSE UNCHANGED staff
    /\ Ends(c)
    /\ UNCHANGED <<invites, history, spent>>

-------------------------------------------------------------------------------
(* invite.                                                                 *)

BeginInvite(c, actor, p) ==
    /\ BeginBy(c, actor, [Idle EXCEPT !.pc = "find", !.who = p])
    /\ UNCHANGED <<staff, invites, history, faults>>

FindColleague(c) ==
    LET p == calls[c].who
    IN /\ calls[c].pc = "find"
       /\ IF Active(p) THEN Ends(c)
          ELSE calls' = [calls EXCEPT ![c].pc = "write", ![c].found = staff[p].status # "absent"]
       /\ UNCHANGED <<staff, invites, history, spent>>

(* The row is created, which fails if it is there by now, or refreshed,    *)
(* whatever has become of it.                                              *)
WriteInvited(c) ==
    LET call == calls[c]
        p == call.who
        offer == decided[p] + 1
    IN /\ call.pc = "write"
       /\ IF ~call.found /\ staff[p].status # "absent"
            THEN Ends(c) /\ UNCHANGED <<staff, history>>
            ELSE /\ staff' = [staff EXCEPT ![p] = [status |-> "invited", grant |-> offer]]
                 /\ calls' = [calls EXCEPT ![c].pc = IF call.found THEN "withdraw" ELSE "issue",
                                           ![c].grant = offer]
                 /\ decided' = [decided EXCEPT ![p] = offer]
                 /\ barred' = [barred EXCEPT ![p] = FALSE]
                 /\ Excuse(c, Overlaps(c))
       /\ UNCHANGED <<invites, spent>>

Withdrawn(p) ==
    [i \in Invites |-> IF i \in Open(p) THEN [invites[i] EXCEPT !.status = "revoked"]
                       ELSE invites[i]]

(* What was sent before stays in force.                                    *)
KeepEarlier(c) ==
    /\ calls[c].pc = "withdraw"
    /\ Goes(c, "issue")
    /\ UNCHANGED <<staff, invites, history, spent>>

WithdrawEarlier(c) ==
    /\ calls[c].pc = "withdraw"
    /\ invites' = Withdrawn(calls[c].who)
    /\ Goes(c, "issue")
    /\ Excuse(c, Overlaps(c))
    /\ UNCHANGED <<staff, decided, barred, spent>>

Issue(c) ==
    LET call == calls[c]
        p == call.who
        unsent == {i \in Invites : invites[i].status = "none"}
    IN /\ call.pc = "issue" /\ unsent # {}
       /\ invites' = [invites EXCEPT ![Min(unsent)] =
                        [status |-> "open", for |-> p, grant |-> call.grant]]
       /\ Ends(c)
       /\ Excuse(c, Overlaps(c))
       /\ UNCHANGED <<staff, decided, barred, spent>>

RevokeInvite(p) ==
    /\ \E actor \in People : Active(actor)
    /\ Open(p) # {}
    /\ invites' = Withdrawn(p)
    /\ UNCHANGED <<staff, calls, history, spent>>

ExpireInvite(i) ==
    /\ invites[i].status = "open"
    /\ invites' = [invites EXCEPT ![i].status = "revoked"]
    /\ UNCHANGED <<staff, calls, history, spent>>

-------------------------------------------------------------------------------
(* accept.                                                                 *)

BeginAccept(c, i) ==
    /\ invites[i].status = "open"
    /\ Begin(c, [Idle EXCEPT !.pc = "accept", !.who = invites[i].for, !.invite = i,
                             !.grant = invites[i].grant])
    /\ UNCHANGED <<staff, invites, history, faults>>

(* The row is written whatever it and the invitation say by now.           *)
ActivateColleague(c) ==
    LET call == calls[c]
    IN /\ call.pc = "accept"
       /\ staff' = [staff EXCEPT ![call.who] = [status |-> "active", grant |-> call.grant]]
       /\ Excuse(c, Overlaps(c))
       /\ Goes(c, "spend")
       /\ UNCHANGED <<invites, decided, barred, spent>>

SpendInvite(c) ==
    /\ calls[c].pc = "spend"
    /\ invites' = [invites EXCEPT ![calls[c].invite].status = "used"]
    /\ Ends(c)
    /\ UNCHANGED <<staff, history, spent>>

-------------------------------------------------------------------------------
(* revokeAccess and setPermissions.                                        *)

BeginRevoke(c, actor, p) ==
    /\ staff[p].status # "absent"
    /\ BeginBy(c, actor, [Idle EXCEPT !.pc = "look", !.who = p])
    /\ UNCHANGED <<staff, invites, history, faults>>

(* wouldOrphanConsole: only an active owner is counted.                    *)
LookAtTier(c) ==
    /\ calls[c].pc = "look"
    /\ Goes(c, IF calls[c].who = Owner /\ Active(Owner) THEN "others" ELSE "revoke")
    /\ UNCHANGED <<staff, invites, history, spent>>

(* There is no other owner.                                                *)
CountOwners(c) ==
    /\ calls[c].pc = "others"
    /\ Ends(c)
    /\ UNCHANGED <<staff, invites, history, spent>>

(* Open invitations are left open.                                         *)
RevokeAccess(c) ==
    /\ calls[c].pc = "revoke"
    /\ staff' = [staff EXCEPT ![calls[c].who].status = "revoked"]
    /\ barred' = [barred EXCEPT ![calls[c].who] = TRUE]
    /\ Ends(c)
    /\ UNCHANGED <<invites, decided, excused, spent>>

BeginSetPermissions(c, actor, p) ==
    /\ staff[p].status # "absent" /\ p # Owner
    /\ BeginBy(c, actor, [Idle EXCEPT !.pc = "grant", !.who = p])
    /\ UNCHANGED <<staff, invites, history, faults>>

(* An invitation that is open will grant what it offered.                  *)
SetPermissions(c) ==
    LET p == calls[c].who
    IN /\ calls[c].pc = "grant"
       /\ decided' = [decided EXCEPT ![p] = @ + 1]
       /\ staff' = [staff EXCEPT ![p].grant = decided[p] + 1]
       /\ Excuse(c, Open(p) # {} \/ Overlaps(c))
       /\ Ends(c)
       /\ UNCHANGED <<invites, barred, spent>>

-------------------------------------------------------------------------------
(* A call that dies between two writes leaves the first.                   *)
Dies(c) ==
    /\ calls[c] # Idle
    /\ faults < MaxFaults /\ faults' = faults + 1
    /\ Excuse(c, calls[c].pc \in {"withdraw", "issue", "spend"})
    /\ Ends(c)
    /\ UNCHANGED <<staff, invites, decided, barred, begun>>

Proceeds(c) ==
    \/ CountStaff(c) \/ CreateOwner(c)
    \/ FindColleague(c) \/ WriteInvited(c) \/ WithdrawEarlier(c) \/ Issue(c)
    \/ ActivateColleague(c) \/ SpendInvite(c)
    \/ LookAtTier(c) \/ CountOwners(c) \/ RevokeAccess(c)
    \/ SetPermissions(c)

Next ==
    \/ \E c \in Calls :
          \/ BeginSetup(c)
          \/ \E actor \in People, p \in Colleagues : BeginInvite(c, actor, p)
          \/ \E i \in Invites : BeginAccept(c, i)
          \/ \E actor, p \in People : BeginRevoke(c, actor, p) \/ BeginSetPermissions(c, actor, p)
          \/ Proceeds(c) \/ Dies(c)
    \/ \E p \in Colleagues : RevokeInvite(p)
    \/ \E i \in Invites : ExpireInvite(i)

Spec == Init /\ [][Next]_vars

-------------------------------------------------------------------------------
(* Properties.                                                             *)

TypeOK ==
    /\ staff \in [People -> Row] /\ invites \in [Invites -> Invite]
    /\ calls \in [Calls -> Call]
    /\ decided \in [People -> Nat] /\ barred \in [People -> BOOLEAN]
    /\ excused \in SUBSET People
    /\ begun \in 0..MaxCalls /\ faults \in 0..MaxFaults

(* What an active colleague may do is what was last decided for them, and  *)
(* once their call is over no invitation of theirs is left to be accepted  *)
(* ("Two live invitations is two ways in", staff.service.ts:210), unless   *)
(* calls about them overlapped or died, or their permissions were set      *)
(* while an invitation was open.                                           *)
LastDecisionStands ==
    \A p \in Colleagues : Active(p) /\ p \notin excused =>
        /\ staff[p].grant = decided[p]
        /\ (\A c \in Calls : calls[c].who # p) => Open(p) = {}

(* "they stop being staff" (staff.service.ts:380): whoever lost access is  *)
(* not back before somebody invites them again.                            *)
RevokedStaysOut == \A p \in People : barred[p] => ~Active(p)
===============================================================================

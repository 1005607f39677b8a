---------------------------- MODULE StaffSessions ----------------------------
(***************************************************************************)
(* The console sessions of one colleague                                   *)
(* (src/features/admin/auth/staff-auth.service.ts): signing in, refreshing *)
(* and signing out, while administrators take access away, change what is  *)
(* granted, and invite the colleague again (Staff has those calls whole;   *)
(* here they are the writes that sessions meet).                           *)
(*                                                                         *)
(* A refresh token is a number; a client may present any that was issued.  *)
(* The access token that comes with it is left out: what it opens is       *)
(* decided by the colleague's row, read anew for every request.            *)
(***************************************************************************)
EXTENDS Integers

CONSTANTS
    NSessions,  \* bound: sessions ever opened
    NTokens,    \* bound: tokens ever issued
    Calls,      \* bound: calls in flight at once
    MaxChanges  \* bound: decisions about the colleague

Sessions == 1..NSessions
None == 0

StaffSessionsAssumption == NSessions \in Nat /\ NTokens \in Nat /\ MaxChanges \in Nat

VARIABLES
    active,    \* the colleague's status allows a session
    sessions,  \* staff_sessions
    issued,    \* tokens issued
    calls,     \* where each call is
    changes,   \* what has been spent of the bound
    shut       \* history: the sessions a sign-out or a purge has ended

vars == <<active, sessions, issued, calls, changes, shut>>

(* `revoked` is whether revokedAt is set.                                  *)
Session == [token : Nat, revoked : BOOLEAN]
NoSession == [token |-> None, revoked |-> FALSE]

Call == [pc : {"idle", "verify", "staff", "rotate", "purge"}, session : Sessions \cup {None}]
Idle == [pc |-> "idle", session |-> None]

Init ==
    /\ active = TRUE
    /\ sessions = [s \in Sessions |-> NoSession]
    /\ issued = 0
    /\ calls = [c \in Calls |-> Idle]
    /\ changes = 0
    /\ shut = {}

Opened == {s \in Sessions : sessions[s] # NoSession}
Open == {s \in Opened : ~sessions[s].revoked}
Ends(c) == calls' = [calls EXCEPT ![c] = Idle]
Begin(c, pc, s) ==
    calls[c] = Idle /\ calls' = [calls EXCEPT ![c] = [pc |-> pc, session |-> s]]

Issue == issued < NTokens /\ issued' = issued + 1

-------------------------------------------------------------------------------
(* login: the row is read, the password verified, the session opened.      *)

BeginLogin(c) ==
    /\ active
    /\ Begin(c, "verify", None)
    /\ UNCHANGED <<active, sessions, issued, changes, shut>>

OpenSession(c) ==
    /\ calls[c].pc = "verify"
    /\ Issue
    /\ \E s \in Sessions \ Opened :
          sessions' = [sessions EXCEPT ![s].token = issued + 1]
    /\ Ends(c)
    /\ UNCHANGED <<active, changes, shut>>

-------------------------------------------------------------------------------
(* refresh: the session by its token, the colleague, the next token.       *)

BeginRefresh(c, s) ==
    /\ s \in Open
    /\ Begin(c, "staff", s)
    /\ UNCHANGED <<active, sessions, issued, changes, shut>>

ReadColleague(c) ==
    /\ calls[c].pc = "staff"
    /\ IF active THEN calls' = [calls EXCEPT ![c].pc = "rotate"] ELSE Ends(c)
    /\ UNCHANGED <<active, sessions, issued, changes, shut>>

(* The whole session as it was read.                                       *)
SaveSession(c) ==
    /\ calls[c].pc = "rotate"
    /\ Issue
    /\ sessions' = [sessions EXCEPT ![calls[c].session] =
                        [token |-> issued + 1, revoked |-> FALSE]]
    /\ Ends(c)
    /\ UNCHANGED <<active, changes, shut>>

(* What is saved is the token, in whatever the session has become.         *)
Rotate(c) ==
    /\ calls[c].pc = "rotate"
    /\ Issue
    /\ sessions' = [sessions EXCEPT ![calls[c].session].token = issued + 1]
    /\ Ends(c)
    /\ UNCHANGED <<active, changes, shut>>

(* A password that does not match, or a database that throws.              *)
Fails(c) ==
    /\ calls[c].pc \in {"verify", "staff", "rotate"}
    /\ Ends(c)
    /\ UNCHANGED <<active, sessions, issued, changes, shut>>

-------------------------------------------------------------------------------
(* logout, revokeAllSessions and the decisions that call it.               *)

Revoked(ended) ==
    [s \in Sessions |-> IF s \in ended THEN [sessions[s] EXCEPT !.revoked = TRUE]
                        ELSE sessions[s]]

Logout(s) ==
    /\ s \in Open
    /\ sessions' = Revoked({s})
    /\ shut' = shut \cup {s}
    /\ UNCHANGED <<active, issued, calls, changes>>

(* Access is taken away, or what is granted changes.                       *)
Decide(c, status) ==
    /\ changes < MaxChanges /\ changes' = changes + 1
    /\ active' = status
    /\ Begin(c, "purge", None)
    /\ UNCHANGED <<sessions, issued, shut>>

(* Whoever was signed in is out: a refresh may be under way.               *)
Purge(c) ==
    /\ calls[c].pc = "purge"
    /\ sessions' = Revoked(Open)
    /\ shut' = shut \cup Open
    /\ Ends(c)
    /\ UNCHANGED <<active, issued, changes>>

(* An invitation is accepted.                                              *)
Readmit ==
    /\ changes < MaxChanges /\ changes' = changes + 1
    /\ ~active /\ active' = TRUE
    /\ UNCHANGED <<sessions, issued, calls, shut>>

Next ==
    \/ \E c \in Calls :
          \/ BeginLogin(c) \/ OpenSession(c)
          \/ \E s \in Sessions : BeginRefresh(c, s)
          \/ ReadColleague(c) \/ Rotate(c) \/ Fails(c)
          \/ \E status \in {active, FALSE} : Decide(c, status)
          \/ Purge(c)
    \/ \E s \in Sessions : Logout(s)
    \/ Readmit

Spec == Init /\ [][Next]_vars

-------------------------------------------------------------------------------
(* Properties.                                                             *)

TypeOK ==
    /\ active \in BOOLEAN
    /\ sessions \in [Sessions -> Session] /\ issued \in 0..NTokens
    /\ calls \in [Calls -> Call]
    /\ changes \in 0..MaxChanges /\ shut \in SUBSET Sessions

(* A session that a sign-out or an administrator has ended stays ended,    *)
(* whatever refreshes of it were under way and whoever is invited again    *)
(* ("Ends every console session for one person", staff-auth.service.ts:243).*)
ShutStaysShut == shut \cap Open = {}

(* "a refresh token is single-use" (staff-auth.service.ts:201): nobody is  *)
(* about to rotate a token that another call has rotated since.            *)
UsedOnce ==
    \A c, d \in Calls : calls[c].pc = "rotate" /\ calls[d].pc = "rotate" /\ c # d =>
        calls[c].session # calls[d].session
===============================================================================

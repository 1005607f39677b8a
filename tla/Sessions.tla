------------------------------- MODULE Sessions -------------------------------
(***************************************************************************)
(* The sessions of one account (src/features/auth, with the parts of       *)
(* src/features/users that end sessions): signing in, rotating a refresh   *)
(* token, signing out, changing and resetting the password, and an         *)
(* operator's change of status.                                            *)
(*                                                                         *)
(* Every call is a chain of awaited reads and writes; each step below ends *)
(* at one, and calls interleave between their steps.  A call may also die  *)
(* at a step, when the database throws or the process stops.               *)
(*                                                                         *)
(* The statuses that may hold a session (pending, active, suspended) are   *)
(* one value here, and what a password is stays out: whether a guess       *)
(* matches the hash that was read is a choice.  A call that is refused     *)
(* without writing anything is not a step.                                 *)
(***************************************************************************)
EXTENDS Integers, FiniteSets

CONSTANTS
    NSessions,    \* bound: sessions ever created
    NLinks,       \* bound: reset links ever created
    MaxFailures,  \* MAX_FAILED_LOGINS
    Calls,        \* bound: calls in flight at once
    MaxCalls,     \* bound: calls ever begun
    MaxFaults     \* bound: calls that die

Sessions == 1..NSessions
Links == 1..NLinks
None == 0

ASSUME SessionsAssumption ==
    /\ NSessions \in Nat /\ NLinks \in Nat
    /\ MaxFailures \in Nat \ {0}
    /\ MaxCalls \in Nat /\ MaxFaults \in Nat

VARIABLES
    user,      \* the users document
    sessions,  \* auth_sessions
    links,     \* password_resets
    calls,     \* where each call is
    purges,    \* history: how often every session of the account was revoked
    barredAt,  \* history: `purges` after the first since the status was last written, or 0
    failed,    \* history: wrong passwords recorded
    resets,    \* history: how often each link set the password
    begun, faults    \* what has been spent of each bound

history == <<purges, barredAt, failed, resets>>
spent == <<begun, faults>>
vars == <<user, sessions, links, calls, history, spent>>

(* "none" before the account is registered, "gone" once its row is deleted. *)
Status == {"none", "allowed", "banned", "deleted", "gone"}
User == [status : Status, failures : Nat, locked : BOOLEAN]

Reason == {"logout", "rotated", "reuse_detected", "password_change", "status_change"}

(* `heir` is replacedBySessionId.  History: `parent`, the session whose     *)
(* token was presented to mint this one; `began` and `born`, the value of   *)
(* `purges` when the minting call began and when it minted; `shown`, how    *)
(* often a refresh found the token live or rotated.                         *)
Session == [state : {"none", "live", "revoked", "swept"}, reason : Reason \cup {"null"},
            expired : BOOLEAN, heir : Sessions \cup {None},
            parent : Sessions \cup {None}, began : Nat, born : Nat, shown : Nat]
Link == {"absent", "live", "used", "expired"}

(* `session` is the one a token names, `minted` the one the call created,  *)
(* `seen` the failure count it read, `next` the status or the reason it is *)
(* about to write.                                                         *)
Step == {"idle", "register", "failure", "success", "user", "mint", "rotate", "logout",
         "spend", "link", "owner", "burn", "set", "status", "purge", "erase"}
Call == [pc : Step,
         session : Sessions \cup {None}, minted : Sessions \cup {None},
         link : Links \cup {None}, seen : Nat,
         next : Status \cup Reason, began : Nat]

NoSession == [state |-> "none", reason |-> "null", expired |-> FALSE, heir |-> None,
              parent |-> None, began |-> 0, born |-> 0, shown |-> 0]
Idle == [pc |-> "idle", session |-> None, minted |-> None, link |-> None, seen |-> 0,
         next |-> "none", began |-> 0]

Init ==
    /\ user = [status |-> "none", failures |-> 0, locked |-> FALSE]
    /\ sessions = [s \in Sessions |-> NoSession]
    /\ links = [l \in Links |-> "absent"]
    /\ calls = [c \in Calls |-> Idle]
    /\ purges = 0 /\ barredAt = 0 /\ failed = 0
    /\ resets = [l \in Links |-> 0]
    /\ begun = 0 /\ faults = 0

Exists == user.status \notin {"none", "gone"}
Barred == user.status \in {"banned", "deleted"}

(* A request arrives and makes its first read. *)
Begins(c, call) ==
    /\ calls[c] = Idle
    /\ begun < MaxCalls
    /\ begun' = begun + 1
    /\ calls' = [calls EXCEPT ![c] = [call EXCEPT !.began = purges]]
    /\ UNCHANGED faults

Goes(c, pc) == calls' = [calls EXCEPT ![c].pc = pc]
Ends(c) == calls' = [calls EXCEPT ![c] = Idle]

-------------------------------------------------------------------------------
(* Sessions as the repository writes them.                                 *)

Fresh(s) == sessions[s].state = "none" /\ \A r \in 1..(s - 1) : sessions[r].state # "none"

(* revokeSession: only where `revokedAt` is still null. *)
RevokeSession(s, heir, reason) ==
    sessions' = IF sessions[s].state # "live" THEN sessions
                ELSE [sessions EXCEPT ![s].state = "revoked", ![s].reason = reason,
                                      ![s].heir = heir]

(* Ending every session but the newest. *)
RevokeOlder(reason) ==
    /\ sessions' = [s \in Sessions |->
                      IF sessions[s].state = "live" /\ \E r \in Sessions :
                           r > s /\ sessions[r].state = "live"
                        THEN [sessions[s] EXCEPT !.state = "revoked", !.reason = reason]
                        ELSE sessions[s]]
    /\ purges' = purges + 1
    /\ barredAt' = IF barredAt = 0 THEN purges + 1 ELSE barredAt

(* revokeAllSessionsForUser *)
RevokeAll(reason) ==
    /\ sessions' = [s \in Sessions |->
                      IF sessions[s].state = "live"
                        THEN [sessions[s] EXCEPT !.state = "revoked", !.reason = reason]
                        ELSE sessions[s]]
    /\ purges' = purges + 1
    /\ barredAt' = IF barredAt = 0 THEN purges + 1 ELSE barredAt

Purge(c) ==
    /\ calls[c].pc = "purge"
    /\ RevokeAll(calls[c].next)
    /\ Ends(c)
    /\ UNCHANGED <<user, links, failed, resets, spent>>

(* issueSession; a refresh still has to retire the token it was given. *)
Mint(c, s) ==
    /\ calls[c].pc = "mint"
    /\ Fresh(s)
    /\ sessions' = [sessions EXCEPT ![s] =
                      [NoSession EXCEPT !.state = "live", !.parent = calls[c].session,
                                        !.began = calls[c].began, !.born = purges]]
    /\ calls' = [calls EXCEPT ![c] = IF calls[c].session = None THEN Idle
                                     ELSE [calls[c] EXCEPT !.pc = "rotate", !.minted = s]]
    /\ UNCHANGED <<user, links, history, spent>>

-------------------------------------------------------------------------------
(* Registering and signing in.                                             *)

BeginRegister(c) ==
    /\ user.status = "none"
    /\ Begins(c, [Idle EXCEPT !.pc = "register"])
    /\ UNCHANGED <<user, sessions, links, history>>

(* The unique index refuses the loser of a race. *)
Register(c) ==
    /\ calls[c].pc = "register"
    /\ IF user.status = "none"
         THEN user' = [user EXCEPT !.status = "allowed"] /\ Goes(c, "mint")
         ELSE Ends(c) /\ UNCHANGED user
    /\ UNCHANGED <<sessions, links, history, spent>>

(* The document is read once; the hash is verified against what was read. *)
BeginLogin(c) ==
    /\ Exists /\ ~user.locked
    /\ \/ Begins(c, [Idle EXCEPT !.pc = "failure", !.seen = user.failures])
       \/ ~Barred /\ Begins(c, [Idle EXCEPT !.pc = "success"])
    /\ UNCHANGED <<user, sessions, links, history>>

(* A lock one failure early. *)
LocksEarly(seen) == seen + 2 >= MaxFailures

(* Whether this failure locks is decided from the count that was read. *)
Locks(seen) == seen + 1 >= MaxFailures

RecordFailedLogin(c) ==
    /\ calls[c].pc = "failure"
    /\ IF Exists
         THEN /\ user' = [user EXCEPT !.failures = @ + 1,
                                      !.locked = @ \/ Locks(calls[c].seen)]
              /\ failed' = failed + 1
         ELSE UNCHANGED <<user, failed>>
    /\ Ends(c)
    /\ UNCHANGED <<sessions, links, purges, barredAt, resets, spent>>

RecordSuccessfulLogin(c) ==
    /\ calls[c].pc = "success"
    /\ user' = IF Exists THEN [user EXCEPT !.failures = 0, !.locked = FALSE] ELSE user
    /\ Goes(c, "mint")
    /\ UNCHANGED <<sessions, links, history, spent>>

-------------------------------------------------------------------------------
(* Refreshing and signing out.                                             *)

(* Any token that no longer works is taken for a stolen one. *)
AnyDead(s) == sessions[s].state = "revoked"

(* A token that was rotated away is presented again. *)
Replayed(s) == sessions[s].state = "revoked" /\ sessions[s].reason = "rotated"

BeginRefresh(c, s) ==
    /\ \/ /\ Replayed(s)
          /\ Begins(c, [Idle EXCEPT !.pc = "purge", !.next = "reuse_detected"])
       \/ /\ sessions[s].state = "live" /\ ~sessions[s].expired
          /\ Begins(c, [Idle EXCEPT !.pc = "user", !.session = s])
    /\ sessions' = [sessions EXCEPT ![s].shown = @ + 1]
    /\ UNCHANGED <<user, links, history>>

(* A refresh that takes the claims of the session for granted. *)
TrustsSession(c) ==
    /\ calls[c].pc = "user"
    /\ Goes(c, "mint")
    /\ UNCHANGED <<user, sessions, links, history, spent>>

(* A refresh that retires the old token before it issues the new one. *)
RetiresFirst(c) ==
    /\ calls[c].pc = "user"
    /\ Goes(c, "rotate")
    /\ UNCHANGED <<user, sessions, links, history, spent>>

RefreshReadsUser(c) ==
    /\ calls[c].pc = "user"
    /\ \/ ~Exists /\ Ends(c)
       \/ Barred /\ calls' = [calls EXCEPT ![c].pc = "purge", ![c].next = "status_change"]
       \/ Exists /\ ~Barred /\ Goes(c, "mint")
    /\ UNCHANGED <<user, sessions, links, history, spent>>

Rotate(c) ==
    /\ calls[c].pc = "rotate"
    /\ RevokeSession(calls[c].session, calls[c].minted, "rotated")
    /\ Ends(c)
    /\ UNCHANGED <<user, links, history, spent>>

BeginLogout(c, s) ==
    /\ sessions[s].state = "live"
    /\ Begins(c, [Idle EXCEPT !.pc = "logout", !.session = s])
    /\ UNCHANGED <<user, sessions, links, history>>

Logout(c) ==
    /\ calls[c].pc = "logout"
    /\ RevokeSession(calls[c].session, None, "logout")
    /\ Ends(c)
    /\ UNCHANGED <<user, links, history, spent>>

-------------------------------------------------------------------------------
(* Passwords.                                                              *)

BeginChangePassword(c) ==
    /\ Exists
    /\ Begins(c, [Idle EXCEPT !.pc = "set"])
    /\ UNCHANGED <<user, sessions, links, history>>

BeginForgot(c) ==
    /\ Exists
    /\ Begins(c, [Idle EXCEPT !.pc = "spend"])
    /\ UNCHANGED <<user, sessions, links, history>>

SpendLinks(c) ==
    /\ calls[c].pc = "spend"
    /\ links' = [l \in Links |-> IF links[l] \in {"live", "expired"} THEN "used" ELSE links[l]]
    /\ Goes(c, "link")
    /\ UNCHANGED <<user, sessions, history, spent>>

CreateLink(c, l) ==
    /\ calls[c].pc = "link"
    /\ links[l] = "absent" /\ \A k \in 1..(l - 1) : links[k] # "absent"
    /\ links' = [links EXCEPT ![l] = "live"]
    /\ Ends(c)
    /\ UNCHANGED <<user, sessions, history, spent>>

BeginReset(c, l) ==
    /\ links[l] = "live"
    /\ Begins(c, [Idle EXCEPT !.pc = "owner", !.link = l])
    /\ UNCHANGED <<user, sessions, links, history>>

ResetReadsUser(c) ==
    /\ calls[c].pc = "owner"
    /\ IF Exists THEN Goes(c, "burn") ELSE Ends(c)
    /\ UNCHANGED <<user, sessions, links, history, spent>>

(* The link is left for the end, and never reached. *)
BurnLater(c) ==
    /\ calls[c].pc = "burn"
    /\ Goes(c, "set")
    /\ UNCHANGED <<user, sessions, links, history, spent>>

BurnLink(c) ==
    /\ calls[c].pc = "burn"
    /\ links' = [links EXCEPT ![calls[c].link] = "used"]
    /\ Goes(c, "set")
    /\ UNCHANGED <<user, sessions, history, spent>>

(* The end of both ways to a new password: the hash, then the sessions. *)
SetPasswordHash(c) ==
    /\ calls[c].pc = "set"
    /\ calls' = [calls EXCEPT ![c].pc = "purge", ![c].next = "password_change"]
    /\ resets' = IF calls[c].link = None THEN resets
                 ELSE [resets EXCEPT ![calls[c].link] = @ + 1]
    /\ UNCHANGED <<user, sessions, links, purges, barredAt, failed, spent>>

-------------------------------------------------------------------------------
(* An operator changes the status; the person deletes the account.         *)

(* VALID_STATUS_TRANSITIONS, the statuses that may hold a session taken    *)
(* together: one of them may become another.                               *)
Transitions == [none |-> {}, allowed |-> {"allowed", "banned", "deleted"},
                banned |-> {"allowed", "deleted"}, deleted |-> {}, gone |-> {}]

BeginStatus(c, next) ==
    /\ next \in Transitions[user.status]
    /\ Begins(c, [Idle EXCEPT !.pc = "status", !.next = next])
    /\ UNCHANGED <<user, sessions, links, history>>

WriteStatus(c) ==
    LET next == calls[c].next
    IN /\ calls[c].pc = "status"
       /\ IF Exists
            THEN /\ user' = [user EXCEPT !.status = next]
                 /\ barredAt' = 0
                 /\ IF next = "allowed" THEN Ends(c)
                    ELSE calls' = [calls EXCEPT ![c].pc = "purge", ![c].next = "status_change"]
            ELSE Ends(c) /\ UNCHANGED <<user, barredAt>>
       /\ UNCHANGED <<sessions, links, purges, failed, resets, spent>>

(* The sessions go first, then everything else, then the row.  Nothing     *)
(* checks that the row is still there.                                     *)
BeginDelete(c) ==
    /\ user.status # "none"
    /\ Begins(c, [Idle EXCEPT !.pc = "erase"])
    /\ RevokeAll("status_change")
    /\ UNCHANGED <<user, links, failed, resets>>

EraseUser(c) ==
    /\ calls[c].pc = "erase"
    /\ user' = IF Exists THEN [user EXCEPT !.status = "gone"] ELSE user
    /\ Ends(c)
    /\ UNCHANGED <<sessions, links, history, spent>>

-------------------------------------------------------------------------------
(* Time, and what may go wrong.                                            *)

LockExpires ==
    /\ user.locked
    /\ user' = [user EXCEPT !.locked = FALSE]
    /\ UNCHANGED <<sessions, links, calls, history, spent>>

SessionExpires(s) ==
    /\ sessions[s].state \in {"live", "revoked"} /\ ~sessions[s].expired
    /\ sessions' = [sessions EXCEPT ![s].expired = TRUE]
    /\ UNCHANGED <<user, links, calls, history, spent>>

(* The TTL index removes an expired document, up to a minute later. *)
SessionSwept(s) ==
    /\ sessions[s].state \in {"live", "revoked"} /\ sessions[s].expired
    /\ sessions' = [sessions EXCEPT ![s].state = "swept"]
    /\ UNCHANGED <<user, links, calls, history, spent>>

LinkExpires(l) ==
    /\ links[l] = "live"
    /\ links' = [links EXCEPT ![l] = "expired"]
    /\ UNCHANGED <<user, sessions, calls, history, spent>>

Dies(c) ==
    /\ calls[c] # Idle
    /\ faults < MaxFaults
    /\ faults' = faults + 1
    /\ Ends(c)
    /\ UNCHANGED <<user, sessions, links, history, begun>>

SignsIn(c) ==
    \/ BeginRegister(c) \/ Register(c)
    \/ BeginLogin(c) \/ RecordFailedLogin(c) \/ RecordSuccessfulLogin(c)

Rotates(c) ==
    \/ \E s \in Sessions : BeginRefresh(c, s) \/ BeginLogout(c, s)
    \/ RefreshReadsUser(c) \/ Rotate(c) \/ Logout(c)

SetsPassword(c) ==
    \/ BeginChangePassword(c) \/ BeginForgot(c) \/ SpendLinks(c)
    \/ \E l \in Links : CreateLink(c, l) \/ BeginReset(c, l)
    \/ ResetReadsUser(c) \/ BurnLink(c) \/ SetPasswordHash(c)

Moderates(c) ==
    \/ \E next \in Status : BeginStatus(c, next)
    \/ WriteStatus(c) \/ BeginDelete(c) \/ EraseUser(c)

Time ==
    \/ LockExpires
    \/ \E s \in Sessions : SessionExpires(s) \/ SessionSwept(s)
    \/ \E l \in Links : LinkExpires(l)

Next ==
    \/ \E c \in Calls : \/ SignsIn(c) \/ Rotates(c) \/ SetsPassword(c) \/ Moderates(c)
                        \/ Purge(c) \/ Dies(c)
                        \/ \E s \in Sessions : Mint(c, s)
    \/ Time

Spec == Init /\ [][Next]_vars
-------------------------------------------------------------------------------
(* Properties.                                                             *)

(* Every document and every call has its declared shape. *)
TypeOK ==
    /\ user \in User
    /\ sessions \in [Sessions -> Session]
    /\ links \in [Links -> Link]
    /\ calls \in [Calls -> Call]
    /\ purges \in Nat /\ barredAt \in 0..purges /\ failed \in Nat
    /\ resets \in [Links -> Nat]
    /\ begun \in 0..MaxCalls /\ faults \in 0..MaxFaults

(* Revoking everything ends every line of sessions: whoever begins a        *)
(* refresh after it presents a session created after it.  Only a call that  *)
(* was already under way may carry an older line on (auth.service.ts:       *)
(* password change, reset, reuse; users.service.ts: status change).         *)
NoLineOutlives ==
    \A s \in Sessions :
        sessions[s].parent # None => sessions[s].began <= sessions[sessions[s].parent].born

(* Once an account that may not hold a session has had its sessions         *)
(* revoked, only a call that was already under way may still leave it one.  *)
BarredStaysOut ==
    barredAt > 0 /\ Barred =>
        \A s \in Sessions : sessions[s].state = "live" => sessions[s].began < barredAt

(* Every session goes for reuse only when some token was presented twice    *)
(* and had been replaced: signing out, a new password or a ban is never     *)
(* taken for theft (auth.service.ts:245-247).                               *)
NoFalseAlarm ==
    (\E s \in Sessions : sessions[s].reason = "reuse_detected") =>
        \E s \in Sessions : sessions[s].shown >= 2 /\ sessions[s].heir # None

(* A token is retired as rotated only once its replacement exists, and the  *)
(* replacement recorded for it was minted by presenting it: a call that     *)
(* dies half way strands nobody, and the chain can be audited.              *)
ChainHolds ==
    \A s \in Sessions :
        /\ sessions[s].reason = "rotated" <=> sessions[s].heir # None
        /\ sessions[s].heir # None => /\ sessions[sessions[s].heir].state # "none"
                                      /\ sessions[sessions[s].heir].parent = s

(* What ended a session is never rewritten, and an ended session stays      *)
(* ended, whatever calls were under way when it ended.                      *)
EndsOnce ==
    [][\A s \in Sessions :
         sessions[s].state = "revoked" =>
             sessions'[s].state # "live" /\ sessions'[s].reason = sessions[s].reason]_vars

(* A link that set a password is burnt, also when the call that used it     *)
(* died right after (auth.service.ts:447-448).                              *)
UsedIsBurnt == \A l \in Links : resets[l] > 0 => links[l] = "used"

(* An account is locked only after as many wrong passwords as it takes.     *)
LockWasEarned == user.locked => failed >= MaxFailures

-------------------------------------------------------------------------------
(* Statements of the repository that the code does not keep.               *)

(* "the presented one is revoked and a new pair is issued, so a token is    *)
(* good exactly once" (auth.service.ts:211-212).                            *)
GoodOnce ==
    \A s, r \in Sessions :
        sessions[s].parent # None /\ sessions[s].parent = sessions[r].parent => s = r
===============================================================================

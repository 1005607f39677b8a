----------------------------- MODULE Exchanges -----------------------------
(***************************************************************************)
(* What people and the app say to one another: the decision, the staff     *)
(* console and the sessions of one colleague, the ask session, the chat    *)
(* and the nudges, parts that share nothing but the process.  A behaviour  *)
(* is one of them, while the others rest in a first state.                 *)
(***************************************************************************)
EXTENDS Decide

\* The staff console, the sessions of a colleague, and the calls that are open at once, of these and
\* of the ask session.
CONSTANTS Owner, Colleagues, NInvites, Calls, MaxCalls, MaxDeaths
CONSTANTS NSessions, NTokens, MaxChanges

\* The ask session, the chat and the nudges.
CONSTANTS Spoken, Typed, FollowUps, Notes, MaxAttempts, Limit, MaxAskFaults
CONSTANTS Names, Questions, MaxTools, MaxMoves, MaxChatFaults
CONSTANTS Jobs, Resends, Gap, Days, MaxSwitches, MaxMailFaults

VARIABLES
    looking,
    staff, invites, staffCalls, decided, barred, excused, begun, staffFaults,
    turns, carried, recordings, jobs, followUps, askCalls, askFaults, transcribed, undeleted,
    broken,
    active, sessions, issued, signIns, changes, shut,
    rows, made, thread, questions, moves, chatFaults,
    today, enabled, subscribed, sends, log, nudged, switches, mailFaults, crowd

S == INSTANCE Staff WITH
        MaxFaults <- MaxDeaths, calls <- staffCalls, faults <- staffFaults

A == INSTANCE Ask WITH
        MaxFaults <- MaxAskFaults, calls <- askCalls, faults <- askFaults

U == INSTANCE StaffSessions WITH calls <- signIns

Q == INSTANCE Chat WITH
        Turns <- Questions, MaxCalls <- MaxTools, MaxFaults <- MaxChatFaults,
        turns <- questions, faults <- chatFaults

M == INSTANCE Mail WITH MaxFaults <- MaxMailFaults, faults <- mailFaults

ASSUME StaffAssumption == S!StaffAssumption
ASSUME AskAssumption == A!AskAssumption
ASSUME StaffSessionsAssumption == U!StaffSessionsAssumption
ASSUME ChatAssumption == Q!ChatAssumption
ASSUME MailAssumption == M!MailAssumption

staffVars == <<staff, invites, staffCalls, decided, barred, excused, begun, staffFaults>>
askVars == <<turns, carried, recordings, jobs, followUps, askCalls, askFaults, transcribed,
             undeleted, broken>>
signInVars == <<active, sessions, issued, signIns, changes, shut>>
chatVars == <<rows, made, thread, questions, moves, chatFaults>>
mailVars == <<today, enabled, subscribed, sends, log, nudged, switches, mailFaults, crowd>>

(* The decision has many first states: it rests in one of them. *)
Resting ==
    /\ catalogue = [m \in Meals |-> CHOOSE r \in Recipes : TRUE] /\ stock = {}
    /\ request = CHOOSE q \in Requests : ~q.signedIn

ExchangesInit ==
    /\ looking \in {"decide", "staff", "signIn", "ask", "chat", "mail"}
    /\ Init /\ (looking # "decide" => Resting)
    /\ S!Init /\ U!Init /\ A!Init /\ Q!Init /\ M!Init

Rest(part, partVars) == looking # part => UNCHANGED partVars

ExchangesNext ==
    /\ UNCHANGED looking
    /\ \/ looking = "decide" /\ Next
       \/ looking = "staff" /\ S!Next
       \/ looking = "signIn" /\ U!Next
       \/ looking = "ask" /\ A!Next
       \/ looking = "chat" /\ Q!Next
       \/ looking = "mail" /\ M!Next
    /\ Rest("decide", vars) /\ Rest("staff", staffVars) /\ Rest("signIn", signInVars)
    /\ Rest("ask", askVars) /\ Rest("chat", chatVars) /\ Rest("mail", mailVars)

ExchangesSpec ==
    /\ ExchangesInit
    /\ [][ExchangesNext]_<<looking, vars, staffVars, signInVars, askVars, chatVars, mailVars>>

LastDecisionStands == S!LastDecisionStands
NotesCarried == A!NotesCarried
EndedJobsLeaveNothing == A!EndedJobsLeaveNothing
ShutStaysShut == U!ShutStaysShut
ReceiptsHonest == Q!ReceiptsHonest
CapHolds == M!CapHolds
=============================================================================
